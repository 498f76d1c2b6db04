------------------------------ MODULE HubProofs ------------------------------
(***************************************************************************)
(* Proofs about the device registry, the ServeDevice goroutines and the    *)
(* shutdown, for any number of connections, devices and SOCKS5 users.      *)
(***************************************************************************)
EXTENDS DeviceHub, TLAPS

\* A goroutine that has read the register line knows its device.
OwnersKnowTheirDevice ==
    \A c \in Conns :
        pc[c] \in {"ack", "put", "serving", "remove", "close"} => dev[c] \in Devices

\* A user that has a session has it from the registry, under the device that was
\* asked for; a session that was registered keeps its device to the end.
UsersHaveTheirDevice ==
    \A u \in Users :
        /\ user[u].step \in {"wait", "open", "relay"} => user[u].want \in Devices
        /\ user[u].step \in {"open", "relay"} =>
              /\ user[u].sess \in Conns
              /\ dev[user[u].sess] = user[u].want
              /\ pc[user[u].sess] \in {"serving", "remove", "close", "done"}

\* No connection is open before it is accepted or after its goroutine returned.
IdleConnectionsAreClosed ==
    \A c \in Conns : pc[c] \in {"none", "done"} => ~up[c]

\* main says "clean" only when every goroutine has returned, and none starts
\* afterwards.
CleanMeansAllDone == phase = "clean" => AllDone

\* Every entry of the registry belongs to a goroutine that has its Remove still
\* to come: the first half of EntriesHaveAnOwner.
RegistryHasOwners ==
    \A d \in Devices : reg[d] # NoSession =>
        dev[reg[d]] = d /\ pc[reg[d]] \in {"serving", "remove"}

\* The inductive invariant.
HubInv ==
    /\ TypeOK
    /\ RegistryHasOwners
    /\ OwnersKnowTheirDevice
    /\ UsersHaveTheirDevice
    /\ OpenSessionIsReachable
    /\ IdleConnectionsAreClosed
    /\ CleanMeansAllDone

\* The initial state satisfies the invariant.
LEMMA InitEstablishesHubInv == Init => HubInv
<1> SUFFICES ASSUME Init PROVE HubInv
  OBVIOUS
<1>1. TypeOK
  BY HubAssumption DEF Init, TypeOK, Steps, UserSteps, Phases, Idle
<1>2. /\ RegistryHasOwners /\ OwnersKnowTheirDevice /\ UsersHaveTheirDevice
      /\ OpenSessionIsReachable /\ IdleConnectionsAreClosed /\ CleanMeansAllDone
  BY DEF Init, RegistryHasOwners, OwnersKnowTheirDevice, UsersHaveTheirDevice, Idle,
         OpenSessionIsReachable, IdleConnectionsAreClosed, CleanMeansAllDone
<1> QED BY <1>1, <1>2 DEF HubInv

\* A new connection is open and at its first step.
LEMMA AcceptStep ==
    ASSUME HubInv, NEW c \in Conns, Accept(c) PROVE HubInv'
<1> USE HubAssumption DEF HubInv, At, Alive, Goto
<1>1. TypeOK'
  BY DEF TypeOK, Steps, Accept, main
<1>2. RegistryHasOwners'
  BY DEF RegistryHasOwners, TypeOK, Accept
<1>3. OwnersKnowTheirDevice'
  BY DEF OwnersKnowTheirDevice, TypeOK, Accept
<1>4. UsersHaveTheirDevice'
  BY DEF UsersHaveTheirDevice, TypeOK, Accept
<1>5. OpenSessionIsReachable'
  BY DEF OpenSessionIsReachable, TypeOK, Accept
<1>6. IdleConnectionsAreClosed'
  BY DEF IdleConnectionsAreClosed, TypeOK, Accept
<1>7. CleanMeansAllDone'
  BY DEF CleanMeansAllDone, AllDone, TypeOK, Accept, main
<1> QED BY <1>1, <1>2, <1>3, <1>4, <1>5, <1>6, <1>7

\* The device_id is set once, before the registry or a user knows the session
\* (device.go:68-91).
LEMMA RegisterStep ==
    ASSUME HubInv, NEW c \in Conns, Register(c) PROVE HubInv'
<1> USE HubAssumption DEF HubInv, At, Alive, Goto
<1>1. TypeOK'
  BY DEF TypeOK, Steps, Register, main
<1>2. RegistryHasOwners'
  BY DEF RegistryHasOwners, TypeOK, Register
<1>3. OwnersKnowTheirDevice'
  BY DEF OwnersKnowTheirDevice, TypeOK, Register
<1>4. UsersHaveTheirDevice'
  BY DEF UsersHaveTheirDevice, TypeOK, Register
<1>5. OpenSessionIsReachable'
  BY DEF OpenSessionIsReachable, TypeOK, Register
<1>6. IdleConnectionsAreClosed'
  BY DEF IdleConnectionsAreClosed, TypeOK, Register
<1>7. CleanMeansAllDone'
  BY DEF CleanMeansAllDone, AllDone, TypeOK, Register, main
<1> QED BY <1>1, <1>2, <1>3, <1>4, <1>5, <1>6, <1>7

\* A connection that is refused, or gone before the ack, is closed and was never in
\* the registry.
LEMMA GiveUpStep ==
    ASSUME HubInv, NEW c \in Conns, Reject(c) \/ WriteAck(c) PROVE HubInv'
<1> USE HubAssumption DEF HubInv, At, Alive, Goto
<1>1. TypeOK'
  BY DEF TypeOK, Steps, Reject, WriteAck, main
<1>2. RegistryHasOwners'
  BY DEF RegistryHasOwners, TypeOK, Reject, WriteAck
<1>3. OwnersKnowTheirDevice'
  BY DEF OwnersKnowTheirDevice, TypeOK, Reject, WriteAck
<1>4. UsersHaveTheirDevice'
  BY DEF UsersHaveTheirDevice, TypeOK, Reject, WriteAck
<1>5. OpenSessionIsReachable'
  BY DEF OpenSessionIsReachable, TypeOK, Reject, WriteAck
<1>6. IdleConnectionsAreClosed'
  BY DEF IdleConnectionsAreClosed, TypeOK, Reject, WriteAck
<1>7. CleanMeansAllDone'
  BY DEF CleanMeansAllDone, AllDone, TypeOK, Reject, WriteAck, main
<1> QED BY <1>1, <1>2, <1>3, <1>4, <1>5, <1>6, <1>7

\* Put makes c the entry of its device and closes the session it replaces, the only
\* other one of that device that could be open (registry.go:84-91).
LEMMA PutStep ==
    ASSUME HubInv, NEW c \in Conns, Put(c) PROVE HubInv'
<1> USE HubAssumption DEF HubInv, At, Alive, Goto
<1>1. TypeOK'
  BY DEF TypeOK, Steps, Put, OwnersKnowTheirDevice, main
<1>2. RegistryHasOwners'
  BY DEF RegistryHasOwners, TypeOK, Put, OwnersKnowTheirDevice
<1>3. OwnersKnowTheirDevice'
  BY DEF OwnersKnowTheirDevice, TypeOK, Put
<1>4. UsersHaveTheirDevice'
  BY DEF UsersHaveTheirDevice, TypeOK, Put
<1>5. OpenSessionIsReachable'
  BY DEF OpenSessionIsReachable, TypeOK, Put, RegistryHasOwners,
         OwnersKnowTheirDevice
<1>6. IdleConnectionsAreClosed'
  BY DEF IdleConnectionsAreClosed, TypeOK, Put
<1>7. CleanMeansAllDone'
  BY DEF CleanMeansAllDone, AllDone, TypeOK, Put, main
<1> QED BY <1>1, <1>2, <1>3, <1>4, <1>5, <1>6, <1>7

\* Heartbeats, the watchdog and a lost connection touch no entry.
LEMMA ServingStep ==
    ASSUME HubInv, NEW c \in Conns, Beat(c) \/ Watchdog(c) \/ Disconnect(c) PROVE HubInv'
<1> USE HubAssumption DEF HubInv, At, Alive, Goto
<1>1. TypeOK'
  <2>1. CASE Beat(c)
    BY <2>1 DEF TypeOK, Beat, main
  <2>2. CASE Watchdog(c)
    BY <2>2 DEF TypeOK, Watchdog, main
  <2>3. CASE Disconnect(c)
    BY <2>3 DEF TypeOK, Disconnect, main
  <2> QED BY <2>1, <2>2, <2>3
<1>2. RegistryHasOwners'
  BY DEF RegistryHasOwners, TypeOK, Beat, Watchdog, Disconnect
<1>3. OwnersKnowTheirDevice'
  BY DEF OwnersKnowTheirDevice, TypeOK, Beat, Watchdog, Disconnect
<1>4. UsersHaveTheirDevice'
  BY DEF UsersHaveTheirDevice, TypeOK, Beat, Watchdog, Disconnect
<1>5. OpenSessionIsReachable'
  BY DEF OpenSessionIsReachable, TypeOK, Beat, Watchdog, Disconnect
<1>6. IdleConnectionsAreClosed'
  BY DEF IdleConnectionsAreClosed, TypeOK, Beat, Watchdog, Disconnect
<1>7. CleanMeansAllDone'
  BY DEF CleanMeansAllDone, AllDone, TypeOK, Beat, Watchdog, Disconnect, main
<1> QED BY <1>1, <1>2, <1>3, <1>4, <1>5, <1>6, <1>7

\* The read loop ends: the session keeps its entry until Remove.
LEMMA LoopExitStep ==
    ASSUME HubInv, NEW c \in Conns, LoopExit(c) PROVE HubInv'
<1> USE HubAssumption DEF HubInv, At, Alive, Goto
<1>1. TypeOK'
  BY DEF TypeOK, Steps, LoopExit, main
<1>2. RegistryHasOwners'
  BY DEF RegistryHasOwners, TypeOK, LoopExit
<1>3. OwnersKnowTheirDevice'
  BY DEF OwnersKnowTheirDevice, TypeOK, LoopExit
<1>4. UsersHaveTheirDevice'
  BY DEF UsersHaveTheirDevice, TypeOK, LoopExit
<1>5. OpenSessionIsReachable'
  BY DEF OpenSessionIsReachable, TypeOK, LoopExit
<1>6. IdleConnectionsAreClosed'
  BY DEF IdleConnectionsAreClosed, TypeOK, LoopExit
<1>7. CleanMeansAllDone'
  BY DEF CleanMeansAllDone, AllDone, TypeOK, LoopExit, main
<1> QED BY <1>1, <1>2, <1>3, <1>4, <1>5, <1>6, <1>7

\* Remove deletes the entry only if it is still c's: a session that replaced c keeps
\* its entry (registry.go:93-99).
LEMMA RemoveStep ==
    ASSUME HubInv, NEW c \in Conns, Remove(c) PROVE HubInv'
<1> USE HubAssumption DEF HubInv, At, Alive, Goto
<1>1. TypeOK'
  BY DEF TypeOK, Steps, Remove, OwnersKnowTheirDevice, main
<1>2. RegistryHasOwners'
  BY DEF RegistryHasOwners, TypeOK, Remove, OwnersKnowTheirDevice
<1>3. OwnersKnowTheirDevice'
  BY DEF OwnersKnowTheirDevice, TypeOK, Remove
<1>4. UsersHaveTheirDevice'
  BY DEF UsersHaveTheirDevice, TypeOK, Remove
<1>5. OpenSessionIsReachable'
  BY DEF OpenSessionIsReachable, TypeOK, Remove, RegistryHasOwners,
         OwnersKnowTheirDevice
<1>6. IdleConnectionsAreClosed'
  BY DEF IdleConnectionsAreClosed, TypeOK, Remove
<1>7. CleanMeansAllDone'
  BY DEF CleanMeansAllDone, AllDone, TypeOK, Remove, main
<1> QED BY <1>1, <1>2, <1>3, <1>4, <1>5, <1>6, <1>7

\* The last deferred calls close the connection; its entry is gone by then.
LEMMA CloseSessionStep ==
    ASSUME HubInv, NEW c \in Conns, CloseSession(c) PROVE HubInv'
<1> USE HubAssumption DEF HubInv, At, Alive, Goto
<1>1. TypeOK'
  BY DEF TypeOK, Steps, CloseSession, main
<1>2. RegistryHasOwners'
  BY DEF RegistryHasOwners, TypeOK, CloseSession
<1>3. OwnersKnowTheirDevice'
  BY DEF OwnersKnowTheirDevice, TypeOK, CloseSession
<1>4. UsersHaveTheirDevice'
  BY DEF UsersHaveTheirDevice, TypeOK, CloseSession
<1>5. OpenSessionIsReachable'
  BY DEF OpenSessionIsReachable, TypeOK, CloseSession
<1>6. IdleConnectionsAreClosed'
  BY DEF IdleConnectionsAreClosed, TypeOK, CloseSession
<1>7. CleanMeansAllDone'
  BY DEF CleanMeansAllDone, AllDone, TypeOK, CloseSession, main
<1> QED BY <1>1, <1>2, <1>3, <1>4, <1>5, <1>6, <1>7

\* What the invariant says of the connections, which no step of a user changes.
LEMMA ConnectionsUntouched ==
    ASSUME HubInv, UNCHANGED <<now, reg, conn, main>>,
           user' \in [Users -> [step : UserSteps, want : Devices \cup {NoDevice},
                                sess : Conns \cup {NoSession}]],
           UsersHaveTheirDevice'
    PROVE  HubInv'
<1> USE DEF HubInv, conn, main
<1>1. TypeOK'
  BY DEF TypeOK
<1>2. /\ RegistryHasOwners' /\ OwnersKnowTheirDevice' /\ OpenSessionIsReachable'
      /\ IdleConnectionsAreClosed' /\ CleanMeansAllDone'
  BY DEF RegistryHasOwners, OwnersKnowTheirDevice, OpenSessionIsReachable,
         IdleConnectionsAreClosed, CleanMeansAllDone, AllDone
<1> QED BY <1>1, <1>2

\* A user gets the device it named, or the only one there is; then the session the
\* registry has for it, which that device registered; the lookups of a user change
\* nothing else (registry.go:61-82, 125-158).
LEMMA UserStep ==
    ASSUME HubInv, NEW u \in Users,
           \/ AcceptUser(u) \/ Resolve(u) \/ TrySession(u) \/ OpenStream(u) \/ UserEnds(u)
    PROVE  HubInv'
<1> USE HubAssumption DEF HubInv, AtUser, Alive
<1> DEFINE UserRecord == [step : UserSteps, want : Devices \cup {NoDevice},
                          sess : Conns \cup {NoSession}]
           HasDevice(r) ==
              /\ r.step \in {"wait", "open", "relay"} => r.want \in Devices
              /\ r.step \in {"open", "relay"} =>
                    /\ r.sess \in Conns
                    /\ dev[r.sess] = r.want
                    /\ pc[r.sess] \in {"serving", "remove", "close", "done"}
<1>1. UNCHANGED <<now, reg, conn, main>>
  BY DEF AcceptUser, Resolve, TrySession, OpenStream, UserEnds
<1>2. user[u] \in UserRecord /\ HasDevice(user[u])
  BY DEF TypeOK, UsersHaveTheirDevice
<1>3. Idle("done") \in UserRecord /\ HasDevice(Idle("done"))
  BY DEF Idle, UserSteps
<1>4. \E r \in UserRecord : user' = [user EXCEPT ![u] = r] /\ HasDevice(r)
  <2>1. CASE AcceptUser(u)
    <3> DEFINE r == [user[u] EXCEPT !.step = "resolve"]
    <3>1. user' = [user EXCEPT ![u] = r]
      BY <2>1 DEF AcceptUser
    <3>2. r \in UserRecord /\ HasDevice(r)
      BY <1>2 DEF UserSteps
    <3> QED BY <3>1, <3>2
  <2>2. CASE Resolve(u)
    <3>1. PICK name \in Devices \cup {NoDevice} :
            \/ \E d \in ResolveDeviceForDial(name) :
                 user' = [user EXCEPT ![u].step = "wait", ![u].want = d]
            \/ user' = [user EXCEPT ![u] = Idle("done")]
      BY <2>2 DEF Resolve
    <3>2. ResolveDeviceForDial(name) \subseteq Devices
      BY DEF ResolveDeviceForDial
    <3>3. ASSUME NEW d \in Devices,
                 user' = [user EXCEPT ![u].step = "wait", ![u].want = d]
          PROVE  \E r \in UserRecord : user' = [user EXCEPT ![u] = r] /\ HasDevice(r)
      <4> DEFINE r == [user[u] EXCEPT !.step = "wait", !.want = d]
      <4>1. user' = [user EXCEPT ![u] = r]
        BY <3>3 DEF TypeOK
      <4>2. r \in UserRecord /\ HasDevice(r)
        BY <1>2 DEF UserSteps
      <4> QED BY <4>1, <4>2
    <3> QED BY <1>3, <3>1, <3>2, <3>3
  <2>3. CASE TrySession(u)
    <3> DEFINE s == reg[user[u].want]
               r == [user[u] EXCEPT !.step = "open", !.sess = s]
    <3>1. user' = [user EXCEPT ![u] = r] /\ s # NoSession /\ user[u].want \in Devices
      BY <1>2, <2>3 DEF TrySession, TypeOK
    <3>2. s \in Conns /\ dev[s] = user[u].want /\ pc[s] \in {"serving", "remove"}
      BY <3>1 DEF TypeOK, RegistryHasOwners
    <3> HIDE DEF s
    <3>3. r \in UserRecord /\ HasDevice(r)
      BY <1>2, <3>1, <3>2 DEF UserSteps
    <3> QED BY <3>1, <3>3
  <2>4. CASE OpenStream(u)
    <3> DEFINE r == [user[u] EXCEPT !.step = "relay"]
    <3>1. user' = [user EXCEPT ![u] = IF up[user[u].sess] THEN r ELSE Idle("done")]
      BY <2>4 DEF OpenStream
    <3>2. r \in UserRecord /\ HasDevice(r)
      BY <1>2, <2>4 DEF OpenStream, UserSteps
    <3> QED BY <1>3, <3>1, <3>2
  <2>5. CASE UserEnds(u)
    BY <1>3, <2>5 DEF UserEnds
  <2> QED BY <2>1, <2>2, <2>3, <2>4, <2>5
<1>5. user' \in [Users -> UserRecord]
  BY <1>4 DEF TypeOK
<1>6. UsersHaveTheirDevice'
  <2>1. \A v \in Users : HasDevice(user'[v])
    BY <1>4 DEF TypeOK, UsersHaveTheirDevice
  <2> QED BY <1>1, <2>1 DEF UsersHaveTheirDevice, conn
<1> QED BY <1>1, <1>5, <1>6, ConnectionsUntouched

\* main: the clock, the listeners and the shutdown.  CloseAll closes sessions and
\* leaves the entries to their goroutines (registry.go:108-123).
LEMMA MainStep ==
    ASSUME HubInv, Tick \/ AcceptError \/ CloseListeners \/ Shutdown
    PROVE  HubInv'
<1> USE HubAssumption DEF HubInv, Alive, conn
<1>1. ASSUME NEW c \in Conns, CloseAllClose(c) PROVE HubInv'
  <2>1. TypeOK'
    BY <1>1 DEF TypeOK, CloseAllClose
  <2>2. /\ RegistryHasOwners' /\ OwnersKnowTheirDevice' /\ UsersHaveTheirDevice'
    BY <1>1 DEF RegistryHasOwners, OwnersKnowTheirDevice, UsersHaveTheirDevice,
                CloseAllClose
  <2>3. OpenSessionIsReachable' /\ IdleConnectionsAreClosed'
    BY <1>1 DEF TypeOK, OpenSessionIsReachable, IdleConnectionsAreClosed, CloseAllClose
  <2>4. CleanMeansAllDone'
    BY <1>1 DEF CleanMeansAllDone, CloseAllClose
  <2> QED BY <2>1, <2>2, <2>3, <2>4
<1>2. CASE \/ Tick \/ AcceptError \/ CloseListeners \/ CloseAllSnapshot
           \/ CloseAllDone \/ CleanShutdown \/ ShutdownTimeout
  <2>1. UNCHANGED <<reg, conn, user>>
    BY <1>2 DEF Tick, AcceptError, CloseListeners, CloseAllSnapshot, CloseAllDone,
                CleanShutdown, ShutdownTimeout
  <2>2. now' \in 0..MaxTime /\ phase' \in Phases
    BY <1>2 DEF TypeOK, Tick, AcceptError, CloseListeners, CloseAllSnapshot,
                CloseAllDone, CleanShutdown, ShutdownTimeout, Phases, main
  <2>2a. listening' \in BOOLEAN
    <3>1. UNCHANGED listening \/ listening' = FALSE
      BY <1>2 DEF Tick, AcceptError, CloseListeners, CloseAllSnapshot, CloseAllDone,
                  CleanShutdown, ShutdownTimeout, main
    <3> QED BY <3>1 DEF TypeOK
  <2>3. toClose' \subseteq Conns
    BY <1>2 DEF TypeOK, Tick, AcceptError, CloseListeners, CloseAllSnapshot,
                CloseAllDone, CleanShutdown, ShutdownTimeout, Registered, main
  <2>4. TypeOK'
    BY <2>1, <2>2, <2>2a, <2>3 DEF TypeOK
  <2>5. /\ RegistryHasOwners' /\ OwnersKnowTheirDevice' /\ UsersHaveTheirDevice'
        /\ OpenSessionIsReachable' /\ IdleConnectionsAreClosed'
    BY <2>1 DEF RegistryHasOwners, OwnersKnowTheirDevice, UsersHaveTheirDevice,
                OpenSessionIsReachable, IdleConnectionsAreClosed
  <2>6. CleanMeansAllDone'
    BY <1>2 DEF CleanMeansAllDone, AllDone, Tick, AcceptError, CloseListeners,
                CloseAllSnapshot, CloseAllDone, CleanShutdown, ShutdownTimeout, main
  <2> QED BY <2>4, <2>5, <2>6
<1> QED BY <1>1, <1>2 DEF Shutdown

\* Every step preserves the invariant.
LEMMA NextPreservesHubInv == HubInv /\ [Next]_vars => HubInv'
<1> SUFFICES ASSUME HubInv, [Next]_vars PROVE HubInv'
  OBVIOUS
<1>1. CASE UNCHANGED vars
  <2>1. TypeOK'
    BY <1>1 DEF vars, conn, main, HubInv, TypeOK
  <2>2. UsersHaveTheirDevice' /\ UNCHANGED <<now, reg, conn, main>>
    BY <1>1 DEF vars, conn, main, HubInv, UsersHaveTheirDevice
  <2> QED BY <2>1, <2>2, ConnectionsUntouched DEF TypeOK
<1>2. ASSUME NEW c \in Conns,
             \/ Accept(c) \/ Register(c) \/ Reject(c) \/ WriteAck(c)
             \/ Put(c) \/ Beat(c) \/ Watchdog(c) \/ LoopExit(c)
             \/ Remove(c) \/ CloseSession(c) \/ Disconnect(c)
      PROVE  HubInv'
  BY <1>2, AcceptStep, RegisterStep, GiveUpStep, PutStep, ServingStep, LoopExitStep,
     RemoveStep, CloseSessionStep
<1> QED BY <1>1, <1>2, UserStep, MainStep DEF Next

\* The invariant holds throughout.
THEOREM HubInvHolds == Spec => []HubInv
BY InitEstablishesHubInv, NextPreservesHubInv, PTL DEF Spec

\* The registry and CloseAll hold sessions of known connections, for any number of
\* connections, devices and users.
THEOREM HubTypeCorrect == Spec => []TypeOK
<1>1. HubInv => TypeOK
  BY DEF HubInv
<1> QED BY <1>1, HubInvHolds, PTL

\* Every entry belongs to a goroutine that will remove it, and a SOCKS5 user is
\* relayed through the device it asked for (registry.go:84-99, 125-158).
THEOREM EntriesAlwaysHaveAnOwner == Spec => []EntriesHaveAnOwner
<1>1. HubInv => EntriesHaveAnOwner
  BY DEF HubInv, EntriesHaveAnOwner, RegistryHasOwners, UsersHaveTheirDevice
<1> QED BY <1>1, HubInvHolds, PTL

\* A served, open session is the one the registry hands out: a reconnect and the late
\* Remove of the session it replaced never hide it (registry.go:84-99).
THEOREM OpenSessionsStayReachable == Spec => []OpenSessionIsReachable
<1>1. HubInv => OpenSessionIsReachable
  BY DEF HubInv
<1> QED BY <1>1, HubInvHolds, PTL

\* A clean shutdown leaves no session and no entry behind (main.go:254-275): main has
\* waited for every goroutine, and a goroutine that has returned has removed its entry
\* and closed its connection.
THEOREM CleanShutdownIsClean == Spec => []CleanShutdownLeavesNoSession
<1>1. HubInv => CleanShutdownLeavesNoSession
  BY HubAssumption DEF HubInv, CleanShutdownLeavesNoSession, CleanMeansAllDone, AllDone,
         IdleConnectionsAreClosed, RegistryHasOwners, TypeOK
<1> QED BY <1>1, HubInvHolds, PTL
=============================================================================

------------------------------ MODULE DeviceHub ------------------------------
(***************************************************************************)
(* server/hub: the Registry and ServeDevice, one goroutine per device      *)
(* connection with its heartbeat watchdog, the SOCKS5 connections that     *)
(* dial by device_id through the registry, and the graceful shutdown of    *)
(* server/main.go.  A session is named after its connection.  A closed     *)
(* connection, for whatever reason, makes the next read or write on it     *)
(* fail.  Of a dial only its use of the registry is here; Tunnel has the   *)
(* rest of it.                                                             *)
(***************************************************************************)
EXTENDS Integers, FiniteSets

CONSTANTS
    Conns,              \* device connections, each a new TCP connection
    Devices,            \* device_ids
    Users,              \* SOCKS5 connections
    HeartbeatTimeout,   \* session_heartbeat_timeout; 0 = no watchdog
    MaxTime,            \* bound on the clock
    NoSession,          \* no entry in the registry
    NoDevice            \* not registered yet; no SOCKS5 username

ASSUME HubAssumption ==
    /\ HeartbeatTimeout \in Nat
    /\ MaxTime \in Nat
    /\ NoSession \notin Conns
    /\ NoDevice \notin Devices

VARIABLES
    now,        \* the clock
    reg,        \* Registry.sessions
    pc,         \* where the ServeDevice of each connection is
    dev,        \* the device_id it registered
    up,         \* the connection and its yamux session are open
    lastBeat,   \* when its last heartbeat arrived
    watch,      \* its watchdog goroutine is running
    user,       \* each SOCKS5 connection: its step, device and session
    listening,  \* the device accept loop is running
    phase,      \* of main: running, then the steps of the shutdown
    toClose     \* what CloseAll has still to close

conn == <<pc, dev, up, lastBeat, watch>>
main == <<listening, phase, toClose>>
vars == <<now, reg, conn, user, main>>

Steps == {"none", "accept", "ack", "put", "serving", "remove", "close", "done"}

UserSteps == {"none", "resolve", "wait", "open", "relay", "done"}

Phases == {"running", "stopping", "closing", "waiting", "clean", "timedout"}

\* main has returned: nothing runs any more.
Alive == phase \notin {"clean", "timedout"}

\* A SOCKS5 connection that is not dialling.
Idle(step) == [step |-> step, want |-> NoDevice, sess |-> NoSession]

Init ==
    /\ now = 0
    /\ reg = [d \in Devices |-> NoSession]
    /\ pc = [c \in Conns |-> "none"]
    /\ dev = [c \in Conns |-> NoDevice]
    /\ up = [c \in Conns |-> FALSE]
    /\ lastBeat = [c \in Conns |-> 0]
    /\ watch = [c \in Conns |-> FALSE]
    /\ user = [u \in Users |-> Idle("none")]
    /\ listening = TRUE
    /\ phase = "running"
    /\ toClose = {}

-----------------------------------------------------------------------------
(* ServeDevice *)

At(c, step) == Alive /\ pc[c] = step

Goto(c, step) == pc' = [pc EXCEPT ![c] = step]

\* The accept loop hands the connection to a new goroutine, which starts
\* yamux on it and waits for the control stream.  There is no deadline.
Accept(c) ==
    /\ At(c, "none")
    /\ listening /\ phase = "running"
    /\ Goto(c, "accept")
    /\ up' = [up EXCEPT ![c] = TRUE]
    /\ UNCHANGED <<now, reg, dev, lastBeat, watch, user, main>>

\* The first line of the control stream is a register with a device_id.
Register(c) ==
    /\ At(c, "accept") /\ up[c]
    /\ \E d \in Devices : dev' = [dev EXCEPT ![c] = d]
    /\ Goto(c, "ack")
    /\ UNCHANGED <<now, reg, up, lastBeat, watch, user, main>>

\* It is something else, or the connection broke: the goroutine gives up and
\* its deferred calls close the session.
Reject(c) ==
    /\ At(c, "accept")
    /\ Goto(c, "done")
    /\ up' = [up EXCEPT ![c] = FALSE]
    /\ UNCHANGED <<now, reg, dev, lastBeat, watch, user, main>>

\* register_ack goes out before the session is in the registry.
WriteAck(c) ==
    /\ At(c, "ack")
    /\ Goto(c, IF up[c] THEN "put" ELSE "done")
    /\ UNCHANGED <<now, reg, dev, up, lastBeat, watch, user, main>>

\* Registry.Put closes the session it replaces; then the watchdog starts.
Put(c) ==
    /\ At(c, "put")
    /\ reg' = [reg EXCEPT ![dev[c]] = c]
    /\ up' = [x \in Conns |-> up[x] /\ x # reg[dev[c]]]
    /\ lastBeat' = [lastBeat EXCEPT ![c] = now]
    /\ watch' = [watch EXCEPT ![c] = HeartbeatTimeout > 0]
    /\ Goto(c, "serving")
    /\ UNCHANGED <<now, dev, user, main>>

\* The read loop takes a heartbeat; a line already buffered is still read
\* after the connection has gone.
Beat(c) ==
    /\ At(c, "serving")
    /\ lastBeat' = [lastBeat EXCEPT ![c] = now]
    /\ UNCHANGED <<now, reg, pc, dev, up, watch, user, main>>

Silent(c) == now - lastBeat[c] > HeartbeatTimeout

\* Mutant of Watchdog: the goroutine is cancelled but the connection stays.
Watchdog_OnlyCancels(c) ==
    /\ Alive /\ watch[c] /\ Silent(c)
    /\ watch' = [watch EXCEPT ![c] = FALSE]
    /\ UNCHANGED <<now, reg, pc, dev, up, lastBeat, user, main>>

\* The watchdog closes the raw connection and ends.
Watchdog(c) ==
    /\ Alive /\ watch[c] /\ Silent(c)
    /\ up' = [up EXCEPT ![c] = FALSE]
    /\ watch' = [watch EXCEPT ![c] = FALSE]
    /\ UNCHANGED <<now, reg, pc, dev, lastBeat, user, main>>

\* Mutant of LoopExit: a read error is logged and the loop goes on.
LoopExit_Continues(c) ==
    /\ At(c, "serving") /\ ~up[c]
    /\ UNCHANGED vars

\* A read fails, because the connection is gone, the device closed the control
\* stream or the line is not JSON: the function returns, and the first deferred
\* call, cancel, ends the watchdog, which takes lastBeat with it.
LoopExit(c) ==
    /\ At(c, "serving")
    /\ Goto(c, "remove")
    /\ watch' = [watch EXCEPT ![c] = FALSE]
    /\ lastBeat' = [lastBeat EXCEPT ![c] = 0]
    /\ UNCHANGED <<now, reg, dev, up, user, main>>

\* Mutant of Remove: it deletes the device's entry whoever it belongs to.
Remove_Any(c) ==
    /\ At(c, "remove")
    /\ reg' = [reg EXCEPT ![dev[c]] = NoSession]
    /\ Goto(c, "close")
    /\ UNCHANGED <<now, dev, up, lastBeat, watch, user, main>>

\* Mutant of Remove: the deferred call is missing.
Remove_Nothing(c) ==
    /\ At(c, "remove")
    /\ Goto(c, "close")
    /\ UNCHANGED <<now, reg, dev, up, lastBeat, watch, user, main>>

\* Registry.Remove deletes the entry only if it is still this session.
Remove(c) ==
    /\ At(c, "remove")
    /\ reg' = [reg EXCEPT ![dev[c]] = IF @ = c THEN NoSession ELSE @]
    /\ Goto(c, "close")
    /\ UNCHANGED <<now, dev, up, lastBeat, watch, user, main>>

\* The last deferred calls close the session and the connection.
CloseSession(c) ==
    /\ At(c, "close")
    /\ Goto(c, "done")
    /\ up' = [up EXCEPT ![c] = FALSE]
    /\ UNCHANGED <<now, reg, dev, lastBeat, watch, user, main>>

\* The device closes the connection, or the network does.
Disconnect(c) ==
    /\ Alive /\ up[c]
    /\ up' = [up EXCEPT ![c] = FALSE]
    /\ UNCHANGED <<now, reg, pc, dev, lastBeat, watch, user, main>>

-----------------------------------------------------------------------------
(* A SOCKS5 connection *)

AtUser(u, step) == Alive /\ user[u].step = step

\* Accepted while the SOCKS5 listener is open, and handed to a goroutine of its
\* own, which negotiates.
AcceptUser(u) ==
    /\ AtUser(u, "none") /\ phase = "running"
    /\ user' = [user EXCEPT ![u].step = "resolve"]
    /\ UNCHANGED <<now, reg, conn, main>>

\* What ResolveDeviceForDial makes of a username: the device it names, or,
\* without one, the only device there is.
ResolveDeviceForDial(name) ==
    IF name # NoDevice THEN {name}
    ELSE LET online == {d \in Devices : reg[d] # NoSession}
         IN  IF Cardinality(online) = 1 THEN online ELSE {}

Resolve(u) ==
    /\ AtUser(u, "resolve")
    /\ \E name \in Devices \cup {NoDevice} :
           \/ \E d \in ResolveDeviceForDial(name) :
                  user' = [user EXCEPT ![u].step = "wait", ![u].want = d]
           \/ /\ ResolveDeviceForDial(name) = {}
              /\ user' = [user EXCEPT ![u] = Idle("done")]
    /\ UNCHANGED <<now, reg, conn, main>>

\* WaitSession finds the device's session, whatever state that is in.
TrySession(u) ==
    /\ AtUser(u, "wait") /\ reg[user[u].want] # NoSession
    /\ user' = [user EXCEPT ![u].step = "open", ![u].sess = reg[user[u].want]]
    /\ UNCHANGED <<now, reg, conn, main>>

\* OpenStream fails on a session that was closed since.
OpenStream(u) ==
    /\ AtUser(u, "open")
    /\ user' = [user EXCEPT ![u] = IF up[@.sess] THEN [@ EXCEPT !.step = "relay"] ELSE Idle("done")]
    /\ UNCHANGED <<now, reg, conn, main>>

\* The connection ends: its client is gone, the wait has timed out, the target
\* has closed or the session is lost.
UserEnds(u) ==
    /\ AtUser(u, "resolve") \/ AtUser(u, "wait") \/ AtUser(u, "relay")
    /\ user' = [user EXCEPT ![u] = Idle("done")]
    /\ UNCHANGED <<now, reg, conn, main>>

-----------------------------------------------------------------------------
(* main *)

Tick ==
    /\ Alive /\ now < MaxTime
    /\ now' = now + 1
    /\ UNCHANGED <<reg, conn, user, main>>

\* The accept loop ends for good at the first error of Accept.
AcceptError ==
    /\ Alive /\ listening /\ phase = "running"
    /\ listening' = FALSE
    /\ UNCHANGED <<now, reg, conn, user, phase, toClose>>

\* A signal: both listeners are closed, which ends the accept loops.
CloseListeners ==
    /\ phase = "running"
    /\ phase' = "stopping"
    /\ listening' = FALSE
    /\ UNCHANGED <<now, reg, conn, user, toClose>>

\* Mutant of Registered: an empty entry counts as a session.
Registered_Nil == {reg[d] : d \in Devices}

Registered == {reg[d] : d \in Devices} \ {NoSession}

\* CloseAll copies the sessions under the lock and closes them after it.
CloseAllSnapshot ==
    /\ phase = "stopping"
    /\ phase' = "closing"
    /\ toClose' = Registered
    /\ UNCHANGED <<now, reg, conn, user, listening>>

CloseAllClose(c) ==
    /\ phase = "closing" /\ c \in toClose
    /\ toClose' = toClose \ {c}
    /\ up' = [up EXCEPT ![c] = FALSE]
    /\ UNCHANGED <<now, reg, pc, dev, lastBeat, watch, user, listening, phase>>

CloseAllDone ==
    /\ phase = "closing" /\ toClose = {}
    /\ phase' = "waiting"
    /\ UNCHANGED <<now, reg, conn, user, listening, toClose>>

\* Mutant of AllDone: connections that are still registering are not counted.
AllDone_Registered == ~listening /\ \A c \in Conns : pc[c] # "serving"

\* What main waits for: the accept loops and every ServeDevice, and nothing
\* that serves a SOCKS5 connection.
AllDone == ~listening /\ \A c \in Conns : pc[c] \in {"none", "done"}

CleanShutdown ==
    /\ phase = "waiting" /\ AllDone
    /\ phase' = "clean"
    /\ UNCHANGED <<now, reg, conn, user, listening, toClose>>

ShutdownTimeout ==
    /\ phase = "waiting"
    /\ phase' = "timedout"
    /\ UNCHANGED <<now, reg, conn, user, listening, toClose>>

\* What the goroutine of c does by itself, once the network has answered.
Serve(c) ==
    \/ WriteAck(c) \/ Put(c) \/ Remove(c) \/ CloseSession(c)
    \/ ~up[c] /\ (Reject(c) \/ LoopExit(c))

Shutdown ==
    \/ CloseAllSnapshot \/ CloseAllDone \/ CleanShutdown \/ ShutdownTimeout
    \/ \E c \in Conns : CloseAllClose(c)

Next ==
    \/ \E c \in Conns : \/ Accept(c) \/ Register(c) \/ Reject(c) \/ WriteAck(c)
                        \/ Put(c) \/ Beat(c) \/ Watchdog(c) \/ LoopExit(c)
                        \/ Remove(c) \/ CloseSession(c) \/ Disconnect(c)
    \/ \E u \in Users : \/ AcceptUser(u) \/ Resolve(u) \/ TrySession(u)
                        \/ OpenStream(u) \/ UserEnds(u)
    \/ Tick \/ AcceptError \/ CloseListeners \/ Shutdown

Spec == Init /\ [][Next]_vars

\* Goroutines and the watchdog's ticker run, and so does the shutdown once it
\* has begun.  Nothing is assumed of devices or of the network.
FairSpec ==
    /\ Spec
    /\ \A c \in Conns : WF_vars(Serve(c)) /\ WF_vars(Watchdog(c))
    /\ WF_vars(Shutdown)

-----------------------------------------------------------------------------
(* Properties *)

\* The type invariant: the registry and CloseAll hold sessions of known
\* connections (registry.go).
TypeOK ==
    /\ now \in 0..MaxTime
    /\ reg \in [Devices -> Conns \cup {NoSession}]
    /\ pc \in [Conns -> Steps]
    /\ dev \in [Conns -> Devices \cup {NoDevice}]
    /\ up \in [Conns -> BOOLEAN]
    /\ lastBeat \in [Conns -> 0..MaxTime]
    /\ watch \in [Conns -> BOOLEAN]
    /\ user \in [Users -> [step : UserSteps, want : Devices \cup {NoDevice},
                           sess : Conns \cup {NoSession}]]
    /\ listening \in BOOLEAN
    /\ phase \in Phases
    /\ toClose \subseteq Conns

\* "each ServeDevice goroutine is responsible for calling Remove"
\* (registry.go:108-111): every entry belongs to a goroutine that registered
\* that device and has its Remove still to come.  So a SOCKS5 user is relayed
\* through the device that was asked for, also when sessions are replaced and
\* removed between the lookup and the stream.
EntriesHaveAnOwner ==
    /\ \A d \in Devices : reg[d] # NoSession =>
           dev[reg[d]] = d /\ pc[reg[d]] \in {"serving", "remove"}
    /\ \A u \in Users : user[u].step = "relay" => dev[user[u].sess] = user[u].want

\* A session that is served and open is the one the registry hands out, so a
\* device has at most one, and the late Remove of a replaced session or a
\* reconnect racing with it never hides the live one.
OpenSessionIsReachable ==
    \A c \in Conns : pc[c] = "serving" /\ up[c] => reg[dev[c]] = c

\* A clean shutdown leaves no device session behind, and so no relay that could go
\* on ("Tear down active device sessions; in-flight SOCKS streams unblock",
\* main.go:254-255), whichever connections were still registering, replacing each
\* other or being dialled through when the signal came.
CleanShutdownLeavesNoSession ==
    phase = "clean" => /\ \A d \in Devices : reg[d] = NoSession
                       /\ \A c \in Conns : ~up[c]

\* A dead session does not stay in the registry, where it would count as
\* online and be picked: its goroutine notices and removes it.
DeadSessionsLeave ==
    \A c \in Conns, d \in Devices :
        reg[d] = c /\ ~up[c] ~> reg[d] # c \/ ~Alive

\* A device whose heartbeats stop for longer than session_heartbeat_timeout is
\* dropped, unless it is heard of again (README.md:65).
SilentDeviceIsDropped ==
    \A c \in Conns :
        pc[c] = "serving" /\ Silent(c) ~> pc[c] # "serving" \/ ~Silent(c) \/ ~Alive
=============================================================================

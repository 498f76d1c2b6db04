---------------------------- MODULE ClientProofs ----------------------------
(***************************************************************************)
(* Proofs about the device client, for any number of overlapping heartbeat *)
(* goroutines and any configured delays.                                   *)
(***************************************************************************)
EXTENDS DeviceClient, FiniteSetTheorems, TLAPS

\* runSession works on a session that was dialled.
SessionIsDialled == pc \in {"register", "accept"} => cur \in Slots

\* From the ack to the end of the session the backoff stands at its start.
BackoffIsReset == pc = "accept" => failures = 0

\* The inductive invariant.
ClientInv ==
    /\ TypeOK
    /\ SessionIsDialled
    /\ NoSessionLeak
    /\ BackoffIsReset

\* The delays newReconnectBackoff works with are positive, whatever the
\* configuration says (backoff.go:16-24).
LEMMA DelaysArePositive ==
    Initial \in Nat \ {0} /\ MaxDelay \in Nat \ {0}
BY ClientAssumption DEF Initial, MaxDelay

\* reconnectBackoff.Next gives a positive delay that is at most the maximum, and
\* at most the initial one if there was no failure since the reset
\* (backoff.go:30-50).
LEMMA NextDelayIsBounded ==
    ASSUME TypeOK, NextDelay
    PROVE  /\ delay' \in 1..MaxDelay
           /\ failures' \in 0..MaxFailures
           /\ failures = 0 => delay' <= AtMost(MaxDelay, Initial)
<1> DEFINE power == 2^failures
           base == AtMost(MaxDelay, Initial * power)
<1>1. power \in Int /\ (failures = 0 => power = 1)
  <2>1. failures \in Nat
    BY ClientAssumption DEF TypeOK
  <2>2. 2^failures \in Int
    BY <2>1
  <2>3. 2^0 = 1
    OBVIOUS
  <2> QED BY <2>2, <2>3
<1>2. PICK d \in (base \div 2)..base : delay' = IF d < 1 THEN 1 ELSE d
  BY DEF NextDelay
<1>3. failures' \in 0..MaxFailures
  BY ClientAssumption DEF NextDelay, AtMost, TypeOK
<1> HIDE DEF power
<1>4. Initial * power \in Int /\ (failures = 0 => Initial * power = Initial)
  BY <1>1, DelaysArePositive
<1> DEFINE product == Initial * power
<1>5. base = AtMost(MaxDelay, product)
  OBVIOUS
<1> HIDE DEF product
<1>6. product \in Int /\ (failures = 0 => product = Initial)
  BY <1>4 DEF product
<1>7. base \in Int /\ base <= MaxDelay /\ (failures = 0 => base = AtMost(MaxDelay, Initial))
  BY <1>5, <1>6, DelaysArePositive DEF AtMost
<1> HIDE DEF base
<1>8. d \in Int /\ d <= base
  BY <1>2, <1>7
<1>9. delay' \in 1..MaxDelay
  BY <1>2, <1>7, <1>8, DelaysArePositive
<1>10. failures = 0 => delay' <= AtMost(MaxDelay, Initial)
  <2>1. AtMost(MaxDelay, Initial) \in Nat \ {0}
    BY DelaysArePositive DEF AtMost
  <2> QED BY <1>2, <1>7, <1>8, <2>1
<1> QED BY <1>3, <1>9, <1>10

\* runLoop leaves a session, or an attempt, for the exit or for a backoff.
LEMMA EndedGoesOn ==
    ASSUME TypeOK, NEW b, Ended(b)
    PROVE  /\ pc' \in {"exited", "backoff"}
           /\ failures' \in 0..MaxFailures /\ delay' \in 0..MaxDelay
<1>1. CASE Exit
  BY <1>1 DEF Exit, TypeOK
<1>2. CASE pc' = "backoff" /\ NextDelay
  BY <1>2, NextDelayIsBounded
<1> QED BY <1>1, <1>2 DEF Ended

\* The initial state satisfies the invariant.
LEMMA InitEstablishesClientInv == Init => ClientInv
<1> SUFFICES ASSUME Init PROVE ClientInv
  OBVIOUS
<1>1. 0 \in 0..MaxFailures /\ 0 \in 0..MaxDelay /\ 0 \in 0..Window
  BY ClientAssumption, DelaysArePositive
<1>2. TypeOK
  BY <1>1 DEF Init, TypeOK
<1>3. SessionIsDialled /\ NoSessionLeak /\ BackoffIsReset
  BY DEF Init, SessionIsDialled, NoSessionLeak, BackoffIsReset
<1> QED BY <1>2, <1>3 DEF ClientInv

\* runLoop and runSession: a session is opened only by the dial, where none is open,
\* and every way out of it runs the deferred Close (run.go).
LEMMA RunLoopStep == ASSUME ClientInv, RunLoop PROVE ClientInv'
<1> USE DEF ClientInv, sess
<1>1. CASE Top
  BY <1>1 DEF Top, Exit, TypeOK, SessionIsDialled, NoSessionLeak, BackoffIsReset
<1>2. CASE BackoffEnds
  BY <1>2 DEF BackoffEnds, TypeOK, SessionIsDialled, NoSessionLeak, BackoffIsReset
<1>3. CASE DialServer
  BY <1>3 DEF DialServer, TypeOK, SessionIsDialled, NoSessionLeak, BackoffIsReset
<1>4. CASE DialFails
  <2>1. /\ pc' \in {"exited", "backoff"}
        /\ failures' \in 0..MaxFailures /\ delay' \in 0..MaxDelay
    BY <1>4, EndedGoesOn DEF DialFails
  <2> QED BY <1>4, <2>1 DEF DialFails, TypeOK, SessionIsDialled, NoSessionLeak, BackoffIsReset
<1>5. CASE RegisterOK
  <2>1. 0 \in 0..MaxFailures
    BY ClientAssumption
  <2> QED BY <1>5, <2>1 DEF RegisterOK, TypeOK, SessionIsDialled, NoSessionLeak, BackoffIsReset
<1>6. CASE RegisterFails \/ AcceptFails
  <2>1. /\ pc' \in {"exited", "backoff"} /\ pc \in {"register", "accept"}
        /\ failures' \in 0..MaxFailures /\ delay' \in 0..MaxDelay
    BY <1>6, EndedGoesOn DEF RegisterFails, AcceptFails
  <2>2. Defers /\ UNCHANGED <<ctxDone, cur, hb, stats>>
    BY <1>6 DEF RegisterFails, AcceptFails
  <2> QED BY <2>1, <2>2 DEF Defers, TypeOK, SessionIsDialled, NoSessionLeak, BackoffIsReset
<1> QED BY <1>1, <1>2, <1>3, <1>4, <1>5, <1>6 DEF RunLoop

\* The counters of HeartbeatStats stay counters, and the samples within the window
\* (heartbeat.go).
LEMMA StatsStayCounters ==
    ASSUME TypeOK, NEW s \in Slots,
           HbTick(s) \/ HbSent(s) \/ HbWrite(s) \/ HbAck(s) \/ HbAckFails(s)
    PROVE  stats' \in [samples : 0..Window, sent : Nat, lost : Nat]
<1> USE ClientAssumption DEF TypeOK
<1>1. CASE UNCHANGED stats
  BY <1>1
<1>2. CASE AckLost
  BY <1>2 DEF AckLost
<1>3. CASE SnapshotForSend
  BY <1>3 DEF SnapshotForSend
<1>4. CASE stats' = [stats EXCEPT !.sent = @ + 1]
  BY <1>4
<1>5. CASE stats' = [stats EXCEPT !.samples = AtMost(Window, @ + 1)]
  BY <1>5 DEF AtMost
<1> QED BY <1>1, <1>2, <1>3, <1>4, <1>5 DEF HbTick, HbSent, HbWrite, HbAck, HbAckFails

\* The heartbeat goroutine, of the current session or of an older one, opens nothing
\* and does not touch the loop.
LEMMA HeartbeatStep ==
    ASSUME ClientInv, NEW s \in Slots, HbTick(s) \/ HbDone(s) \/ Goroutine(s)
    PROVE  ClientInv'
<1> USE DEF ClientInv, loop
<1>1. UNCHANGED loop
  BY DEF HbTick, HbDone, Goroutine, HbSent, HbWrite, HbAck, HbAckFails, HbCancel, HbClose
<1>2. hb' \in [Slots -> {"off", "wait", "sent", "write", "ack", "cancel", "close"}]
  BY DEF HbTick, HbDone, Goroutine, HbSent, HbWrite, HbAck, HbAckFails, HbCancel, HbClose,
         Hb, TypeOK
<1>3. up' = up \/ up' = [up EXCEPT ![s] = FALSE]
  BY DEF HbTick, HbDone, Goroutine, HbSent, HbWrite, HbAck, HbAckFails, HbCancel, HbClose
<1>4. cancelled' = cancelled \/ cancelled' = [cancelled EXCEPT ![s] = TRUE]
  BY DEF HbTick, HbDone, Goroutine, HbSent, HbWrite, HbAck, HbAckFails, HbCancel, HbClose
<1>5. stats' \in [samples : 0..Window, sent : Nat, lost : Nat]
  <2>1. CASE HbDone(s) \/ HbCancel(s) \/ HbClose(s)
    BY <2>1 DEF HbDone, HbCancel, HbClose, TypeOK
  <2>2. CASE HbTick(s) \/ HbSent(s) \/ HbWrite(s) \/ HbAck(s) \/ HbAckFails(s)
    BY <2>2, StatsStayCounters
  <2> QED BY <2>1, <2>2 DEF Goroutine
<1>6. up' \in [Slots -> BOOLEAN] /\ cancelled' \in [Slots -> BOOLEAN]
  BY <1>3, <1>4 DEF TypeOK
<1>7. TypeOK'
  BY <1>1, <1>2, <1>5, <1>6 DEF TypeOK
<1>8. SessionIsDialled' /\ BackoffIsReset'
  BY <1>1 DEF SessionIsDialled, BackoffIsReset
<1>9. NoSessionLeak'
  BY <1>1, <1>3 DEF NoSessionLeak, TypeOK
<1> QED BY <1>7, <1>8, <1>9

\* Every step preserves the invariant.
LEMMA NextPreservesClientInv == ClientInv /\ [Next]_vars => ClientInv'
<1> SUFFICES ASSUME ClientInv, [Next]_vars PROVE ClientInv'
  OBVIOUS
<1>1. CASE UNCHANGED vars
  BY <1>1 DEF vars, loop, sess, ClientInv, TypeOK, SessionIsDialled, NoSessionLeak, BackoffIsReset
<1>2. CASE StopClient
  BY <1>2 DEF StopClient, sess, ClientInv, TypeOK, SessionIsDialled, NoSessionLeak, BackoffIsReset
<1>3. ASSUME NEW s \in Slots, Disconnect(s) PROVE ClientInv'
  BY <1>3 DEF Disconnect, loop, ClientInv, TypeOK, SessionIsDialled, NoSessionLeak, BackoffIsReset
<1> QED BY <1>1, <1>2, <1>3, RunLoopStep, HeartbeatStep DEF Next

\* The invariant holds throughout.
THEOREM ClientInvHolds == Spec => []ClientInv
BY InitEstablishesClientInv, NextPreservesClientInv, PTL DEF Spec

\* Counters, delays and samples stay within their bounds for any configuration
\* (backoff.go, heartbeat.go).
THEOREM ClientTypeCorrect == Spec => []TypeOK
<1>1. ClientInv => TypeOK
  BY DEF ClientInv
<1> QED BY <1>1, ClientInvHolds, PTL

\* The client never holds two sessions, nor one while it dials, waits or is gone,
\* however many old heartbeat goroutines are still about (run.go).
THEOREM SessionsNeverLeak == Spec => []NoSessionLeak
<1>1. ClientInv => NoSessionLeak
  BY DEF ClientInv
<1> QED BY <1>1, ClientInvHolds, PTL

\* The sets that CountsCoverHeartbeats counts are finite.
LEMMA CountsAreNumbers ==
    /\ Cardinality(Slots) \in Nat \ {0}
    /\ IsFiniteSet(Pending) /\ Cardinality(Pending) \in Nat
    /\ Cardinality(Pending) <= Cardinality(Slots)
    /\ IsFiniteSet(InFlight) /\ Cardinality(InFlight) \in Nat
    /\ Cardinality(InFlight) <= Cardinality(Slots)
<1>1. IsFiniteSet(Slots) /\ Slots # {}
  BY ClientAssumption
<1>2. Cardinality(Slots) \in Nat /\ Cardinality(Slots) # 0
  BY <1>1, FS_CardinalityType, FS_EmptySet
<1>3. IsFiniteSet(Pending) /\ Cardinality(Pending) <= Cardinality(Slots)
  <2>1. Pending \in SUBSET Slots
    BY DEF Pending
  <2> QED BY <1>1, <2>1, FS_Subset
<1>4. IsFiniteSet(InFlight) /\ Cardinality(InFlight) <= Cardinality(Slots)
  <2>1. InFlight \in SUBSET Slots
    BY DEF InFlight
  <2> QED BY <1>1, <2>1, FS_Subset
<1> QED BY <1>2, <1>3, <1>4, FS_CardinalityType

\* When one heartbeat goroutine moves on, one element joins or leaves each set.
LEMMA OneGoroutineMoves ==
    ASSUME TypeOK, NEW s \in Slots, NEW from, NEW to, Hb(s, from, to)
    PROVE  /\ Cardinality(Pending)' = Cardinality(Pending)
                  + (IF to = "sent" THEN 1 ELSE 0) - (IF from = "sent" THEN 1 ELSE 0)
           /\ Cardinality(InFlight)' = Cardinality(InFlight)
                  + (IF to \in {"write", "ack"} THEN 1 ELSE 0)
                  - (IF from \in {"write", "ack"} THEN 1 ELSE 0)
<1>1. /\ hb[s] = from
      /\ \A r \in Slots : hb'[r] = IF r = s THEN to ELSE hb[r]
  BY DEF Hb, TypeOK
<1>2. Pending' = IF to = "sent" THEN Pending \cup {s} ELSE Pending \ {s}
  BY <1>1 DEF Pending
<1>3. InFlight' = IF to \in {"write", "ack"} THEN InFlight \cup {s} ELSE InFlight \ {s}
  BY <1>1 DEF InFlight
<1>4. s \in Pending <=> from = "sent"
  BY <1>1 DEF Pending
<1>5. s \in InFlight <=> from \in {"write", "ack"}
  BY <1>1 DEF InFlight
<1>6. /\ Cardinality(Pending \cup {s}) =
            IF s \in Pending THEN Cardinality(Pending) ELSE Cardinality(Pending) + 1
      /\ Cardinality(Pending \ {s}) =
            IF s \in Pending THEN Cardinality(Pending) - 1 ELSE Cardinality(Pending)
  BY CountsAreNumbers, FS_AddElement, FS_RemoveElement
<1>7. /\ Cardinality(InFlight \cup {s}) =
            IF s \in InFlight THEN Cardinality(InFlight) ELSE Cardinality(InFlight) + 1
      /\ Cardinality(InFlight \ {s}) =
            IF s \in InFlight THEN Cardinality(InFlight) - 1 ELSE Cardinality(InFlight)
  BY CountsAreNumbers, FS_AddElement, FS_RemoveElement
<1>8. Cardinality(Pending)' = Cardinality(Pending')
  OBVIOUS
<1>9. Cardinality(InFlight)' = Cardinality(InFlight')
  OBVIOUS
<1>10. Cardinality(Pending)' = Cardinality(Pending)
                  + (IF to = "sent" THEN 1 ELSE 0) - (IF from = "sent" THEN 1 ELSE 0)
  BY <1>2, <1>4, <1>6, <1>8, CountsAreNumbers
<1>11. Cardinality(InFlight)' = Cardinality(InFlight)
                  + (IF to \in {"write", "ack"} THEN 1 ELSE 0)
                  - (IF from \in {"write", "ack"} THEN 1 ELSE 0)
  BY <1>3, <1>5, <1>7, <1>9, CountsAreNumbers
<1> QED BY <1>10, <1>11

\* A goroutine that waits has nothing in flight: a reset finds at most one heartbeat
\* of every other session.
LEMMA OthersInFlight ==
    ASSUME NEW s \in Slots, s \notin InFlight
    PROVE  Cardinality(InFlight) < Cardinality(Slots)
<1>1. IsFiniteSet(Slots \ {s}) /\ Cardinality(Slots \ {s}) = Cardinality(Slots) - 1
  BY ClientAssumption, FS_RemoveElement
<1>2. InFlight \in SUBSET (Slots \ {s})
  BY DEF InFlight
<1>3. Cardinality(InFlight) <= Cardinality(Slots \ {s})
  BY <1>1, <1>2, FS_Subset
<1> QED BY <1>1, <1>3, CountsAreNumbers

\* Every step of a heartbeat goroutine keeps the counters covered (heartbeat.go,
\* run.go:229-262).
LEMMA HeartbeatKeepsCounts ==
    ASSUME ClientInv, CountsCoverHeartbeats, NEW s \in Slots,
           HbTick(s) \/ HbDone(s) \/ Goroutine(s)
    PROVE  CountsCoverHeartbeats'
<1> DEFINE inFlight == Cardinality(InFlight)
           pending == Cardinality(Pending)
           slots == Cardinality(Slots)
<1>1. TypeOK
  BY DEF ClientInv
<1>2. stats \in [samples : 0..Window, sent : Nat, lost : Nat] /\ Window \in Nat \ {0}
  BY <1>1, ClientAssumption DEF TypeOK
<1>3. slots \in Nat \ {0} /\ inFlight \in Nat /\ pending \in Nat /\ pending <= slots
  BY CountsAreNumbers
<1>4. stats.lost + inFlight < stats.sent + slots /\ stats.sent + pending < Window + slots
  BY DEF CountsCoverHeartbeats
<1>5. SUFFICES /\ stats'.lost + inFlight' < stats'.sent + slots
               /\ stats'.sent + pending' < Window + slots
  BY DEF CountsCoverHeartbeats
<1>6. CASE HbTick(s)
  <2>1. Hb(s, "wait", "sent") /\ SnapshotForSend
    BY <1>6 DEF HbTick
  <2>2. inFlight' = inFlight /\ pending' = pending + 1
    BY <1>1, <1>3, <2>1, OneGoroutineMoves
  <2>3. s \notin InFlight /\ s \notin Pending
    BY <2>1 DEF Hb, InFlight, Pending
  <2>4. inFlight < slots
    BY <2>3, OthersInFlight
  <2>5. pending + 1 <= slots
    <3>1. IsFiniteSet(Slots \ {s}) /\ Cardinality(Slots \ {s}) = slots - 1
      BY ClientAssumption, FS_RemoveElement
    <3>2. Pending \in SUBSET (Slots \ {s})
      BY <2>3 DEF Pending
    <3>3. pending <= Cardinality(Slots \ {s})
      BY <3>1, <3>2, FS_Subset
    <3> QED BY <1>3, <3>1, <3>3
  <2>6. CASE stats.sent >= Window
    <3>1. stats'.sent = 0 /\ stats'.lost = 0
      BY <1>2, <2>1, <2>6 DEF SnapshotForSend
    <3> HIDE DEF inFlight, pending, slots
    <3> QED BY <1>2, <1>3, <2>2, <2>4, <2>5, <3>1
  <2>7. CASE ~(stats.sent >= Window)
    <3>1. stats' = stats /\ stats.sent < Window
      BY <1>2, <2>1, <2>7 DEF SnapshotForSend
    <3> HIDE DEF inFlight, pending, slots
    <3> QED BY <1>2, <1>3, <1>4, <2>2, <2>5, <3>1
  <2> QED BY <2>6, <2>7
<1>7. CASE HbSent(s)
  <2>1. Hb(s, "sent", "write") /\ stats'.sent = stats.sent + 1 /\ stats'.lost = stats.lost
    BY <1>2, <1>7 DEF HbSent
  <2>2. inFlight' = inFlight + 1 /\ pending' = pending - 1
    BY <1>1, <1>3, <2>1, OneGoroutineMoves
  <2> HIDE DEF inFlight, pending, slots
  <2> QED BY <1>2, <1>3, <1>4, <2>1, <2>2
<1>8. CASE HbWrite(s) /\ up[s]
  <2>1. Hb(s, "write", "ack") /\ stats' = stats
    BY <1>8 DEF HbWrite
  <2>2. inFlight' = inFlight /\ pending' = pending
    BY <1>1, <1>3, <2>1, OneGoroutineMoves
  <2> HIDE DEF inFlight, pending, slots
  <2> QED BY <1>4, <2>1, <2>2
<1>9. CASE (HbWrite(s) /\ ~up[s]) \/ HbAck(s) \/ HbAckFails(s)
  <2>1. PICK from \in {"write", "ack"}, to \in {"wait", "cancel"} : Hb(s, from, to)
    BY <1>9 DEF HbWrite, HbAck, HbAckFails
  <2>2. inFlight' = inFlight - 1 /\ pending' = pending
    BY <1>1, <1>3, <2>1, OneGoroutineMoves
  <2>3. stats'.sent = stats.sent /\ stats'.lost \in {stats.lost, stats.lost + 1}
    BY <1>2, <1>9 DEF HbWrite, HbAck, HbAckFails, AckLost
  <2> HIDE DEF inFlight, pending, slots
  <2> QED BY <1>2, <1>3, <1>4, <2>2, <2>3
<1>10. CASE HbDone(s) \/ HbCancel(s) \/ HbClose(s)
  <2>1. /\ stats' = stats
        /\ \E from \in {"wait", "cancel", "close"}, to \in {"cancel", "close", "off"} :
              Hb(s, from, to)
    BY <1>10 DEF HbDone, HbCancel, HbClose
  <2>2. inFlight' = inFlight /\ pending' = pending
    BY <1>1, <1>3, <2>1, OneGoroutineMoves
  <2> HIDE DEF inFlight, pending, slots
  <2> QED BY <1>4, <2>1, <2>2
<1> QED BY <1>6, <1>7, <1>8, <1>9, <1>10 DEF Goroutine

\* The losses a window reports were sent, in it or by another session just before the
\* reset, and no window outgrows its size by more than the overlapping sessions
\* (heartbeat.go:50-108).
THEOREM CountsAlwaysCoverHeartbeats == Spec => []CountsCoverHeartbeats
<1>1. Init => CountsCoverHeartbeats
  <2> SUFFICES ASSUME Init PROVE CountsCoverHeartbeats
    OBVIOUS
  <2>1. Pending = {} /\ InFlight = {}
    BY DEF Init, Pending, InFlight
  <2>2. Cardinality(Pending) = 0 /\ Cardinality(InFlight) = 0
    BY <2>1, FS_EmptySet
  <2> QED BY <2>2, CountsAreNumbers, ClientAssumption DEF Init, CountsCoverHeartbeats
<1>2. ClientInv /\ CountsCoverHeartbeats /\ [Next]_vars => CountsCoverHeartbeats'
  <2> SUFFICES ASSUME ClientInv, CountsCoverHeartbeats, [Next]_vars
               PROVE  CountsCoverHeartbeats'
    OBVIOUS
  <2>1. CASE UNCHANGED <<hb, stats>>
    <3>1. Pending' = Pending /\ InFlight' = InFlight /\ stats' = stats
      BY <2>1 DEF Pending, InFlight
    <3> QED BY <3>1 DEF CountsCoverHeartbeats
  <2>2. CASE RegisterOK
    <3>1. TypeOK /\ cur \in Slots /\ stats' = stats /\ Hb(cur, hb[cur], "wait")
      BY <2>2 DEF RegisterOK, ClientInv, SessionIsDialled, Hb
    <3>2. /\ Cardinality(Pending)' <= Cardinality(Pending)
          /\ Cardinality(InFlight)' <= Cardinality(InFlight)
      BY <3>1, OneGoroutineMoves, CountsAreNumbers
    <3>3. Cardinality(Pending)' \in Int /\ Cardinality(InFlight)' \in Int
      BY <3>1, OneGoroutineMoves, CountsAreNumbers
    <3>4. stats \in [samples : 0..Window, sent : Nat, lost : Nat] /\ Window \in Nat
      BY <3>1, ClientAssumption DEF TypeOK
    <3> QED BY <3>1, <3>2, <3>3, <3>4, CountsAreNumbers DEF CountsCoverHeartbeats
  <2>3. CASE Top \/ BackoffEnds \/ DialServer \/ DialFails \/ RegisterFails \/ AcceptFails
    BY <2>1, <2>3 DEF Top, BackoffEnds, DialServer, DialFails, RegisterFails, AcceptFails, sess
  <2>4. CASE StopClient \/ (\E s \in Slots : Disconnect(s)) \/ UNCHANGED vars
    BY <2>1, <2>4 DEF StopClient, Disconnect, sess, vars
  <2> QED BY <2>2, <2>3, <2>4, HeartbeatKeepsCounts DEF Next, RunLoop
<1> QED BY <1>1, <1>2, ClientInvHolds, PTL DEF Spec

\* The first delay after a session that registered is at most the initial one
\* (README.md:67).
THEOREM RegistrationAlwaysResetsBackoff == Spec => RegistrationResetsBackoff
<1>1. ASSUME ClientInv, [Next]_vars, pc = "accept", pc' = "backoff"
      PROVE  delay' <= AtMost(MaxDelay, Initial)
  <2>1. AcceptFails
    BY <1>1 DEF Next, RunLoop, Top, BackoffEnds, DialServer, DialFails, RegisterOK,
                RegisterFails, StopClient, HbTick, HbDone, Goroutine, HbSent, HbWrite,
                HbAck, HbAckFails, HbCancel, HbClose, Disconnect, loop, vars
  <2>2. NextDelay
    BY <1>1, <2>1 DEF AcceptFails, Ended, Exit
  <2> QED BY <1>1, <2>2, NextDelayIsBounded DEF ClientInv, BackoffIsReset
<1>2. ClientInv /\ [Next]_vars =>
        [pc = "accept" /\ pc' = "backoff" => delay' <= AtMost(MaxDelay, Initial)]_vars
  BY <1>1
<1> QED BY <1>2, ClientInvHolds, PTL DEF Spec, RegistrationResetsBackoff
=============================================================================

----------------------------- MODULE FlowProofs -----------------------------
(***************************************************************************)
(* Proofs about the heartbeat pipeline, for any number of heartbeats,      *)
(* sessions, reloads and delivery attempts: every step keeps the types,    *)
(* and neither the pool nor the device's document forgets a known value.   *)
(***************************************************************************)
EXTENDS HeartbeatFlow, TLAPS

\* Every reader but the one in use is closed, or the one Reload has just
\* swapped out is still to be closed.
OldReadersAreClosed ==
    \/ closed = 0..(reader - 1)
    \/ reader > 0 /\ closed = 0..(reader - 2)

\* The inductive invariant.
FlowInv == TypeOK /\ OldReadersAreClosed

\* What a goroutine of the sink may hold.
SinkState == [step : {"none", "load", "city", "pool", "publish", "done"},
              session : 0..MaxSessions, avgRTT : Beats \cup {Nil},
              reader : 0..MaxReloads, country : Countries]

\* DevicePool.Update turns an entry into an entry (pool.go:72-118), and keeps
\* the statistics and the country of the old one.
LEMMA UpdateKeepsEntries ==
    ASSUME NEW cur \in DeviceStats, NEW u \in DeviceUpdate, NEW now \in Nat
    PROVE  /\ PoolUpdate(cur, u, now) \in DeviceStats
           /\ cur.hasStats => PoolUpdate(cur, u, now).hasStats
           /\ cur.country # NoCountry => PoolUpdate(cur, u, now).country # NoCountry
<1>1. /\ cur.country \in Countries /\ cur.avgRTT \in Nat /\ cur.lossRate \in Nat
      /\ cur.hasStats \in BOOLEAN /\ cur.lastSeen \in Nat \cup {ZeroTime}
  BY DEF DeviceStats
<1>2. /\ u.country \in Countries /\ u.avgRTT \in Nat \cup {Nil}
      /\ u.lossRate \in Nat \cup {Nil} /\ u.seenAt \in Nat \cup {ZeroTime}
  BY DEF DeviceUpdate
<1>3. PICK country \in Countries, rtt \in Nat, loss \in Nat, seen \in Nat \cup {ZeroTime} :
         /\ country = IF u.country # NoCountry THEN u.country ELSE cur.country
         /\ rtt = IF u.avgRTT # Nil THEN u.avgRTT ELSE cur.avgRTT
         /\ loss = IF u.lossRate # Nil THEN u.lossRate ELSE cur.lossRate
         /\ seen = IF u.seenAt # ZeroTime THEN u.seenAt ELSE now
  BY <1>1, <1>2
<1>4. PICK has \in BOOLEAN : has <=> cur.hasStats \/ u.avgRTT # Nil \/ u.lossRate # Nil
  BY Zenon
<1>5. (cur.hasStats \/ u.avgRTT # Nil \/ u.lossRate # Nil) = has
  BY <1>4, Zenon
<1>6. PoolUpdate(cur, u, now) =
         [country |-> country, avgRTT |-> rtt, lossRate |-> loss, hasStats |-> has, lastSeen |-> seen]
  BY <1>3, <1>5, Zenon DEF PoolUpdate
<1>7. cur.hasStats => has
  BY <1>4, Zenon
<1>8. cur.country # NoCountry => country # NoCountry
  BY <1>3
<1> QED BY <1>6, <1>7, <1>8 DEF DeviceStats

\* The initial state satisfies the invariant.
LEMMA FlowInit == Init => FlowInv
<1> SUFFICES ASSUME Init PROVE FlowInv
  OBVIOUS
<1> USE FlowAssumption, SelectorAssumption DEF FlowAssumption, SelectorAssumption
<1>1. Idle \in SinkState
  BY DEF Idle, SinkState, Nil
<1>2. sink \in [Beats -> SinkState]
  BY <1>1 DEF Init
<1>3. entry \in DeviceStats
  BY DEF Init, ZeroStats, DeviceStats
<1>4. doc \in [known : BOOLEAN, lastSeen : 0..MaxBeats, avgRTT : Beats \cup {Nil}, country : Countries]
  BY DEF Init
<1>5. /\ received \in 0..MaxBeats /\ session \in 1..MaxSessions
      /\ reader \in 0..MaxReloads /\ closed \subseteq 0..MaxReloads
      /\ msg \in [Beats -> {"none", "queued", "handling", "finished", "dropped"}]
      /\ attempts \in [Beats -> 0..MaxAttempts]
  BY DEF Init
<1>6. OldReadersAreClosed
  BY DEF Init, OldReadersAreClosed
<1> QED BY <1>2, <1>3, <1>4, <1>5, <1>6 DEF FlowInv, TypeOK, SinkState

\* The types of a heartbeat's goroutine (main.go's heartbeatSink): a step that
\* touches only the step, the reader or the country of one of them keeps them.
LEMMA SinkSteps ==
    ASSUME FlowInv, NEW k \in Beats
    PROVE  /\ sink[k] \in SinkState
           /\ \A step \in {"none", "load", "city", "pool", "publish", "done"} :
                 [sink EXCEPT ![k].step = step] \in [Beats -> SinkState]
           /\ [sink EXCEPT ![k].step = "city", ![k].reader = reader] \in [Beats -> SinkState]
           /\ \A c \in Countries :
                 [sink EXCEPT ![k].step = "pool", ![k].country = c] \in [Beats -> SinkState]
<1>1. sink \in [Beats -> SinkState] /\ reader \in 0..MaxReloads
  BY DEF FlowInv, TypeOK, SinkState
<1>2. sink[k] \in SinkState
  BY <1>1
<1>3. \A step \in {"none", "load", "city", "pool", "publish", "done"} :
         [sink[k] EXCEPT !.step = step] \in SinkState
  BY <1>2 DEF SinkState
<1>4. [sink[k] EXCEPT !.step = "city", !.reader = reader] \in SinkState
  BY <1>1, <1>2 DEF SinkState
<1>5. \A c \in Countries : [sink[k] EXCEPT !.step = "pool", !.country = c] \in SinkState
  BY <1>2 DEF SinkState
<1>6. \A step : [sink EXCEPT ![k].step = step] = [sink EXCEPT ![k] = [sink[k] EXCEPT !.step = step]]
  BY <1>1
<1>7. [sink EXCEPT ![k].step = "city", ![k].reader = reader]
        = [sink EXCEPT ![k] = [sink[k] EXCEPT !.step = "city", !.reader = reader]]
  BY <1>1
<1>8. \A c : [sink EXCEPT ![k].step = "pool", ![k].country = c]
               = [sink EXCEPT ![k] = [sink[k] EXCEPT !.step = "pool", !.country = c]]
  BY <1>1
<1> QED BY <1>1, <1>2, <1>3, <1>4, <1>5, <1>6, <1>7, <1>8

\* Every step keeps the invariant.
LEMMA FlowStep == FlowInv /\ [Next]_vars => FlowInv'
<1> SUFFICES ASSUME FlowInv, [Next]_vars PROVE FlowInv'
  OBVIOUS
<1> USE FlowAssumption, SelectorAssumption DEF FlowAssumption, SelectorAssumption
<1>0. sink \in [Beats -> SinkState]
  BY DEF FlowInv, TypeOK, SinkState
<1>s. sink' \in [Beats -> SinkState] => sink' \in [Beats -> [
                           step : {"none", "load", "city", "pool", "publish", "done"},
                           session : 0..MaxSessions, avgRTT : Beats \cup {Nil},
                           reader : 0..MaxReloads, country : Countries]]
  BY DEF SinkState
<1>1. CASE Receive
  <2>1. PICK rtt \in {Nil, received + 1} :
           sink' = [sink EXCEPT ![received + 1] =
                      [Idle EXCEPT !.step = "load", !.session = session, !.avgRTT = rtt]]
    BY <1>1 DEF Receive
  <2>2. received + 1 \in Beats /\ session \in 0..MaxSessions
    BY <1>1 DEF Receive, FlowInv, TypeOK, Beats
  <2>3. [Idle EXCEPT !.step = "load", !.session = session, !.avgRTT = rtt] \in SinkState
    <3>1. Idle \in SinkState
      BY DEF Idle, SinkState
    <3>2. session \in 0..MaxSessions /\ rtt \in Beats \cup {Nil} /\ 0 \in 0..MaxReloads
          /\ NoCountry \in Countries
      BY <2>1, <2>2
    <3> QED BY <3>1, <3>2 DEF SinkState
  <2>4. sink' \in [Beats -> SinkState]
    BY <1>0, <2>1, <2>3
  <2>5. received' \in 0..MaxBeats
    BY <1>1 DEF Receive, FlowInv, TypeOK
  <2> QED BY <1>1, <1>s, <2>4, <2>5 DEF Receive, FlowInv, TypeOK, OldReadersAreClosed, geo, nsq
<1>2. CASE NewSession
  BY <1>2 DEF NewSession, FlowInv, TypeOK, OldReadersAreClosed, geo, nsq
<1>3. CASE ReloadSwap
  BY <1>3 DEF ReloadSwap, FlowInv, TypeOK, OldReadersAreClosed, geo, nsq
<1>4. CASE ReloadClose
  <2>1. reader > 0 /\ closed' = 0..(reader - 1)
    <3>1. reader > 0 /\ closed = 0..(reader - 2)
      BY <1>4 DEF ReloadClose, FlowInv, OldReadersAreClosed
    <3>2. reader \in Nat
      BY DEF FlowInv, TypeOK
    <3>3. (0..(reader - 2)) \cup {reader - 1} = 0..(reader - 1)
      BY <3>1, <3>2
    <3> QED BY <1>4, <3>1, <3>3 DEF ReloadClose
  <2>2. closed' \subseteq 0..MaxReloads
    BY <2>1 DEF FlowInv, TypeOK
  <2> QED BY <1>4, <2>1, <2>2 DEF ReloadClose, FlowInv, TypeOK, OldReadersAreClosed, geo, nsq
<1>5. CASE RegisterDoc
  BY <1>5 DEF RegisterDoc, FlowInv, TypeOK, OldReadersAreClosed, geo, nsq
<1>6. ASSUME NEW k \in Beats, Sink(k) PROVE FlowInv'
  <2>1. CASE LookupLoad(k)
    <3>1. \/ sink' = [sink EXCEPT ![k].step = "city", ![k].reader = reader]
          \/ sink' = [sink EXCEPT ![k].step = "pool"]
      BY <2>1 DEF LookupLoad, Move
    <3>2. sink' \in [Beats -> SinkState]
      <4>1. /\ [sink EXCEPT ![k].step = "city", ![k].reader = reader] \in [Beats -> SinkState]
            /\ [sink EXCEPT ![k].step = "pool"] \in [Beats -> SinkState]
        BY <1>6, SinkSteps
      <4> QED BY <3>1, <4>1
    <3> QED BY <2>1, <1>s, <3>2 DEF LookupLoad, FlowInv, TypeOK, OldReadersAreClosed, geo, nsq
  <2>2. CASE LookupCity(k)
    <3>1. PICK c \in Countries : sink' = [sink EXCEPT ![k].step = "pool", ![k].country = c]
      BY <2>2 DEF LookupCity
    <3>2. sink' \in [Beats -> SinkState]
      BY <1>6, <3>1, SinkSteps
    <3> QED BY <2>2, <1>s, <3>2 DEF LookupCity, FlowInv, TypeOK, OldReadersAreClosed, geo, nsq
  <2>3. CASE UpdatePool(k)
    <3>1. sink' \in [Beats -> SinkState]
      BY <1>6, <2>3, SinkSteps DEF UpdatePool, Move
    <3>2. /\ k \in Nat /\ entry \in DeviceStats
          /\ [country |-> sink[k].country, avgRTT |-> sink[k].avgRTT,
              lossRate |-> Nil, seenAt |-> k] \in DeviceUpdate
      BY <1>0 DEF FlowInv, TypeOK, Beats, SinkState, DeviceUpdate
    <3>3. entry' \in DeviceStats
      BY <2>3, <3>2, UpdateKeepsEntries DEF UpdatePool
    <3> QED BY <2>3, <1>s, <3>1, <3>3 DEF UpdatePool, FlowInv, TypeOK, OldReadersAreClosed, geo, nsq
  <2>4. CASE Publish(k)
    <3>1. sink' \in [Beats -> SinkState]
      BY <1>6, <2>4, SinkSteps DEF Publish, Move
    <3> QED BY <2>4, <1>s, <3>1 DEF Publish, FlowInv, TypeOK, OldReadersAreClosed, geo, nsq
  <2> QED BY <1>6, <2>1, <2>2, <2>3, <2>4 DEF Sink
<1>7. ASSUME NEW k \in Beats, Consume(k) PROVE FlowInv'
  <2>1. CASE Deliver(k)
    BY <1>7, <2>1 DEF Deliver, FlowInv, TypeOK, OldReadersAreClosed, geo, nsq
  <2>2. CASE GiveUp(k)
    BY <1>7, <2>2 DEF GiveUp, FlowInv, TypeOK, OldReadersAreClosed, geo, nsq
  <2>3. CASE Handle(k)
    <3>1. Merge(k) \in [known : BOOLEAN, lastSeen : 0..MaxBeats,
                        avgRTT : Beats \cup {Nil}, country : Countries]
      <4>1. k \in 0..MaxBeats /\ sink[k].avgRTT \in Beats \cup {Nil} /\ sink[k].country \in Countries
        BY <1>0, <1>7 DEF SinkState, Beats
      <4>2. doc \in [known : BOOLEAN, lastSeen : 0..MaxBeats,
                     avgRTT : Beats \cup {Nil}, country : Countries]
        BY DEF FlowInv, TypeOK
      <4> QED BY <4>1, <4>2 DEF Merge
    <3> QED BY <1>7, <2>3, <3>1 DEF Handle, FlowInv, TypeOK, OldReadersAreClosed, geo, nsq
  <2>4. CASE HandleFails(k)
    BY <1>7, <2>4 DEF HandleFails, FlowInv, TypeOK, OldReadersAreClosed, geo, nsq
  <2> QED BY <1>7, <2>1, <2>2, <2>3, <2>4 DEF Consume
<1>8. CASE UNCHANGED vars
  BY <1>8 DEF vars, FlowInv, TypeOK, OldReadersAreClosed, geo, nsq
<1> QED BY <1>1, <1>2, <1>3, <1>4, <1>5, <1>6, <1>7, <1>8 DEF Next

\* A step of the pipeline never replaces a known value by nothing.
LEMMA StepKeepsKnownValues ==
    ASSUME FlowInv, [Next]_vars
    PROVE  /\ doc.avgRTT # Nil => doc'.avgRTT # Nil
           /\ doc.country # NoCountry => doc'.country # NoCountry
           /\ entry.hasStats => entry'.hasStats
           /\ entry.country # NoCountry => entry'.country # NoCountry
<1> USE FlowAssumption, SelectorAssumption DEF FlowAssumption, SelectorAssumption
<1>1. CASE UNCHANGED <<entry, doc>>
  BY <1>1
<1>2. ASSUME NEW k \in Beats, UpdatePool(k) PROVE
           /\ UNCHANGED doc
           /\ entry.hasStats => entry'.hasStats
           /\ entry.country # NoCountry => entry'.country # NoCountry
  <2>1. /\ k \in Nat /\ entry \in DeviceStats
        /\ [country |-> sink[k].country, avgRTT |-> sink[k].avgRTT,
            lossRate |-> Nil, seenAt |-> k] \in DeviceUpdate
    BY <1>2 DEF FlowInv, TypeOK, Beats, DeviceUpdate
  <2> QED BY <1>2, <2>1, UpdateKeepsEntries DEF UpdatePool
<1>3. ASSUME NEW k \in Beats, Handle(k) PROVE
           /\ UNCHANGED entry
           /\ doc.avgRTT # Nil => doc'.avgRTT # Nil
           /\ doc.country # NoCountry => doc'.country # NoCountry
  BY <1>3 DEF Handle, Merge, FlowInv, TypeOK
<1>4. ASSUME RegisterDoc PROVE
           /\ UNCHANGED entry
           /\ doc'.avgRTT = doc.avgRTT /\ doc'.country = doc.country
  BY <1>4 DEF RegisterDoc, FlowInv, TypeOK
<1>5. \/ UNCHANGED <<entry, doc>> \/ RegisterDoc
      \/ \E k \in Beats : UpdatePool(k) \/ Handle(k)
  BY DEF Next, vars, Receive, NewSession, ReloadSwap, ReloadClose, Sink, Consume,
         LookupLoad, LookupCity, Publish, Deliver, GiveUp, HandleFails
<1> QED BY <1>1, <1>2, <1>3, <1>4, <1>5

\* The invariant holds in every reachable state.
THEOREM FlowInvHolds == Spec => []FlowInv
BY FlowInit, FlowStep, PTL DEF Spec

\* The types hold in every reachable state: no message is delivered more than
\* MaxAttempts times (consumer.go), and Reload never closes a reader that was
\* not swapped out (geo.go).
THEOREM FlowTypeCorrect == Spec => []TypeOK
<1>1. FlowInv => TypeOK
  BY DEF FlowInv
<1> QED BY FlowInvHolds, <1>1, PTL

\* "we never overwrite a known value with nil" (store.go:48-49): whatever the
\* order in which heartbeats with and without values reach the pool and the
\* store, redelivered ones included.
THEOREM KnownValuesAreAlwaysKept == Spec => KnownValuesAreKept
<1>1. FlowInv /\ [Next]_vars =>
        [/\ doc.avgRTT # Nil => doc'.avgRTT # Nil
         /\ doc.country # NoCountry => doc'.country # NoCountry
         /\ entry.hasStats => entry'.hasStats
         /\ entry.country # NoCountry => entry'.country # NoCountry]_vars
  BY StepKeepsKnownValues
<1> QED BY <1>1, FlowInvHolds, PTL DEF Spec, KnownValuesAreKept
=============================================================================

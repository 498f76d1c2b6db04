---------------------------- MODULE HeartbeatFlow ----------------------------
(***************************************************************************)
(* What becomes of a device's heartbeats: ServeDevice hands each one to a  *)
(* goroutine of its own, which looks up the geo database, updates the      *)
(* scheduler's pool and publishes to NSQ; the admin's consumers merge the  *)
(* events into the device's document.  Heartbeat k arrives at time k.      *)
(***************************************************************************)
EXTENDS Selector

CONSTANTS
    MaxBeats,      \* bound on the heartbeats
    MaxSessions,   \* bound on the sessions they arrive on
    MaxReloads,    \* bound on the reloads of the geo database
    MaxAttempts    \* NSQ gives up on a message after so many deliveries

ASSUME FlowAssumption ==
    /\ MaxBeats \in Nat /\ MaxSessions \in Nat \ {0}
    /\ MaxReloads \in Nat /\ MaxAttempts \in Nat \ {0}

VARIABLES
    received,  \* heartbeats received
    session,   \* the session of the device
    sink,      \* each heartbeat's goroutine: step, session, RTT, reader, country
    entry,     \* the device's entry in the pool
    reader,    \* the geo reader in use
    closed,    \* the readers that have been closed
    msg,       \* each heartbeat's message in NSQ
    attempts,  \* how often it was delivered
    doc        \* the device's document in Mongo

geo == <<reader, closed>>
nsq == <<msg, attempts>>
vars == <<received, session, sink, entry, geo, nsq, doc>>

Beats == 1..MaxBeats

Idle == [step |-> "none", session |-> 0, avgRTT |-> Nil, reader |-> 0, country |-> NoCountry]

Init ==
    /\ received = 0
    /\ session = 1
    /\ sink = [k \in Beats |-> Idle]
    /\ entry = ZeroStats
    /\ reader = 0
    /\ closed = {}
    /\ msg = [k \in Beats |-> "none"]
    /\ attempts = [k \in Beats |-> 0]
    /\ doc = [known |-> FALSE, lastSeen |-> 0, avgRTT |-> Nil, country |-> NoCountry]

At(k, step) == sink[k].step = step

Move(k, step) == sink' = [sink EXCEPT ![k].step = step]

-----------------------------------------------------------------------------
(* ServeDevice and heartbeatSink *)

\* The read loop takes a heartbeat, with an average RTT or without, and goes
\* on: the sink runs in a goroutine of its own.
Receive ==
    /\ received < MaxBeats
    /\ received' = received + 1
    /\ \E rtt \in {Nil, received + 1} :
          sink' = [sink EXCEPT ![received + 1] =
                      [Idle EXCEPT !.step = "load", !.session = session, !.avgRTT = rtt]]
    /\ UNCHANGED <<session, entry, geo, nsq, doc>>

\* ServeDevice returns and cancels the context of its sinks; the device
\* connects again.
NewSession ==
    /\ session < MaxSessions
    /\ session' = session + 1
    /\ UNCHANGED <<received, sink, entry, geo, nsq, doc>>

\* Lookup loads the reader, or is skipped for an address that does not parse.
LookupLoad(k) ==
    /\ At(k, "load")
    /\ \/ sink' = [sink EXCEPT ![k].step = "city", ![k].reader = reader]
       \/ Move(k, "pool")
    /\ UNCHANGED <<received, session, entry, geo, nsq, doc>>

\* City: a country, or none for an unknown address or an error.
LookupCity(k) ==
    /\ At(k, "city")
    /\ \E country \in Countries :
          sink' = [sink EXCEPT ![k].step = "pool", ![k].country = country]
    /\ UNCHANGED <<received, session, entry, geo, nsq, doc>>

UpdatePool(k) ==
    /\ At(k, "pool")
    /\ entry' = PoolUpdate(entry, [country |-> sink[k].country, avgRTT |-> sink[k].avgRTT,
                                   lossRate |-> Nil, seenAt |-> k], k)
    /\ Move(k, "publish")
    /\ UNCHANGED <<received, session, geo, nsq, doc>>

\* Publish gives up if the session's context is cancelled, and may fail.
Publish(k) ==
    /\ At(k, "publish")
    /\ Move(k, "done")
    /\ \/ sink[k].session = session /\ msg' = [msg EXCEPT ![k] = "queued"]
       \/ UNCHANGED msg
    /\ UNCHANGED <<received, session, entry, geo, attempts, doc>>

-----------------------------------------------------------------------------
(* GeoLite2.Reload, on SIGHUP *)

\* Open and Swap; a file that does not open changes nothing.
ReloadSwap ==
    /\ reader < MaxReloads
    /\ closed = 0..(reader - 1)
    /\ reader' = reader + 1
    /\ UNCHANGED <<received, session, sink, entry, closed, nsq, doc>>

\* The old reader is closed at once.
ReloadClose ==
    /\ closed # 0..(reader - 1)
    /\ closed' = closed \cup {reader - 1}
    /\ UNCHANGED <<received, session, sink, entry, reader, nsq, doc>>

-----------------------------------------------------------------------------
(* The admin's consumer *)

\* Mutant of Deliver: attempts are not limited.
Deliver_Unlimited(k) ==
    /\ msg[k] = "queued"
    /\ msg' = [msg EXCEPT ![k] = "handling"]
    /\ attempts' = [attempts EXCEPT ![k] = @ + 1]
    /\ UNCHANGED <<received, session, sink, entry, geo, doc>>

\* NSQ hands the message to one of the handlers.
Deliver(k) ==
    /\ msg[k] = "queued" /\ attempts[k] < MaxAttempts
    /\ msg' = [msg EXCEPT ![k] = "handling"]
    /\ attempts' = [attempts EXCEPT ![k] = @ + 1]
    /\ UNCHANGED <<received, session, sink, entry, geo, doc>>

\* Mutant of GiveUp: a message that failed too often stays.
GiveUp_Never(k) == FALSE /\ msg[k] = "queued" /\ UNCHANGED vars

GiveUp(k) ==
    /\ msg[k] = "queued" /\ attempts[k] = MaxAttempts
    /\ msg' = [msg EXCEPT ![k] = "dropped"]
    /\ UNCHANGED <<received, session, sink, entry, geo, attempts, doc>>

\* Mutant of Merge: fields without a value are written too.
Merge_All(k) ==
    [doc EXCEPT !.lastSeen = k, !.avgRTT = sink[k].avgRTT, !.country = sink[k].country]

\* UpdateDeviceNetwork sets the fields that have a value.
Merge(k) ==
    [doc EXCEPT !.lastSeen = k,
                !.avgRTT = IF sink[k].avgRTT # Nil THEN sink[k].avgRTT ELSE @,
                !.country = IF sink[k].country # NoCountry THEN sink[k].country ELSE @]

\* A handled message is finished, or delivered again if NSQ does not hear of
\* it.  A device without a document is acknowledged and dropped.
Handle(k) ==
    /\ msg[k] = "handling"
    /\ doc' = IF doc.known THEN Merge(k) ELSE doc
    /\ \E then \in {"finished", "queued"} : msg' = [msg EXCEPT ![k] = then]
    /\ UNCHANGED <<received, session, sink, entry, geo, attempts>>

\* The store is down: the error makes NSQ requeue the message.
HandleFails(k) ==
    /\ msg[k] = "handling"
    /\ msg' = [msg EXCEPT ![k] = "queued"]
    /\ UNCHANGED <<received, session, sink, entry, geo, attempts, doc>>

\* The device's registration creates its document.
RegisterDoc ==
    /\ ~doc.known
    /\ doc' = [doc EXCEPT !.known = TRUE]
    /\ UNCHANGED <<received, session, sink, entry, geo, nsq>>

Sink(k) == LookupLoad(k) \/ LookupCity(k) \/ UpdatePool(k) \/ Publish(k)

Consume(k) == Deliver(k) \/ GiveUp(k) \/ Handle(k) \/ HandleFails(k)

Next ==
    \/ Receive \/ NewSession \/ ReloadSwap \/ ReloadClose \/ RegisterDoc
    \/ \E k \in Beats : Sink(k) \/ Consume(k)

Spec == Init /\ [][Next]_vars

\* Goroutines run and NSQ delivers; nothing is assumed of the store.
FairSpec == Spec /\ \A k \in Beats : WF_vars(Sink(k)) /\ WF_vars(Consume(k))

-----------------------------------------------------------------------------
(* Properties *)

\* The type invariant: no message is delivered more than MaxAttempts times (consumer.go).
TypeOK ==
    /\ received \in 0..MaxBeats
    /\ session \in 1..MaxSessions
    /\ sink \in [Beats -> [step : {"none", "load", "city", "pool", "publish", "done"},
                           session : 0..MaxSessions, avgRTT : Beats \cup {Nil},
                           reader : 0..MaxReloads, country : Countries]]
    /\ entry \in DeviceStats
    /\ reader \in 0..MaxReloads /\ closed \subseteq 0..MaxReloads
    /\ msg \in [Beats -> {"none", "queued", "handling", "finished", "dropped"}]
    /\ attempts \in [Beats -> 0..MaxAttempts]
    /\ doc \in [known : BOOLEAN, lastSeen : 0..MaxBeats,
                avgRTT : Beats \cup {Nil}, country : Countries]

\* "we never overwrite a known value with nil" (store.go:48-49), nor does the
\* pool, in whatever order the heartbeats with and without values are merged.
KnownValuesAreKept ==
    [][/\ doc.avgRTT # Nil => doc'.avgRTT # Nil
       /\ doc.country # NoCountry => doc'.country # NoCountry
       /\ entry.hasStats => entry'.hasStats
       /\ entry.country # NoCountry => entry'.country # NoCountry]_vars

\* Every published event is settled: handled, or dropped after MaxAttempts
\* deliveries, also if the store fails every time.
EventsAreSettled ==
    \A k \in Beats : msg[k] = "queued" ~> msg[k] \in {"finished", "dropped"}

\* "Old reader is closed only after the swap so in-flight callers stay valid."
\* (geo.go:64-65): no lookup runs on a closed reader.
InFlightCallersStayValid ==
    \A k \in Beats : At(k, "city") => sink[k].reader \notin closed
=============================================================================

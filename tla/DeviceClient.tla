---------------------------- MODULE DeviceClient ----------------------------
(***************************************************************************)
(* client/core: the device's runLoop and runSession, with the heartbeat    *)
(* goroutine every session starts, the reconnect backoff and the           *)
(* HeartbeatStats they share (mobile.Run gives one tracker to all          *)
(* sessions).  The heartbeat goroutine of a session that has ended may     *)
(* still run when the next one begins, so sessions live in slots.          *)
(***************************************************************************)
EXTENDS Integers, FiniteSets

CONSTANTS
    Slots,         \* bound on the sessions whose goroutines overlap
    NoSlot,        \* no session yet
    CfgInitial,    \* reconnect_initial_backoff
    CfgMax,        \* reconnect_max_backoff
    Second,        \* the fallback of the first
    Minute,        \* the fallback of the second
    MaxFailures,   \* the failure counter stops here
    Window         \* samples of the HeartbeatStats

\* newReconnectBackoff
Initial == IF CfgInitial <= 0 THEN Second ELSE CfgInitial

MaxDelay == IF CfgMax <= 0 \/ CfgMax < Initial THEN Minute ELSE CfgMax

\* Stopping the counter is harmless where the delay is the maximum already.
ASSUME ClientAssumption ==
    /\ NoSlot \notin Slots /\ Slots # {} /\ IsFiniteSet(Slots)
    /\ CfgInitial \in Int /\ CfgMax \in Int
    /\ Second \in Nat \ {0} /\ Minute \in Nat \ {0}
    /\ MaxFailures \in Nat /\ Initial * 2^MaxFailures >= MaxDelay
    /\ Window \in Nat \ {0}

VARIABLES
    ctxDone,    \* the caller's context is cancelled: a signal, or mobile.Stop
    pc,         \* where runLoop and runSession are
    cur,        \* the slot of the last session
    up,         \* the yamux session of each slot is open
    cancelled,  \* its sessCtx has been cancelled
    hb,         \* where its heartbeat goroutine is
    failures,   \* reconnectBackoff.failures
    delay,      \* the last delay it gave
    stats       \* HeartbeatStats: samples, sent and lost

loop == <<ctxDone, pc, cur, failures, delay>>
sess == <<up, cancelled, hb>>
vars == <<loop, sess, stats>>

Init ==
    /\ ctxDone = FALSE
    /\ pc = "top"
    /\ cur = NoSlot
    /\ up = [s \in Slots |-> FALSE]
    /\ cancelled = [s \in Slots |-> FALSE]
    /\ hb = [s \in Slots |-> "off"]
    /\ failures = 0
    /\ delay = 0
    /\ stats = [samples |-> 0, sent |-> 0, lost |-> 0]

SessDone(s) == ctxDone \/ cancelled[s]

AtMost(m, n) == IF n > m THEN m ELSE n

-----------------------------------------------------------------------------
(* runLoop *)

\* reconnectBackoff.Next, in milliseconds, with its jitter of 50% to 100%.
NextDelay ==
    LET base == AtMost(MaxDelay, Initial * 2^failures) IN
    /\ \E d \in (base \div 2)..base : delay' = IF d < 1 THEN 1 ELSE d
    /\ failures' = AtMost(MaxFailures, failures + 1)

Exit ==
    /\ pc' = "exited"
    /\ UNCHANGED <<failures, delay>>

\* runLoop returns on context.Canceled and backs off after anything else.
Ended(canceled) ==
    \/ canceled /\ Exit
    \/ ~canceled /\ pc' = "backoff" /\ NextDelay

Top ==
    /\ pc = "top"
    /\ \/ ctxDone /\ Exit
       \/ ~ctxDone /\ pc' = "dial" /\ UNCHANGED <<failures, delay>>
    /\ UNCHANGED <<ctxDone, cur, sess, stats>>

BackoffEnds ==
    /\ pc = "backoff"
    /\ pc' = "top" \/ (ctxDone /\ pc' = "exited")
    /\ UNCHANGED <<ctxDone, cur, failures, delay, sess, stats>>

-----------------------------------------------------------------------------
(* runSession *)

\* dialServerTCP, the TLS handshake, yamux.Client and the register line.
DialServer ==
    /\ pc = "dial"
    /\ \E s \in Slots :
          /\ hb[s] = "off" /\ ~up[s]
          /\ cur' = s
          /\ up' = [up EXCEPT ![s] = TRUE]
          /\ cancelled' = [cancelled EXCEPT ![s] = FALSE]
    /\ pc' = "register"
    /\ UNCHANGED <<ctxDone, hb, failures, delay, stats>>

\* Any of them fails; only a cancelled caller makes the error context.Canceled.
DialFails ==
    /\ pc = "dial"
    /\ \/ Ended(FALSE)
       \/ ctxDone /\ Ended(TRUE)
    /\ UNCHANGED <<ctxDone, cur, sess, stats>>

\* Mutant of RegisterOK: the backoff is not reset.
RegisterOK_NoReset ==
    /\ pc = "register"
    /\ pc' = "accept"
    /\ hb' = [hb EXCEPT ![cur] = "wait"]
    /\ UNCHANGED <<ctxDone, cur, failures, delay, up, cancelled, stats>>

\* register_ack: the backoff starts anew, the heartbeat goroutine starts and
\* acceptLoop takes over.
RegisterOK ==
    /\ pc = "register"
    /\ pc' = "accept"
    /\ failures' = 0
    /\ hb' = [hb EXCEPT ![cur] = "wait"]
    /\ UNCHANGED <<ctxDone, cur, delay, up, cancelled, stats>>

\* Mutant of Defers: the session is left open.
Defers_KeepSession ==
    /\ cancelled' = [cancelled EXCEPT ![cur] = TRUE]
    /\ UNCHANGED up

\* What runSession defers.
Defers ==
    /\ up' = [up EXCEPT ![cur] = FALSE]
    /\ cancelled' = [cancelled EXCEPT ![cur] = TRUE]

\* No ack, not an ack, or a refusal.  Nothing but the session's end interrupts
\* the read: it does not look at the context.
RegisterFails ==
    /\ pc = "register"
    /\ Ended(FALSE)
    /\ Defers
    /\ UNCHANGED <<ctxDone, cur, hb, stats>>

\* AcceptStream fails once the session is closed; acceptLoop then returns
\* sessCtx.Err() if there is one, and runSession hands it on.
AcceptFails ==
    /\ pc = "accept" /\ ~up[cur]
    /\ Ended(SessDone(cur))
    /\ Defers
    /\ UNCHANGED <<ctxDone, cur, hb, stats>>

-----------------------------------------------------------------------------
(* heartbeatLoop, and the goroutine around it *)

Hb(s, from, to) == hb[s] = from /\ hb' = [hb EXCEPT ![s] = to]

AckLost == stats' = [stats EXCEPT !.lost = @ + 1]

\* HeartbeatStats.SnapshotForSend: the counters of a full window go out as a loss
\* rate, clamped to 1, and start again; the RTT samples stay.
SnapshotForSend ==
    stats' = IF stats.sent >= Window THEN [stats EXCEPT !.sent = 0, !.lost = 0] ELSE stats

HbTick(s) ==
    /\ Hb(s, "wait", "sent")
    /\ SnapshotForSend
    /\ UNCHANGED <<loop, up, cancelled>>

HbSent(s) ==
    /\ Hb(s, "sent", "write")
    /\ stats' = [stats EXCEPT !.sent = @ + 1]
    /\ UNCHANGED <<loop, up, cancelled>>

\* Mutant of HbWrite: a write error does not return, and the read of the ack
\* that follows fails as well.
HbWrite_FallsThrough(s) ==
    /\ \/ up[s] /\ Hb(s, "write", "ack") /\ UNCHANGED stats
       \/ ~up[s] /\ Hb(s, "write", "ack") /\ AckLost
    /\ UNCHANGED <<loop, up, cancelled>>

HbWrite(s) ==
    /\ \/ up[s] /\ Hb(s, "write", "ack") /\ UNCHANGED stats
       \/ ~up[s] /\ Hb(s, "write", "cancel") /\ AckLost
    /\ UNCHANGED <<loop, up, cancelled>>

\* Mutant of HbAck: the window of samples is not trimmed.
HbAck_NoTrim(s) ==
    /\ Hb(s, "ack", "wait")
    /\ \/ stats' = [stats EXCEPT !.samples = @ + 1]
       \/ AckLost
    /\ UNCHANGED <<loop, up, cancelled>>

\* An answer: the ack of this heartbeat, or something else, which counts as a
\* loss.  It may have been buffered before the session ended.
HbAck(s) ==
    /\ Hb(s, "ack", "wait")
    /\ \/ stats' = [stats EXCEPT !.samples = AtMost(Window, @ + 1)]
       \/ AckLost
    /\ UNCHANGED <<loop, up, cancelled>>

HbAckFails(s) ==
    /\ Hb(s, "ack", "cancel")
    /\ AckLost
    /\ UNCHANGED <<loop, up, cancelled>>

\* Mutant of HbDone: the loop looks at the caller's context only.
HbDone_CallerOnly(s) ==
    /\ ctxDone
    /\ Hb(s, "wait", "cancel")
    /\ UNCHANGED <<loop, up, cancelled, stats>>

HbDone(s) ==
    /\ SessDone(s)
    /\ Hb(s, "wait", "cancel")
    /\ UNCHANGED <<loop, up, cancelled, stats>>

HbCancel(s) ==
    /\ Hb(s, "cancel", "close")
    /\ cancelled' = [cancelled EXCEPT ![s] = TRUE]
    /\ UNCHANGED <<loop, up, stats>>

\* Mutant of HbClose: the goroutine ends without closing the session.
HbClose_Nothing(s) ==
    /\ Hb(s, "close", "off")
    /\ UNCHANGED <<loop, up, cancelled, stats>>

HbClose(s) ==
    /\ Hb(s, "close", "off")
    /\ up' = [up EXCEPT ![s] = FALSE]
    /\ UNCHANGED <<loop, cancelled, stats>>

-----------------------------------------------------------------------------
(* The caller and the network *)

StopClient ==
    /\ ~ctxDone
    /\ ctxDone' = TRUE
    /\ UNCHANGED <<pc, cur, failures, delay, sess, stats>>

\* The server closes the session, the network breaks, or yamux's keepalive
\* gives up on it.
Disconnect(s) ==
    /\ up[s]
    /\ up' = [up EXCEPT ![s] = FALSE]
    /\ UNCHANGED <<loop, cancelled, hb, stats>>

RunLoop ==
    \/ Top \/ BackoffEnds \/ DialServer \/ DialFails
    \/ RegisterOK \/ RegisterFails \/ AcceptFails

Goroutine(s) ==
    \/ HbSent(s) \/ HbWrite(s) \/ HbAck(s) \/ HbAckFails(s) \/ HbCancel(s) \/ HbClose(s)

Next ==
    \/ RunLoop
    \/ \E s \in Slots : HbTick(s) \/ HbDone(s) \/ Goroutine(s) \/ Disconnect(s)
    \/ StopClient

Spec == Init /\ [][Next]_vars

\* Goroutines run, dials end (they have a timeout) and a read ends: the server
\* answers every line, and yamux's keepalive closes a session whose server is
\* gone.  A select whose ctx.Done is ready takes it sooner or later; nobody is
\* obliged to stop the client or to break a session.
FairSpec ==
    /\ Spec
    /\ WF_vars(RunLoop)
    /\ \A s \in Slots : WF_vars(Goroutine(s)) /\ SF_vars(HbDone(s))

-----------------------------------------------------------------------------
(* Properties *)

\* The type invariant: the failure counter, the delay and the RTT samples stay within their bounds
\* (backoff.go, heartbeat.go).
TypeOK ==
    /\ ctxDone \in BOOLEAN
    /\ pc \in {"top", "dial", "register", "accept", "backoff", "exited"}
    /\ cur \in Slots \cup {NoSlot}
    /\ up \in [Slots -> BOOLEAN]
    /\ cancelled \in [Slots -> BOOLEAN]
    /\ hb \in [Slots -> {"off", "wait", "sent", "write", "ack", "cancel", "close"}]
    /\ failures \in 0..MaxFailures
    /\ delay \in 0..MaxDelay
    /\ stats \in [samples : 0..Window, sent : Nat, lost : Nat]

\* A client that is dialling, waiting or gone holds no session: whichever of
\* runSession and the heartbeat goroutine ends first, the session is closed
\* before the next one is opened, so the server never sees two of them.
NoSessionLeak ==
    \A s \in Slots : up[s] => s = cur /\ pc \in {"register", "accept"}

\* Heartbeats that are about to be counted, and those counted and not settled.
Pending == {s \in Slots : hb[s] = "sent"}
InFlight == {s \in Slots : hb[s] \in {"write", "ack"}}

\* "Sent must be called once per heartbeat the loop attempts to write"
\* (heartbeat.go:50), and every loss is one of those heartbeats: although the
\* goroutines of overlapping sessions count in one HeartbeatStats and any of
\* them resets it, the losses of a window exceed what was sent in it at most by
\* the heartbeats that other sessions had in flight at the reset, and no window
\* grows beyond its size by more than the sessions that overlap.
CountsCoverHeartbeats ==
    /\ stats.lost + Cardinality(InFlight) < stats.sent + Cardinality(Slots)
    /\ stats.sent + Cardinality(Pending) < Window + Cardinality(Slots)

\* "backoff resets after a successful registration" (README.md:67): the first
\* delay after a session that registered is at most the initial one.
RegistrationResetsBackoff ==
    [][pc = "accept" /\ pc' = "backoff" => delay' <= AtMost(MaxDelay, Initial)]_vars

\* A cancelled client returns, wherever the cancellation finds it: in the
\* heartbeat's read, in AcceptStream, in a backoff.
StopEndsRun == ctxDone ~> pc = "exited"

\* The heartbeat goroutine of a session that has ended ends too, even if
\* nobody stops the client.
OldHeartbeatsEnd ==
    \A s \in Slots : hb[s] # "off" /\ ~up[s] ~> hb[s] = "off"

\* When the heartbeat goroutine gives up, AcceptStream hears of it and the
\* session is left: the client never sits in a session that has no heartbeat.
HeartbeatLossEndsSession ==
    pc = "accept" /\ hb[cur] = "cancel" ~> pc # "accept"

\* "The device client reconnects automatically after any failure or dropped
\* session" (README.md:67): runLoop returns only if its caller cancelled it.
StopsOnlyWhenTold == pc = "exited" => ctxDone
=============================================================================

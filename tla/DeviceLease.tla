----------------------------- MODULE DeviceLease -----------------------------
(***************************************************************************)
(* What the lease table promises, without saying how.  The loans are a set *)
(* of records.  A device may be lent to a user only while nobody else has  *)
(* an unexpired loan of it; a user who takes a loan gives back the old one;*)
(* and only an expired loan is otherwise forgotten.                        *)
(***************************************************************************)
EXTENDS Integers

CONSTANTS Devices, Users, MinDuration, MaxDuration, MaxTime

VARIABLES
    now,     \* the clock
    loans    \* who has which device, until when

vars == <<now, loans>>

Active(l) == now < l.expires

Init ==
    /\ now = 0
    /\ loans = {}

Tick ==
    /\ now < MaxTime
    /\ now' = now + 1
    /\ UNCHANGED loans

\* User u takes device d for ttl.
Grant(u, d, ttl) ==
    /\ \A l \in loans : l.dev = d /\ l.user # u => ~Active(l)
    /\ loans' = {l \in loans : l.dev # d /\ l.user # u}
                \cup {[user |-> u, dev |-> d, expires |-> now + ttl]}
    /\ UNCHANGED now

\* Some of the expired loans are forgotten.
Forget ==
    /\ loans' \subseteq loans
    /\ \A l \in loans \ loans' : ~Active(l)
    /\ UNCHANGED now

Next ==
    \/ Tick
    \/ Forget
    \/ \E u \in Users, d \in Devices, ttl \in MinDuration..MaxDuration :
          Grant(u, d, ttl)

Spec == Init /\ [][Next]_vars

\* A device is never lent twice and nobody has two devices.
Exclusive ==
    \A l, m \in loans : (l.dev = m.dev \/ l.user = m.user) => l = m
=============================================================================

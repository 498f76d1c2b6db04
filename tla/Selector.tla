------------------------------ MODULE Selector ------------------------------
(***************************************************************************)
(* The device pool and the ScoredSelector of server/scheduler, as pure     *)
(* operators.  A device's live statistics are a record; the zero record    *)
(* stands for a device the pool has never heard of (Snapshot gives such a  *)
(* device a zero Candidate, pool.go:139-144).  The network type is dropped:*)
(* the selector never reads it.                                            *)
(***************************************************************************)
EXTENDS Integers, FiniteSets

CONSTANTS
    Countries,       \* country codes, NoCountry among them
    LossPenaltyMs,   \* extra milliseconds for a loss rate of 1
    LossScale,       \* loss rates are integers in 0..LossScale
    DefaultRTTms,    \* the RTT assumed for a device without statistics
    StaleAfter       \* a device silent for longer than this is dropped; 0 = off

NoCountry == ""   \* any country, or not known

ASSUME SelectorAssumption ==
    /\ NoCountry \in Countries
    /\ LossPenaltyMs \in Nat
    /\ LossScale \in Nat \ {0}
    /\ DefaultRTTms \in Nat
    /\ StaleAfter \in Nat

Nil == -1        \* a nil *int64 / *float64 of a DeviceUpdate
ZeroTime == -1   \* time.Time{}: before every reading of the clock

DeviceStats == [country: Countries, avgRTT: Nat, lossRate: Nat,
                hasStats: BOOLEAN, lastSeen: Nat \cup {ZeroTime}]

ZeroStats == [country |-> NoCountry, avgRTT |-> 0, lossRate |-> 0,
              hasStats |-> FALSE, lastSeen |-> ZeroTime]

DeviceUpdate == [country: Countries, avgRTT: Nat \cup {Nil},
                 lossRate: Nat \cup {Nil}, seenAt: Nat \cup {ZeroTime}]

\* DevicePool.Update: what the heartbeat u makes of the entry cur at time now.
PoolUpdate(cur, u, now) ==
    [country  |-> IF u.country # NoCountry THEN u.country ELSE cur.country,
     avgRTT   |-> IF u.avgRTT # Nil THEN u.avgRTT ELSE cur.avgRTT,
     lossRate |-> IF u.lossRate # Nil THEN u.lossRate ELSE cur.lossRate,
     hasStats |-> cur.hasStats \/ u.avgRTT # Nil \/ u.lossRate # Nil,
     lastSeen |-> IF u.seenAt # ZeroTime THEN u.seenAt ELSE now]

\* Mutant of PoolSnapshot: the online filter is dropped.
PoolSnapshot_All(pool, online) == pool

\* DevicePool.Snapshot(online): one candidate for every online device.
PoolSnapshot(pool, online) == [d \in online |-> pool[d]]

\* The filter of ScoredSelector.Pick: right country, fresh, not leased to
\* another user.
Stale(c, now) ==
    /\ StaleAfter > 0
    /\ c.lastSeen # ZeroTime
    /\ now - c.lastSeen > StaleAfter

Keep(country, cand, leasedByOthers, now) ==
    {d \in DOMAIN cand :
        /\ country # NoCountry => cand[d].country = country
        /\ ~Stale(cand[d], now)
        /\ d \notin leasedByOthers}

\* The score of a candidate, in units of 1/LossScale ms so that it is an
\* integer.
Score(c) == LossScale * (IF c.hasStats THEN c.avgRTT ELSE DefaultRTTms)
            + LossPenaltyMs * c.lossRate

\* The order of sort.Slice: score first, device_id to break a tie.
Less(cand, d, e) ==
    \/ Score(cand[d]) < Score(cand[e])
    \/ Score(cand[d]) = Score(cand[e]) /\ d < e

\* keep[0] after the sort: the devices no other kept device sorts before.
\* Empty when Pick returns ErrNoDevice.
SelectorPick(country, cand, leasedByOthers, now) ==
    LET keep == Keep(country, cand, leasedByOthers, now)
    IN  {d \in keep : \A e \in keep : ~Less(cand, e, d)}
=============================================================================

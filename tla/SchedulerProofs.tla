--------------------------- MODULE SchedulerProofs ---------------------------
(***************************************************************************)
(* Proofs about the lease table for any number of requests, users and      *)
(* devices.  IInv is an inductive invariant of Scheduler; relative to it,  *)
(* handles follow requests, a request gets a device it has seen, reference *)
(* counts are accurate, and the table implements DeviceLease.              *)
(***************************************************************************)
EXTENDS Scheduler, FiniteSetTheorems, TLAPS

\* IndexesAgree as a predicate of the three maps, so that it can be stated of
\* the next state without priming.
Agree(bu, bd, ls) ==
    /\ \A u \in Users : bu[u] # NoLease =>
          ls[bu[u]] \in LeaseRecord /\ ls[bu[u]].user = u /\ bd[ls[bu[u]].dev] = bu[u]
    /\ \A d \in Devices : bd[d] # NoLease =>
          ls[bd[d]] \in LeaseRecord /\ ls[bd[d]].dev = d /\ bu[ls[bd[d]].user] = bd[d]

\* The types of the two indexes.
Indexes(bu, bd) ==
    /\ bu \in [Users -> Picks \cup {NoLease}]
    /\ bd \in [Devices -> Picks \cup {NoLease}]

\* evictLocked, applied to any set of leases, keeps the two indexes
\* consistent and never makes an entry point to another lease (lease.go:175).
LEMMA EvictKeepsAgreement ==
    ASSUME TypeOK, IndexesAgree, NEW S
    PROVE  /\ Indexes(EvictUser(S), EvictDev(S))
           /\ Agree(EvictUser(S), EvictDev(S), lease)
           /\ \A u \in Users : EvictUser(S)[u] \in {byUser[u], NoLease}
           /\ \A d \in Devices : EvictDev(S)[d] \in {byDev[d], NoLease}
           /\ \A u \in Users : byUser[u] \in S => EvictUser(S)[u] = NoLease
           /\ \A d \in Devices : byDev[d] \in S => EvictDev(S)[d] = NoLease
<1>1. Indexes(EvictUser(S), EvictDev(S))
  BY DEF TypeOK, Indexes, EvictUser, EvictDev
<1>2. /\ \A u \in Users : EvictUser(S)[u] \in {byUser[u], NoLease}
      /\ \A d \in Devices : EvictDev(S)[d] \in {byDev[d], NoLease}
  BY DEF EvictUser, EvictDev
<1>3. /\ \A u \in Users : byUser[u] \in S => EvictUser(S)[u] = NoLease
      /\ \A d \in Devices : byDev[d] \in S => EvictDev(S)[d] = NoLease
  BY DEF IndexesAgree, EvictUser, EvictDev
<1>4. Agree(EvictUser(S), EvictDev(S), lease)
  BY DEF TypeOK, IndexesAgree, Agree, EvictUser, EvictDev, LeaseRecord
<1> QED BY <1>1, <1>2, <1>3, <1>4

\* The initial state satisfies the inductive invariant.
LEMMA InitEstablishesIInv == Init => IInv
<1> SUFFICES ASSUME Init PROVE IInv
  OBVIOUS
<1> USE SchedulerAssumption
<1>1. TypeOK
  <2>1. ZeroStats \in DeviceStats
    BY SelectorAssumption DEF ZeroStats, DeviceStats
  <2>2. cand = [p \in Picks |-> EmptyCand] /\ DOMAIN EmptyCand = {}
    BY DEF Init, EmptyCand
  <2>3. /\ DOMAIN cand = Picks
        /\ \A p \in Picks : /\ DOMAIN cand[p] \subseteq Devices
                            /\ \A d \in DOMAIN cand[p] : cand[p][d] \in DeviceStats
    BY <2>2
  <2> QED BY <2>1, <2>3 DEF Init, TypeOK, Steps
<1>2. IndexesAgree /\ LocalsReady /\ FreshUntilAcquire
  BY DEF Init, IndexesAgree, LocalsReady, FreshUntilAcquire, PreAcquire
<1> QED BY <1>1, <1>2 DEF IInv

\* Pick up to the lookup of the user's lease: only the locals of p change.
LEMMA OnlineSetStep ==
    ASSUME IInv, NEW p \in Picks, OnlineSet(p) PROVE IInv'
<1> USE SchedulerAssumption DEF IInv
<1>1. PICK u \in Users, c \in Wanted, mins \in Minutes :
        tok' = [tok EXCEPT ![p] = [user |-> u, country |-> c,
                                   ttl |-> ClampDuration(mins)]]
  BY DEF OnlineSet
<1>2. ClampDuration(mins) \in MinDuration..MaxDuration
  <2>1. Wrapped(mins) \in Int
    BY DEF Wrapped
  <2> QED BY <2>1 DEF ClampDuration
<1>3. tok'[p] \in Token /\ tok' \in [Picks -> Token \cup {NoToken}]
  BY <1>1, <1>2 DEF TypeOK, Token
<1>4. TypeOK'
  BY <1>3 DEF TypeOK, OnlineSet, Goto, Steps, env, table
<1>5. IndexesAgree'
  BY DEF IndexesAgree, OnlineSet, table
<1>6. LocalsReady'
  BY <1>1, <1>3 DEF LocalsReady, TypeOK, OnlineSet, Goto, table
<1>7. FreshUntilAcquire'
  BY DEF FreshUntilAcquire, TypeOK, OnlineSet, Goto, table, PreAcquire
<1> QED BY <1>4, <1>5, <1>6, <1>7

\* GetActive may evict the user's expired lease, from both indexes together, and
\* remembers a lease that is in the table, hence allocated (lease.go:64-81).
LEMMA GetActiveStep ==
    ASSUME IInv, NEW p \in Picks, GetActive(p) PROVE IInv'
<1> USE SchedulerAssumption DEF IInv
<1> DEFINE l == byUser[tok[p].user]
           expired == {x \in {l} \ {NoLease} : Expired(x)}
<1>1. /\ byUser' = EvictUser(expired)
      /\ byDev' = EvictDev(expired)
      /\ lease' = lease
      /\ ref'[p] \in {l, NoLease}
      /\ ref'[p] = NoLease => pc'[p] = "snapshot"
      /\ pc' = [pc EXCEPT ![p] = pc'[p]]
      /\ pc'[p] \in {"acquireRef", "snapshot"}
      /\ ref' = [ref EXCEPT ![p] = ref'[p]]
  BY DEF GetActive, Goto, TypeOK
<1>2. /\ Indexes(byUser', byDev')
      /\ Agree(byUser', byDev', lease)
      /\ \A u \in Users : byUser'[u] \in {byUser[u], NoLease}
      /\ \A d \in Devices : byDev'[d] \in {byDev[d], NoLease}
  BY <1>1, EvictKeepsAgreement
<1>3. tok[p] \in Token /\ tok[p].user \in Users /\ pc[p] = "getActive"
  BY DEF LocalsReady, GetActive, Token
<1>4. l \in Picks \cup {NoLease} /\ (l \in Picks => lease[l] \in LeaseRecord)
  BY <1>3 DEF TypeOK, IndexesAgree
<1>5. TypeOK'
  <2>1. /\ byUser' \in [Users -> Picks \cup {NoLease}]
        /\ byDev' \in [Devices -> Picks \cup {NoLease}]
    BY <1>2 DEF Indexes
  <2>2. ref' \in [Picks -> Picks \cup {NoLease}]
    BY <1>1, <1>4 DEF TypeOK
  <2>3. pc' \in [Picks -> Steps]
    BY <1>1 DEF TypeOK, Steps
  <2> QED BY <1>1, <2>1, <2>2, <2>3 DEF TypeOK, GetActive, env
<1>6. IndexesAgree'
  BY <1>1, <1>2 DEF IndexesAgree, Agree
<1>7. LocalsReady'
  BY <1>1, <1>3, <1>4 DEF LocalsReady, TypeOK, GetActive
<1>8. FreshUntilAcquire'
  BY <1>1, <1>2, <1>3, <1>4 DEF FreshUntilAcquire, TypeOK, GetActive, PreAcquire
<1> QED BY <1>5, <1>6, <1>7, <1>8

\* A step that only counts references leaves the indexes consistent.
LEMMA CountingKeepsAgreement ==
    ASSUME TypeOK, IndexesAgree, byUser' = byUser, byDev' = byDev,
           \A q \in Picks : lease[q] \in LeaseRecord =>
                /\ lease'[q] \in LeaseRecord
                /\ lease'[q].user = lease[q].user
                /\ lease'[q].dev = lease[q].dev
    PROVE  IndexesAgree'
<1>1. ASSUME NEW u \in Users, byUser[u] # NoLease
      PROVE  /\ lease'[byUser[u]] \in LeaseRecord
             /\ lease'[byUser[u]].user = u
             /\ byDev[lease'[byUser[u]].dev] = byUser[u]
  BY <1>1 DEF TypeOK, IndexesAgree
<1>2. ASSUME NEW d \in Devices, byDev[d] # NoLease
      PROVE  /\ lease'[byDev[d]] \in LeaseRecord
             /\ lease'[byDev[d]].dev = d
             /\ byUser[lease'[byDev[d]].user] = byDev[d]
  BY <1>2 DEF TypeOK, IndexesAgree
<1> QED BY <1>1, <1>2 DEF IndexesAgree

\* AcquireRef counts one more reference on the remembered lease, or hands out
\* the no-op handle; the table keeps its shape (lease.go:83-96).
LEMMA AcquireRefStep ==
    ASSUME IInv, NEW p \in Picks, AcquireRef(p) PROVE IInv'
<1> USE SchedulerAssumption DEF IInv
<1> DEFINE l == ref[p]
<1>1. l \in Picks /\ lease[l] \in LeaseRecord
  BY DEF LocalsReady, AcquireRef
<1>2. /\ lease' \in [Picks -> LeaseRecord \cup {NoRecord}]
      /\ \A q \in Picks : q # l => lease'[q] = lease[q]
      /\ lease'[l] \in LeaseRecord
      /\ lease'[l].user = lease[l].user /\ lease'[l].dev = lease[l].dev
  BY <1>1 DEF AcquireRef, TypeOK, LeaseRecord
<1>3. TypeOK'
  <2>1. handle' \in [Picks -> Picks \cup {NoLease, Noop}]
    BY <1>1 DEF TypeOK, AcquireRef
  <2>2. dev' \in [Picks -> Devices \cup {NoDevice}]
    BY <1>1 DEF TypeOK, AcquireRef, LeaseRecord
  <2>3. pc' \in [Picks -> Steps]
    BY DEF TypeOK, AcquireRef, Goto, Steps
  <2> QED BY <1>2, <2>1, <2>2, <2>3 DEF TypeOK, AcquireRef, env
<1>4. IndexesAgree'
  BY <1>1, <1>2, CountingKeepsAgreement DEF AcquireRef
<1>5. LocalsReady'
  BY <1>1, <1>2 DEF LocalsReady, TypeOK, AcquireRef, Goto
<1>6. FreshUntilAcquire'
  BY <1>1, <1>2 DEF FreshUntilAcquire, TypeOK, AcquireRef, Goto, PreAcquire
<1> QED BY <1>3, <1>4, <1>5, <1>6

\* Steps that touch only the locals of p and move it along.
LEMMA SnapshotStep ==
    ASSUME IInv, NEW p \in Picks, Snapshot(p) PROVE IInv'
<1> USE SchedulerAssumption DEF IInv
<1>1. /\ DOMAIN cand' = Picks
      /\ \A q \in Picks : /\ DOMAIN cand'[q] \subseteq Devices
                          /\ \A d \in DOMAIN cand'[q] : cand'[q][d] \in DeviceStats
  <2>1. onl[p] \subseteq Devices
    BY DEF TypeOK
  <2>2. /\ DOMAIN PoolSnapshot(pool, onl[p]) = onl[p]
        /\ \A d \in onl[p] : PoolSnapshot(pool, onl[p])[d] \in DeviceStats
    BY <2>1 DEF PoolSnapshot, TypeOK
  <2>3. cand' = [cand EXCEPT ![p] = PoolSnapshot(pool, onl[p])]
    BY DEF Snapshot
  <2>4. DOMAIN cand = Picks
    BY DEF TypeOK
  <2>5. DOMAIN cand' = Picks
    BY <2>3, <2>4
  <2>6. cand'[p] = PoolSnapshot(pool, onl[p])
    BY <2>3, <2>4
  <2>7. \A q \in Picks : q # p => cand'[q] = cand[q]
    BY <2>3, <2>4
  <2> QED BY <2>1, <2>2, <2>5, <2>6, <2>7 DEF TypeOK
<1>2. TypeOK'
  BY <1>1 DEF TypeOK, Snapshot, Goto, Steps, env, table
<1>3. IndexesAgree'
  BY DEF IndexesAgree, Snapshot, table
<1>4. LocalsReady'
  BY DEF LocalsReady, TypeOK, Snapshot, Goto, table
<1>5. FreshUntilAcquire'
  BY DEF FreshUntilAcquire, TypeOK, Snapshot, Goto, table, PreAcquire
<1> QED BY <1>2, <1>3, <1>4, <1>5

\* The selector's answer is one of the devices in p's snapshot, so Acquire is
\* given a device (scheduler.go:158-166).
LEMMA SelectStep ==
    ASSUME IInv, NEW p \in Picks, Select(p) PROVE IInv'
<1> USE SchedulerAssumption DEF IInv
<1>1. SelectorPick(tok[p].country, cand[p], held[p], now) \subseteq Devices
  BY DEF SelectorPick, Keep, TypeOK
<1>2. \/ pc' = [pc EXCEPT ![p] = "failed"] /\ dev' = dev
      \/ /\ pc' = [pc EXCEPT ![p] = "acquire"]
         /\ \E d \in Devices : dev' = [dev EXCEPT ![p] = d]
  BY <1>1 DEF Select, Goto
<1>3. TypeOK'
  BY <1>2 DEF TypeOK, Select, Steps, env, table
<1>4. IndexesAgree'
  BY DEF IndexesAgree, Select, table
<1>5. LocalsReady'
  BY <1>2 DEF LocalsReady, TypeOK, Select, table
<1>6. FreshUntilAcquire'
  BY <1>2 DEF FreshUntilAcquire, TypeOK, Select, table, PreAcquire
<1> QED BY <1>3, <1>4, <1>5, <1>6

\* ErrDeviceTaken changes nothing but where p goes on (scheduler.go:168-190).
LEMMA AcquireTakenStep ==
    ASSUME IInv, NEW p \in Picks, AcquireTaken(p) PROVE IInv'
<1> USE SchedulerAssumption DEF IInv
<1>1. TypeOK'
  BY DEF TypeOK, AcquireTaken, Goto, Steps, env, table
<1>2. IndexesAgree'
  BY DEF IndexesAgree, AcquireTaken, table
<1>3. LocalsReady'
  BY DEF LocalsReady, TypeOK, AcquireTaken, Goto, table
<1>4. FreshUntilAcquire'
  BY DEF FreshUntilAcquire, TypeOK, AcquireTaken, Goto, table, PreAcquire
<1> QED BY <1>1, <1>2, <1>3, <1>4

\* A username that does not parse and a dial that succeeds move only p's pc.
LEMMA BadUsernameOrDialOKStep ==
    ASSUME IInv, NEW p \in Picks, BadUsername(p) \/ DialOK(p) PROVE IInv'
<1> USE SchedulerAssumption DEF IInv
<1>1. /\ \/ pc[p] = "idle" /\ pc' = [pc EXCEPT ![p] = "failed"]
         \/ pc[p] = "dialing" /\ pc' = [pc EXCEPT ![p] = "open"]
      /\ UNCHANGED <<env, table, sweeping, locals, handle>>
  BY DEF BadUsername, DialOK, Goto
<1>2. TypeOK'
  BY <1>1 DEF TypeOK, Steps, env, table, locals
<1>3. IndexesAgree'
  BY <1>1 DEF IndexesAgree, table
<1>4. LocalsReady'
  BY <1>1 DEF LocalsReady, TypeOK, table, locals
<1>5. FreshUntilAcquire'
  BY <1>1 DEF FreshUntilAcquire, TypeOK, table, locals, PreAcquire
<1> QED BY <1>2, <1>3, <1>4, <1>5

\* Closing a handle only counts the lease down.
LEMMA CloseStep ==
    ASSUME IInv, NEW p \in Picks, DialError(p) \/ CloseConn(p) PROVE IInv'
<1> USE SchedulerAssumption DEF IInv
<1>1. /\ \E s \in {"failed", "closed"} : pc' = [pc EXCEPT ![p] = s]
      /\ UNCHANGED <<env, byUser, byDev, sweeping, locals>>
      /\ lease' = Released(p)
      /\ handle' = [handle EXCEPT ![p] = NoLease]
      /\ pc[p] \in {"dialing", "open"}
  BY DEF DialError, CloseConn, CloseHandle, Goto, PreAcquire
<1>2. /\ lease' \in [Picks -> LeaseRecord \cup {NoRecord}]
      /\ \A q \in Picks : lease[q] \in LeaseRecord =>
            /\ lease'[q] \in LeaseRecord
            /\ lease'[q].user = lease[q].user
            /\ lease'[q].dev = lease[q].dev
      /\ \A q \in Picks : handle[p] # q => lease'[q] = lease[q]
  <2>1. CASE handle[p] \notin Picks
    BY <1>1, <2>1 DEF Released, TypeOK
  <2>2. CASE handle[p] \in Picks
    <3> DEFINE l == handle[p]
               n == IF lease[l].refcount > 0 THEN lease[l].refcount - 1
                    ELSE lease[l].refcount
    <3>1. lease[l] \in LeaseRecord
      BY <2>2 DEF LocalsReady
    <3>2. n \in Nat
      BY <3>1 DEF LeaseRecord
    <3>3. lease' = [lease EXCEPT ![l] = [lease[l] EXCEPT !.refcount = n]]
      BY <1>1, <2>2 DEF Released
    <3>4. [lease[l] EXCEPT !.refcount = n] \in LeaseRecord
      BY <3>1, <3>2 DEF LeaseRecord
    <3> HIDE DEF n
    <3>5. /\ [lease[l] EXCEPT !.refcount = n].user = lease[l].user
          /\ [lease[l] EXCEPT !.refcount = n].dev = lease[l].dev
      BY <3>1 DEF LeaseRecord
    <3> QED BY <2>2, <3>3, <3>4, <3>5 DEF TypeOK
  <2> QED BY <2>1, <2>2
<1>3. TypeOK'
  <2>1. pc' \in [Picks -> Steps] /\ handle' \in [Picks -> Picks \cup {NoLease, Noop}]
    BY <1>1 DEF TypeOK, Steps
  <2>2. UNCHANGED <<now, online, flaps, pool, byUser, byDev, sweeping, tok, onl, ref,
                    cand, held, attempt, dev>>
    BY <1>1 DEF env, locals
  <2> QED BY <1>2, <2>1, <2>2 DEF TypeOK
<1>4. IndexesAgree'
  BY <1>1, <1>2, CountingKeepsAgreement
<1>5. LocalsReady'
  BY <1>1, <1>2 DEF LocalsReady, TypeOK, locals
<1>6. FreshUntilAcquire'
  BY <1>1, <1>2 DEF FreshUntilAcquire, TypeOK, locals, PreAcquire
<1> QED BY <1>3, <1>4, <1>5, <1>6

\* Steps that evict leases: entries disappear from both indexes together.
LEMMA HeldDeviceIDsStep ==
    ASSUME IInv, NEW p \in Picks, HeldDeviceIDs(p) PROVE IInv'
<1> USE SchedulerAssumption DEF IInv
<1>1. /\ Indexes(byUser', byDev')
      /\ Agree(byUser', byDev', lease)
      /\ \A u \in Users : byUser'[u] \in {byUser[u], NoLease}
      /\ \A d \in Devices : byDev'[d] \in {byDev[d], NoLease}
  BY EvictKeepsAgreement DEF HeldDeviceIDs
<1>2. held' \in [Picks -> SUBSET Devices]
  <2> DEFINE H == {d \in Devices : /\ byDev[d] # NoLease
                                   /\ ~Expired(byDev[d])
                                   /\ lease[byDev[d]].user # tok[p].user}
  <2>1. H \subseteq Devices /\ held' = [held EXCEPT ![p] = H]
    BY DEF HeldDeviceIDs
  <2> HIDE DEF H
  <2> QED BY <2>1 DEF TypeOK
<1>2a. pc' \in [Picks -> Steps]
  BY DEF TypeOK, HeldDeviceIDs, Goto, Steps
<1>3. TypeOK'
  BY <1>1, <1>2, <1>2a DEF TypeOK, HeldDeviceIDs, env, Indexes
<1>4. IndexesAgree'
  BY <1>1 DEF IndexesAgree, Agree, HeldDeviceIDs
<1>5. LocalsReady'
  BY DEF LocalsReady, TypeOK, HeldDeviceIDs, Goto
<1>6. FreshUntilAcquire'
  BY <1>1 DEF FreshUntilAcquire, TypeOK, HeldDeviceIDs, Goto, PreAcquire
<1> QED BY <1>3, <1>4, <1>5, <1>6

\* Sweep evicts the expired leases of all users (lease.go:151-165).
LEMMA SweepStep == ASSUME IInv, Sweep PROVE IInv'
<1> USE SchedulerAssumption DEF IInv
<1>1. /\ Indexes(byUser', byDev')
      /\ Agree(byUser', byDev', lease)
      /\ \A u \in Users : byUser'[u] \in {byUser[u], NoLease}
      /\ \A d \in Devices : byDev'[d] \in {byDev[d], NoLease}
  BY EvictKeepsAgreement DEF Sweep
<1>2. TypeOK'
  BY <1>1 DEF TypeOK, Sweep, env, locals, Indexes
<1>3. IndexesAgree'
  BY <1>1 DEF IndexesAgree, Agree, Sweep
<1>4. LocalsReady' /\ FreshUntilAcquire'
  BY <1>1 DEF LocalsReady, FreshUntilAcquire, TypeOK, Sweep, locals, PreAcquire
<1> QED BY <1>2, <1>3, <1>4

\* Acquire installs the new lease under both indexes.  What else held the
\* device has expired and is evicted, and so is the user's old lease; hence no
\* remaining entry of one index refers to the device or the user.
LEMMA AcquireStep ==
    ASSUME IInv, NEW p \in Picks, Acquire(p) PROVE IInv'
<1> USE SchedulerAssumption DEF IInv
<1> DEFINE u == tok[p].user
           d == dev[p]
           expired == {l \in {byDev[d]} \ {NoLease} : Expired(l)}
           old == {byUser[u]} \ {NoLease}
           S == expired \cup old
           new == [user |-> u, dev |-> d, expires |-> now + tok[p].ttl,
                   refcount |-> 1]
<1>1. /\ pc[p] = "acquire"
      /\ ~Taken(p)
      /\ byUser' = [EvictUser(S) EXCEPT ![u] = p]
      /\ byDev' = [EvictDev(S) EXCEPT ![d] = p]
      /\ lease' = [lease EXCEPT ![p] = new]
      /\ handle' = [handle EXCEPT ![p] = p]
      /\ pc' = [pc EXCEPT ![p] = "dialing"]
      /\ UNCHANGED <<env, sweeping, locals>>
  BY DEF Acquire, Goto
<1>2. tok[p] \in Token /\ u \in Users /\ d \in Devices
  BY <1>1 DEF LocalsReady, Token
<1>3. new \in LeaseRecord /\ new.user = u /\ new.dev = d
  <2>1. now \in Nat /\ tok[p].ttl \in Nat
    BY <1>2 DEF TypeOK, Token
  <2> QED BY <1>2, <2>1 DEF LeaseRecord
<1>4. /\ Indexes(EvictUser(S), EvictDev(S))
      /\ Agree(EvictUser(S), EvictDev(S), lease)
      /\ \A x \in Users : EvictUser(S)[x] \in {byUser[x], NoLease}
      /\ \A e \in Devices : EvictDev(S)[e] \in {byDev[e], NoLease}
      /\ \A x \in Users : byUser[x] \in S => EvictUser(S)[x] = NoLease
      /\ \A e \in Devices : byDev[e] \in S => EvictDev(S)[e] = NoLease
  <2> HIDE DEF S
  <2> QED BY EvictKeepsAgreement
<1>5. /\ \A x \in Users : byUser[x] # p
      /\ \A e \in Devices : byDev[e] # p
      /\ \A q \in Picks : ref[q] # p /\ handle[q] # p
  BY <1>1 DEF FreshUntilAcquire, PreAcquire
<1>6. ASSUME NEW x \in Users, x # u, EvictUser(S)[x] # NoLease
      PROVE  lease[EvictUser(S)[x]].dev # d
  <2>1. EvictUser(S)[x] = byUser[x] /\ byUser[x] \notin S
    BY <1>4, <1>6
  <2>2. /\ lease[byUser[x]].user = x
        /\ byDev[lease[byUser[x]].dev] = byUser[x]
    BY <1>6, <2>1 DEF IndexesAgree
  <2>3. ASSUME lease[byUser[x]].dev = d PROVE FALSE
    <3>1. byDev[d] = byUser[x] /\ byDev[d] # NoLease
      BY <1>6, <2>1, <2>2, <2>3
    <3>2. Expired(byDev[d])
      BY <1>1, <1>6, <2>2, <3>1 DEF Taken
    <3> QED BY <2>1, <3>1, <3>2
  <2> QED BY <2>1, <2>3
<1>7. ASSUME NEW e \in Devices, e # d, EvictDev(S)[e] # NoLease
      PROVE  lease[EvictDev(S)[e]].user # u
  <2>1. EvictDev(S)[e] = byDev[e] /\ byDev[e] \notin S
    BY <1>4, <1>7
  <2>2. byUser[lease[byDev[e]].user] = byDev[e]
    BY <1>7, <2>1 DEF IndexesAgree
  <2> QED BY <1>7, <2>1, <2>2
<1> HIDE DEF u, d, expired, old, S, new
<1>8. /\ byUser' \in [Users -> Picks \cup {NoLease}]
      /\ byDev' \in [Devices -> Picks \cup {NoLease}]
  BY <1>1, <1>2, <1>4 DEF Indexes
<1>9. lease' \in [Picks -> LeaseRecord \cup {NoRecord}]
      /\ lease'[p] = new /\ \A q \in Picks : q # p => lease'[q] = lease[q]
  BY <1>1, <1>3 DEF TypeOK
<1>10. /\ byUser'[u] = p /\ byDev'[d] = p
       /\ \A x \in Users : x # u => byUser'[x] = EvictUser(S)[x]
       /\ \A e \in Devices : e # d => byDev'[e] = EvictDev(S)[e]
  BY <1>1, <1>2, <1>4 DEF Indexes
<1>11. TypeOK'
  <2>1. pc' \in [Picks -> Steps] /\ handle' \in [Picks -> Picks \cup {NoLease, Noop}]
    BY <1>1 DEF TypeOK, Steps
  <2> QED BY <1>1, <1>8, <1>9, <2>1 DEF TypeOK, env, locals
<1>12. IndexesAgree'
  <2>1. ASSUME NEW x \in Users, byUser'[x] # NoLease
        PROVE  /\ lease'[byUser'[x]] \in LeaseRecord
               /\ lease'[byUser'[x]].user = x
               /\ byDev'[lease'[byUser'[x]].dev] = byUser'[x]
    <3>1. CASE x = u
      BY <1>3, <1>9, <1>10, <3>1
    <3>2. CASE x # u
      <4> DEFINE q == EvictUser(S)[x]
      <4>1. byUser'[x] = q /\ q # NoLease /\ q \in Picks /\ q # p
        BY <1>4, <1>5, <1>10, <2>1, <3>2 DEF Indexes
      <4>2. lease[q] \in LeaseRecord /\ lease[q].user = x /\ EvictDev(S)[lease[q].dev] = q
        BY <1>4, <4>1 DEF Agree
      <4>3. lease[q].dev \in Devices /\ lease[q].dev # d
        BY <1>6, <3>2, <4>1, <4>2 DEF LeaseRecord
      <4> HIDE DEF q
      <4> QED BY <1>9, <1>10, <4>1, <4>2, <4>3
    <3> QED BY <3>1, <3>2
  <2>2. ASSUME NEW e \in Devices, byDev'[e] # NoLease
        PROVE  /\ lease'[byDev'[e]] \in LeaseRecord
               /\ lease'[byDev'[e]].dev = e
               /\ byUser'[lease'[byDev'[e]].user] = byDev'[e]
    <3>1. CASE e = d
      BY <1>3, <1>9, <1>10, <3>1
    <3>2. CASE e # d
      <4> DEFINE q == EvictDev(S)[e]
      <4>1. byDev'[e] = q /\ q # NoLease /\ q \in Picks /\ q # p
        BY <1>4, <1>5, <1>10, <2>2, <3>2 DEF Indexes
      <4>2. lease[q] \in LeaseRecord /\ lease[q].dev = e /\ EvictUser(S)[lease[q].user] = q
        BY <1>4, <4>1 DEF Agree
      <4>3. lease[q].user \in Users /\ lease[q].user # u
        BY <1>7, <3>2, <4>1, <4>2 DEF LeaseRecord
      <4> HIDE DEF q
      <4> QED BY <1>9, <1>10, <4>1, <4>2, <4>3
    <3> QED BY <3>1, <3>2
  <2> QED BY <2>1, <2>2 DEF IndexesAgree
<1>13. LocalsReady'
  BY <1>1, <1>2, <1>3, <1>5, <1>9 DEF LocalsReady, TypeOK, locals
<1>14. FreshUntilAcquire'
  <2>1. ASSUME NEW q \in Picks, pc'[q] \in PreAcquire
        PROVE  /\ q # p /\ pc[q] \in PreAcquire
               /\ \A x \in Users : byUser'[x] # q
               /\ \A e \in Devices : byDev'[e] # q
    <3>1. q # p /\ pc[q] \in PreAcquire
      BY <1>1, <2>1 DEF TypeOK, PreAcquire
    <3>2. /\ \A x \in Users : byUser[x] # q
          /\ \A e \in Devices : byDev[e] # q
      BY <3>1 DEF FreshUntilAcquire
    <3> QED BY <1>2, <1>4, <1>10, <3>1, <3>2
  <2>2. \A q, r \in Picks : q # p => (handle'[r] = q => handle[r] = q)
    BY <1>1 DEF TypeOK
  <2> QED BY <1>1, <1>9, <2>1, <2>2 DEF FreshUntilAcquire, locals
<1> QED BY <1>11, <1>12, <1>13, <1>14

\* Everything else leaves the lease table and the requests alone.
LEMMA EnvironmentStep ==
    ASSUME IInv,
           Stop \/ Tick \/ \E d \in Devices : DeviceChange(d) \/ Heartbeat(d)
    PROVE  IInv'
<1> USE SchedulerAssumption DEF IInv
<1>1. ASSUME NEW d \in Devices, Heartbeat(d) PROVE pool' \in [Devices -> DeviceStats]
  <2>1. PICK u \in Heartbeats : pool' = [pool EXCEPT ![d] = PoolUpdate(pool[d], u, now)]
    BY <1>1 DEF Heartbeat
  <2>2. pool[d] \in DeviceStats /\ u \in DeviceUpdate /\ now \in Nat
    BY DEF TypeOK
  <2>3. PoolUpdate(pool[d], u, now) \in DeviceStats
    BY <2>2 DEF PoolUpdate, DeviceStats, DeviceUpdate, Nil, ZeroTime
  <2> QED BY <2>1, <2>3 DEF TypeOK
<1>2. UNCHANGED <<table, pc, locals, handle>>
  BY DEF Stop, Tick, DeviceChange, Heartbeat
<1>3. TypeOK'
  <2>1. /\ now' \in 0..MaxTime /\ flaps' \in 0..MaxFlaps
        /\ sweeping' \in BOOLEAN /\ online' \subseteq Devices
    <3>1. CASE Stop
      BY <3>1 DEF TypeOK, Stop, env
    <3>2. CASE Tick
      BY <3>2 DEF TypeOK, Tick
    <3>3. ASSUME NEW d \in Devices, DeviceChange(d)
          PROVE  /\ now' = now /\ sweeping' = sweeping
                 /\ flaps' \in 0..MaxFlaps /\ online' \subseteq Devices
      BY <3>3 DEF TypeOK, DeviceChange
    <3>4. ASSUME NEW d \in Devices, Heartbeat(d)
          PROVE  UNCHANGED <<now, flaps, sweeping, online>>
      BY <3>4 DEF Heartbeat
    <3> QED BY <3>1, <3>2, <3>3, <3>4 DEF TypeOK
  <2>2. pool' \in [Devices -> DeviceStats]
    BY <1>1 DEF TypeOK, Stop, Tick, DeviceChange, env
  <2> QED BY <1>2, <2>1, <2>2 DEF TypeOK, table, locals
<1>4. IndexesAgree' /\ LocalsReady' /\ FreshUntilAcquire'
  BY <1>2 DEF IndexesAgree, LocalsReady, FreshUntilAcquire, table, locals
<1> QED BY <1>3, <1>4

\* Every step of Scheduler preserves the inductive invariant.
LEMMA NextPreservesIInv == IInv /\ [Next]_vars => IInv'
<1> SUFFICES ASSUME IInv, [Next]_vars PROVE IInv'
  OBVIOUS
<1>1. ASSUME NEW p \in Picks, PickStep(p) PROVE IInv'
  BY <1>1, OnlineSetStep, GetActiveStep, AcquireRefStep, SnapshotStep,
     HeldDeviceIDsStep, SelectStep, AcquireTakenStep, AcquireStep DEF PickStep
<1>2. ASSUME NEW p \in Picks,
             BadUsername(p) \/ DialOK(p) \/ DialError(p) \/ CloseConn(p)
      PROVE  IInv'
  BY <1>2, BadUsernameOrDialOKStep, CloseStep
<1>3. CASE UNCHANGED vars
  BY <1>3 DEF IInv, TypeOK, IndexesAgree, LocalsReady, FreshUntilAcquire,
              vars, env, table, locals
<1> QED BY <1>1, <1>2, <1>3, SweepStep, EnvironmentStep DEF Next

\* The inductive invariant holds throughout.
THEOREM IInvHolds == Spec => []IInv
BY InitEstablishesIInv, NextPreservesIInv, PTL DEF Spec

\* The types of the model hold in every reachable state, for any number of
\* requests, devices and users.
THEOREM TypeCorrect == Spec => []TypeOK
<1>1. IInv => TypeOK
  BY DEF IInv
<1> QED BY <1>1, IInvHolds, PTL

\* No caller of the lease table ever sees inconsistent indexes (lease.go:38).
THEOREM IndexesAlwaysAgree == Spec => []IndexesAgree
<1>1. IInv => IndexesAgree
  BY DEF IInv
<1> QED BY <1>1, IInvHolds, PTL

-----------------------------------------------------------------------------
(* What a request holds *)

\* What the steps of a request do to its handle and to its place in Pick: the
\* two ways to get a handle, the ways to lose it, and the rest.
LEMMA HandleSteps ==
    ASSUME IInv, [Next]_vars
    PROVE  \/ handle' = handle /\ pc' = pc
           \/ \E p \in Picks : \E s \in Steps :
                 /\ pc' = [pc EXCEPT ![p] = s]
                 /\ \/ /\ handle' = handle
                       /\ pc[p] \in {"dialing", "open"} <=> s \in {"dialing", "open"}
                    \/ /\ handle' = [handle EXCEPT ![p] = NoLease]
                       /\ s \notin {"dialing", "open"}
                    \/ /\ \E h \in Picks \cup {Noop} : handle' = [handle EXCEPT ![p] = h]
                       /\ s = "dialing"
<1> USE DEF IInv
<1>1. ASSUME NEW p \in Picks,
             \/ BadUsername(p) \/ OnlineSet(p) \/ GetActive(p) \/ Snapshot(p)
             \/ HeldDeviceIDs(p) \/ Select(p) \/ AcquireTaken(p) \/ DialOK(p)
      PROVE  \E s \in Steps : /\ pc' = [pc EXCEPT ![p] = s]
                              /\ handle' = handle
                              /\ pc[p] \in {"dialing", "open"} <=> s \in {"dialing", "open"}
  BY <1>1 DEF BadUsername, OnlineSet, GetActive, Snapshot, HeldDeviceIDs, Select,
              AcquireTaken, DialOK, Goto, Steps
<1>2. ASSUME NEW p \in Picks, AcquireRef(p)
      PROVE  /\ pc' = [pc EXCEPT ![p] = "dialing"]
             /\ \E h \in Picks \cup {Noop} : handle' = [handle EXCEPT ![p] = h]
  BY <1>2 DEF AcquireRef, Goto, LocalsReady
<1>3. ASSUME NEW p \in Picks, Acquire(p)
      PROVE  /\ pc' = [pc EXCEPT ![p] = "dialing"]
             /\ handle' = [handle EXCEPT ![p] = p]
  BY <1>3 DEF Acquire, Goto
<1>4. ASSUME NEW p \in Picks, DialError(p) \/ CloseConn(p)
      PROVE  \E s \in Steps : /\ pc' = [pc EXCEPT ![p] = s]
                              /\ handle' = [handle EXCEPT ![p] = NoLease]
                              /\ s \notin {"dialing", "open"}
  BY <1>4 DEF DialError, CloseConn, CloseHandle, Goto, Steps
<1>5. CASE \/ UNCHANGED vars \/ Sweep \/ Stop \/ Tick
           \/ \E d \in Devices : DeviceChange(d) \/ Heartbeat(d)
  BY <1>5 DEF vars, Sweep, Stop, Tick, DeviceChange, Heartbeat
<1>6. "dialing" \in Steps
  BY DEF Steps
<1> QED BY <1>1, <1>2, <1>3, <1>4, <1>5, <1>6 DEF Next, PickStep

\* A request holds a handle exactly while it is dialling or relaying: Pick
\* returns none on an error, and every way out of the caller closes it
\* (main.go:300-347, lease.go:193-207).
THEOREM HandlesFollowRequests == Spec => []HandleFollowsRequest
<1>1. Init => HandleFollowsRequest
  BY DEF Init, HandleFollowsRequest
<1>2. IInv /\ HandleFollowsRequest /\ [Next]_vars => HandleFollowsRequest'
  <2> SUFFICES ASSUME IInv, HandleFollowsRequest, [Next]_vars
               PROVE  HandleFollowsRequest'
    OBVIOUS
  <2>1. pc \in [Picks -> Steps] /\ handle \in [Picks -> Picks \cup {NoLease, Noop}]
    BY DEF IInv, TypeOK
  <2> QED BY <2>1, HandleSteps, SchedulerAssumption DEF HandleFollowsRequest
<1> QED BY <1>1, <1>2, IInvHolds, PTL DEF Spec

\* A lease, once allocated, keeps its user, its device and its expiry: a later
\* step only counts references on it ("Fields are read-only after creation",
\* lease.go:19-20).
LEMMA LeaseFieldsFixed ==
    ASSUME IInv, [Next]_vars
    PROVE  \A q \in Picks : lease[q] \in LeaseRecord =>
              /\ lease'[q] \in LeaseRecord
              /\ lease'[q].user = lease[q].user
              /\ lease'[q].dev = lease[q].dev
              /\ lease'[q].expires = lease[q].expires
<1> USE DEF IInv
<1> SUFFICES ASSUME NEW q \in Picks, lease[q] \in LeaseRecord
             PROVE  /\ lease'[q] \in LeaseRecord
                    /\ lease'[q].user = lease[q].user
                    /\ lease'[q].dev = lease[q].dev
                    /\ lease'[q].expires = lease[q].expires
  OBVIOUS
<1>1. ASSUME NEW n \in Nat, lease' = [lease EXCEPT ![q] = [lease[q] EXCEPT !.refcount = n]]
      PROVE  /\ lease'[q] \in LeaseRecord
             /\ lease'[q].user = lease[q].user
             /\ lease'[q].dev = lease[q].dev
             /\ lease'[q].expires = lease[q].expires
  BY <1>1 DEF TypeOK, LeaseRecord
<1>2. lease[q].refcount \in Nat
  BY DEF LeaseRecord
<1>3. ASSUME NEW p \in Picks, AcquireRef(p)
      PROVE  \/ lease'[q] = lease[q]
             \/ lease' = [lease EXCEPT ![q] = [lease[q] EXCEPT !.refcount = lease[q].refcount + 1]]
  <2>1. CASE ref[p] = q
    BY <1>3, <2>1 DEF AcquireRef
  <2>2. CASE ref[p] # q
    BY <1>3, <2>2 DEF AcquireRef, TypeOK
  <2> QED BY <2>1, <2>2
<1>4. ASSUME NEW p \in Picks, DialError(p) \/ CloseConn(p)
      PROVE  \/ lease'[q] = lease[q]
             \/ \E n \in Nat : lease' = [lease EXCEPT ![q] = [lease[q] EXCEPT !.refcount = n]]
  <2>1. lease' = Released(p)
    BY <1>4 DEF DialError, CloseConn, CloseHandle
  <2>2. CASE handle[p] = q
    <3> DEFINE n == IF lease[q].refcount > 0 THEN lease[q].refcount - 1
                    ELSE lease[q].refcount
    <3>1. n \in Nat
      BY <1>2
    <3>2. lease' = [lease EXCEPT ![q] = [lease[q] EXCEPT !.refcount = n]]
      BY <2>1, <2>2 DEF Released
    <3> QED BY <3>1, <3>2
  <2>3. CASE handle[p] # q
    BY <2>1, <2>3 DEF Released, TypeOK
  <2> QED BY <2>2, <2>3
<1>5. ASSUME NEW p \in Picks, Acquire(p) PROVE lease'[q] = lease[q]
  <2>1. lease[p] = NoRecord /\ NoRecord \notin LeaseRecord
    BY <1>5 DEF Acquire, FreshUntilAcquire, PreAcquire, NoRecord, LeaseRecord
  <2> QED BY <1>5, <2>1 DEF Acquire, TypeOK
<1>6. ASSUME NEW p \in Picks,
             \/ BadUsername(p) \/ OnlineSet(p) \/ GetActive(p) \/ Snapshot(p)
             \/ HeldDeviceIDs(p) \/ Select(p) \/ AcquireTaken(p) \/ DialOK(p)
      PROVE  lease' = lease
  BY <1>6 DEF BadUsername, OnlineSet, GetActive, Snapshot, HeldDeviceIDs, Select,
              AcquireTaken, DialOK, table
<1>7. CASE \/ UNCHANGED vars \/ Sweep \/ Stop \/ Tick
           \/ \E d \in Devices : DeviceChange(d) \/ Heartbeat(d)
  BY <1>7 DEF vars, Sweep, Stop, Tick, DeviceChange, Heartbeat, table
<1>8. lease[q].refcount + 1 \in Nat
  BY <1>2
<1> QED BY <1>1, <1>3, <1>4, <1>5, <1>6, <1>7, <1>8 DEF Next, PickStep

-----------------------------------------------------------------------------
(* Which device a request gets *)

\* The two parts of the choice, for one request.
Chosen(p) ==
    /\ pc[p] = "acquireRef" => lease[ref[p]].dev \in onl[p]
    /\ pc[p] \in {"held", "select", "acquire"} => DOMAIN cand[p] = onl[p]
    /\ pc[p] = "acquire" => dev[p] \in onl[p] \ held[p]
    /\ pc[p] \in {"acquire", "dialing", "open", "closed"} =>
          /\ dev[p] \in onl[p]
          /\ ref[p] = NoLease => dev[p] \notin held[p]

\* A request is only affected by its own steps: nobody else writes its locals,
\* and the lease it remembers keeps its device.
LEMMA OthersChoiceStands ==
    ASSUME IInv, [Next]_vars, NEW q \in Picks, Chosen(q), pc'[q] = pc[q],
           onl'[q] = onl[q], ref'[q] = ref[q], cand'[q] = cand[q],
           held'[q] = held[q], dev'[q] = dev[q]
    PROVE  Chosen(q)'
<1>1. pc[q] = "acquireRef" => ref[q] \in Picks /\ lease[ref[q]] \in LeaseRecord
  BY DEF IInv, LocalsReady
<1>2. pc[q] = "acquireRef" => lease'[ref[q]].dev = lease[ref[q]].dev
  BY <1>1, LeaseFieldsFixed
<1> QED BY <1>2 DEF Chosen

\* A step of p itself keeps its choice within what it has seen.
LEMMA OwnChoiceStands ==
    ASSUME IInv, NEW p \in Picks, Chosen(p),
           \/ BadUsername(p) \/ PickStep(p)
           \/ DialOK(p) \/ DialError(p) \/ CloseConn(p)
    PROVE  Chosen(p)'
<1> USE DEF IInv
<1>1. CASE BadUsername(p)
  BY <1>1 DEF BadUsername, Goto, Chosen, TypeOK
<1>2. CASE OnlineSet(p)
  BY <1>2 DEF OnlineSet, Goto, Chosen, TypeOK
<1>3. CASE GetActive(p)
  BY <1>3 DEF GetActive, Goto, Chosen, TypeOK
<1>4. CASE AcquireRef(p)
  <2>1. /\ dev'[p] = lease[ref[p]].dev /\ pc'[p] = "dialing"
        /\ onl' = onl /\ ref' = ref /\ pc[p] = "acquireRef"
    BY <1>4 DEF AcquireRef, Goto, TypeOK
  <2>2. ref[p] \in Picks
    BY <2>1 DEF LocalsReady
  <2> QED BY <2>1, <2>2, SchedulerAssumption DEF Chosen
<1>5. CASE Snapshot(p)
  <2>1. pc'[p] = "held" /\ onl' = onl /\ cand'[p] = PoolSnapshot(pool, onl[p])
    BY <1>5 DEF Snapshot, Goto, TypeOK
  <2>2. DOMAIN PoolSnapshot(pool, onl[p]) = onl[p]
    BY DEF PoolSnapshot
  <2> QED BY <2>1, <2>2 DEF Chosen
<1>6. CASE HeldDeviceIDs(p)
  <2>1. pc[p] = "held" /\ pc'[p] = "select" /\ onl' = onl /\ cand' = cand
    BY <1>6 DEF HeldDeviceIDs, Goto, TypeOK
  <2> QED BY <2>1 DEF Chosen
<1>7. CASE Select(p)
  <2>1. /\ pc[p] = "select" /\ onl' = onl /\ held' = held /\ cand' = cand
        /\ \/ pc'[p] = "failed"
           \/ /\ pc'[p] = "acquire"
              /\ dev'[p] \in SelectorPick(tok[p].country, cand[p], held[p], now)
    BY <1>7 DEF Select, Goto, TypeOK
  <2>2. SelectorPick(tok[p].country, cand[p], held[p], now) \subseteq DOMAIN cand[p] \ held[p]
    BY DEF SelectorPick, Keep
  <2> QED BY <2>1, <2>2 DEF Chosen
<1>8. CASE AcquireTaken(p)
  BY <1>8 DEF AcquireTaken, Goto, Chosen, TypeOK
<1>9. CASE Acquire(p)
  BY <1>9 DEF Acquire, Goto, Chosen, TypeOK, locals
<1>10. CASE DialOK(p) \/ DialError(p) \/ CloseConn(p)
  BY <1>10 DEF DialOK, DialError, CloseConn, Goto, Chosen, TypeOK, locals
<1> QED BY <1>1, <1>2, <1>3, <1>4, <1>5, <1>6, <1>7, <1>8, <1>9, <1>10 DEF PickStep

\* The step of one request leaves the locals of the others alone.
LEMMA LocalsArePrivate ==
    ASSUME IInv, NEW p \in Picks, NEW q \in Picks, q # p,
           \/ BadUsername(p) \/ PickStep(p)
           \/ DialOK(p) \/ DialError(p) \/ CloseConn(p)
    PROVE  /\ pc'[q] = pc[q] /\ onl'[q] = onl[q] /\ ref'[q] = ref[q]
           /\ cand'[q] = cand[q] /\ held'[q] = held[q] /\ dev'[q] = dev[q]
<1> USE DEF IInv, TypeOK
<1>1. CASE BadUsername(p) \/ OnlineSet(p) \/ GetActive(p) \/ AcquireRef(p)
  BY <1>1 DEF BadUsername, OnlineSet, GetActive, AcquireRef, Goto, locals
<1>2. CASE Snapshot(p)
  BY <1>2 DEF Snapshot, Goto
<1>3. CASE HeldDeviceIDs(p)
  BY <1>3 DEF HeldDeviceIDs, Goto
<1>4. CASE Select(p) \/ AcquireTaken(p) \/ Acquire(p)
  BY <1>4 DEF Select, AcquireTaken, Acquire, Goto, locals
<1>5. CASE DialOK(p) \/ DialError(p) \/ CloseConn(p)
  BY <1>5 DEF DialOK, DialError, CloseConn, Goto, locals
<1> QED BY <1>1, <1>2, <1>3, <1>4, <1>5 DEF PickStep

\* Pick returns a device that was online when it looked, and leases it freshly
\* only if no other user held it then (scheduler.go:120-195), whatever the
\* other requests, the sweeper and the devices do meanwhile.
THEOREM PicksRespectSnapshots == Spec => []PickRespectsSnapshot
<1> DEFINE CInv == \A p \in Picks : Chosen(p)
<1>1. Init => CInv
  BY DEF Init, Chosen
<1>2. IInv /\ CInv /\ [Next]_vars => CInv'
  <2> SUFFICES ASSUME IInv, CInv, [Next]_vars, NEW q \in Picks
               PROVE  Chosen(q)'
    OBVIOUS
  <2>1. ASSUME NEW p \in Picks,
               \/ BadUsername(p) \/ PickStep(p)
               \/ DialOK(p) \/ DialError(p) \/ CloseConn(p)
        PROVE  Chosen(q)'
    <3>1. CASE q = p
      BY <2>1, <3>1, OwnChoiceStands
    <3>2. CASE q # p
      BY <2>1, <3>2, LocalsArePrivate, OthersChoiceStands
    <3> QED BY <3>1, <3>2
  <2>2. CASE \/ UNCHANGED vars \/ Sweep \/ Stop \/ Tick
             \/ \E d \in Devices : DeviceChange(d) \/ Heartbeat(d)
    <3>1. UNCHANGED <<pc, onl, ref, cand, held, dev>>
      BY <2>2 DEF vars, Sweep, Stop, Tick, DeviceChange, Heartbeat, locals
    <3> QED BY <3>1, OthersChoiceStands
  <2> QED BY <2>1, <2>2 DEF Next
<1>3. CInv => PickRespectsSnapshot
  BY DEF Chosen, PickRespectsSnapshot
<1> QED BY <1>1, <1>2, <1>3, IInvHolds, PTL DEF Spec

-----------------------------------------------------------------------------
(* Reference counts *)

\* The requests that hold a handle on lease l.
Holders(l) == {p \in Picks : handle[p] = l}

\* The count of every lease is right, and it counts finitely many requests, so
\* that one more or one less handle moves it by one.
CountsRight ==
    \A l \in Picks : /\ IsFiniteSet(Holders(l))
                     /\ lease[l].refcount = Cardinality(Holders(l))

\* A request that takes a handle is one more holder of its lease.
LEMMA OneMoreHolder ==
    ASSUME TypeOK, CountsRight, NEW p \in Picks, NEW l \in Picks, handle[p] = NoLease,
           handle' = [handle EXCEPT ![p] = l]
    PROVE  /\ IsFiniteSet(Holders(l)')
           /\ Cardinality(Holders(l)') = Cardinality(Holders(l)) + 1
           /\ \A q \in Picks : q # l => Holders(q)' = Holders(q)
<1>1. NoLease \notin Picks
  BY SchedulerAssumption
<1>2. Holders(l)' = Holders(l) \cup {p} /\ p \notin Holders(l)
  BY <1>1 DEF Holders, TypeOK
<1>3. \A q \in Picks : q # l => Holders(q)' = Holders(q)
  BY <1>1 DEF Holders, TypeOK
<1>4. IsFiniteSet(Holders(l))
  BY DEF CountsRight
<1> HIDE DEF Holders
<1> QED BY <1>2, <1>3, <1>4, FS_AddElement

\* A request that closes its handle is one holder less.
LEMMA OneHolderLess ==
    ASSUME TypeOK, CountsRight, NEW p \in Picks, NEW l \in Picks, handle[p] = l,
           handle' = [handle EXCEPT ![p] = NoLease]
    PROVE  /\ IsFiniteSet(Holders(l)')
           /\ Cardinality(Holders(l)) \in Nat \ {0}
           /\ Cardinality(Holders(l)') = Cardinality(Holders(l)) - 1
           /\ \A q \in Picks : q # l => Holders(q)' = Holders(q)
<1>1. NoLease \notin Picks
  BY SchedulerAssumption
<1>2. Holders(l)' = Holders(l) \ {p} /\ p \in Holders(l)
  BY <1>1 DEF Holders, TypeOK
<1>3. \A q \in Picks : q # l => Holders(q)' = Holders(q)
  BY <1>1 DEF Holders, TypeOK
<1>4. IsFiniteSet(Holders(l))
  BY DEF CountsRight
<1>5. Cardinality(Holders(l)) \in Nat /\ Cardinality(Holders(l)) # 0
  <2> HIDE DEF Holders
  <2> QED BY <1>2, <1>4, FS_CardinalityType, FS_EmptySet
<1> HIDE DEF Holders
<1> QED BY <1>2, <1>3, <1>4, <1>5, FS_RemoveElement

\* Every step keeps the counts right.  A new lease starts at one, with the
\* request that made it as its only holder; a lease that is reused gains the
\* request, unless it has been evicted and the handle is a no-op; a close
\* decrements a count that is positive.
LEMMA CountsStep ==
    ASSUME IInv, HandleFollowsRequest, CountsRight, [Next]_vars
    PROVE  CountsRight'
<1> USE DEF IInv
<1>1. NoLease \notin Picks /\ Noop \notin Picks /\ Noop # NoLease
  BY SchedulerAssumption
<1>2. ASSUME NEW p \in Picks, AcquireRef(p) PROVE CountsRight'
  <2>1. PICK l \in Picks :
          l = ref[p] /\ lease[l] \in LeaseRecord /\ pc[p] = "acquireRef"
    BY <1>2 DEF AcquireRef, LocalsReady
  <2>2. handle[p] = NoLease
    BY <2>1 DEF HandleFollowsRequest
  <2>3. CASE byUser[lease[l].user] = l
    <3>1. /\ lease' = [lease EXCEPT ![l] = [lease[l] EXCEPT !.refcount = lease[l].refcount + 1]]
          /\ handle' = [handle EXCEPT ![p] = l]
      BY <1>2, <2>1, <2>3 DEF AcquireRef
    <3>2. /\ lease'[l].refcount = lease[l].refcount + 1
          /\ \A q \in Picks : q # l => lease'[q] = lease[q]
      BY <2>1, <3>1 DEF TypeOK, LeaseRecord
    <3> QED BY <2>1, <2>2, <3>1, <3>2, OneMoreHolder DEF CountsRight
  <2>4. CASE byUser[lease[l].user] # l
    <3>1. lease' = lease /\ handle' = [handle EXCEPT ![p] = Noop]
      BY <1>2, <2>1, <2>4 DEF AcquireRef
    <3>2. \A q \in Picks : Holders(q)' = Holders(q)
      BY <1>1, <2>2, <3>1 DEF Holders, TypeOK
    <3> QED BY <3>1, <3>2 DEF CountsRight
  <2> QED BY <2>3, <2>4
<1>3. ASSUME NEW p \in Picks, Acquire(p) PROVE CountsRight'
  <2>1. /\ pc[p] = "acquire"
        /\ handle' = [handle EXCEPT ![p] = p]
        /\ lease'[p].refcount = 1
        /\ \A q \in Picks : q # p => lease'[q] = lease[q]
    BY <1>3 DEF Acquire, TypeOK
  <2>2. handle[p] = NoLease /\ Holders(p) = {}
    BY <2>1 DEF HandleFollowsRequest, FreshUntilAcquire, PreAcquire, Holders
  <2>3. Cardinality(Holders(p)) = 0
    BY <2>2, FS_EmptySet
  <2>4. /\ IsFiniteSet(Holders(p)')
        /\ Cardinality(Holders(p)') = Cardinality(Holders(p)) + 1
        /\ \A q \in Picks : q # p => Holders(q)' = Holders(q)
    BY <2>1, <2>2, OneMoreHolder
  <2>5. lease'[p].refcount = Cardinality(Holders(p)')
    BY <2>1, <2>3, <2>4
  <2> QED BY <2>1, <2>4, <2>5 DEF CountsRight
<1>4. ASSUME NEW p \in Picks, DialError(p) \/ CloseConn(p) PROVE CountsRight'
  <2>1. lease' = Released(p) /\ handle' = [handle EXCEPT ![p] = NoLease]
    BY <1>4 DEF DialError, CloseConn, CloseHandle
  <2>2. CASE handle[p] \in Picks
    <3>0. PICK l \in Picks : l = handle[p]
      BY <2>2
    <3> DEFINE n == IF lease[l].refcount > 0 THEN lease[l].refcount - 1
                    ELSE lease[l].refcount
    <3>1. lease[l] \in LeaseRecord
      BY <3>0 DEF LocalsReady
    <3>2. lease' = [lease EXCEPT ![l] = [lease[l] EXCEPT !.refcount = n]]
      BY <2>1, <3>0 DEF Released
    <3>3. lease'[l].refcount = n /\ \A q \in Picks : q # l => lease'[q] = lease[q]
      <4> HIDE DEF n
      <4> QED BY <3>1, <3>2 DEF TypeOK, LeaseRecord
    <3>4. /\ IsFiniteSet(Holders(l)')
          /\ Cardinality(Holders(l)) \in Nat \ {0}
          /\ Cardinality(Holders(l)') = Cardinality(Holders(l)) - 1
          /\ \A q \in Picks : q # l => Holders(q)' = Holders(q)
      BY <2>1, <3>0, OneHolderLess
    <3>5. lease[l].refcount = Cardinality(Holders(l))
      BY DEF CountsRight
    <3>6. n = Cardinality(Holders(l)')
      BY <3>4, <3>5
    <3> HIDE DEF n
    <3> QED BY <3>3, <3>4, <3>6 DEF CountsRight
  <2>3. CASE handle[p] \notin Picks
    <3>1. lease' = lease
      BY <2>1, <2>3 DEF Released
    <3>2. \A q \in Picks : Holders(q)' = Holders(q)
      BY <1>1, <2>1, <2>3 DEF Holders, TypeOK
    <3> QED BY <3>1, <3>2 DEF CountsRight
  <2> QED BY <2>2, <2>3
<1>5. ASSUME UNCHANGED <<lease, handle>> PROVE CountsRight'
  BY <1>5 DEF CountsRight, Holders
<1>6. ASSUME NEW p \in Picks,
             \/ BadUsername(p) \/ OnlineSet(p) \/ GetActive(p) \/ Snapshot(p)
             \/ HeldDeviceIDs(p) \/ Select(p) \/ AcquireTaken(p) \/ DialOK(p)
      PROVE  UNCHANGED <<lease, handle>>
  BY <1>6 DEF BadUsername, OnlineSet, GetActive, Snapshot, HeldDeviceIDs, Select,
              AcquireTaken, DialOK, table
<1>7. CASE \/ UNCHANGED vars \/ Sweep \/ Stop \/ Tick
           \/ \E d \in Devices : DeviceChange(d) \/ Heartbeat(d)
  BY <1>5, <1>7 DEF vars, Sweep, Stop, Tick, DeviceChange, Heartbeat, table
<1> QED BY <1>2, <1>3, <1>4, <1>5, <1>6, <1>7 DEF Next, PickStep

\* "keeping the lease refcount accurate" (main.go:313-315): a lease counts the
\* requests that hold an open handle on it, for any number of them.
THEOREM RefcountsAreAccurate == Spec => []RefcountMatchesHandles
<1>1. Init => CountsRight
  <2> SUFFICES ASSUME Init, NEW l \in Picks
               PROVE  IsFiniteSet(Holders(l)) /\ lease[l].refcount = Cardinality(Holders(l))
    BY DEF CountsRight
  <2>1. Holders(l) = {} /\ lease[l].refcount = 0
    BY SchedulerAssumption DEF Init, Holders, NoRecord
  <2> QED BY <2>1, FS_EmptySet
<1>2. IInv /\ HandleFollowsRequest /\ CountsRight /\ [Next]_vars => CountsRight'
  BY CountsStep
<1>3. CountsRight => RefcountMatchesHandles
  BY DEF CountsRight, RefcountMatchesHandles, Holders
<1> QED BY <1>1, <1>2, <1>3, IInvHolds, HandlesFollowRequests, PTL DEF Spec

-----------------------------------------------------------------------------
(* The lease table implements DeviceLease *)

\* The loan the table has for device d.
Loan(d) == [user |-> lease[byDev[d]].user, dev |-> d, expires |-> lease[byDev[d]].expires]

\* Loans are the loans of the devices that have an entry.
LEMMA LoansOfEntries ==
    Loans = {Loan(d) : d \in {e \in Devices : byDev[e] # NoLease}}
BY DEF Loans, Loan

\* A step that keeps the reverse index and the fields of the leases lends
\* nothing and takes nothing back.
LEMMA SameLoans ==
    ASSUME TypeOK, IndexesAgree, byDev' = byDev,
           \A q \in Picks : lease[q] \in LeaseRecord =>
                /\ lease'[q].user = lease[q].user
                /\ lease'[q].expires = lease[q].expires
    PROVE  Loans' = Loans
<1>1. \A d \in {e \in Devices : byDev[e] # NoLease} :
         /\ lease'[byDev[d]].user = lease[byDev[d]].user
         /\ lease'[byDev[d]].expires = lease[byDev[d]].expires
  BY DEF TypeOK, IndexesAgree
<1> QED BY <1>1 DEF Loans

\* evictLocked on expired leases forgets only expired loans (lease.go:175-182).
LEMMA EvictionForgets ==
    ASSUME TypeOK, IndexesAgree, NEW S, \A l \in S : Expired(l),
           byDev' = EvictDev(S), lease' = lease, now' = now
    PROVE  Abstract!Forget
<1>1. \A d \in Devices : byDev'[d] # byDev[d] => byDev'[d] = NoLease /\ byDev[d] \in S
  BY DEF EvictDev
<1>2. \A d \in Devices : byDev'[d] # NoLease => byDev[d] # NoLease /\ Loan(d)' = Loan(d)
  BY <1>1 DEF Loan
<1>3. Loans' \subseteq Loans
  BY <1>2 DEF Loans, Loan
<1>4. ASSUME NEW l \in Loans, l \notin Loans' PROVE ~Abstract!Active(l)
  <2>1. PICK d \in Devices : byDev[d] # NoLease /\ l = Loan(d)
    BY LoansOfEntries
  <2>2. byDev'[d] # NoLease => Loan(d)' \in Loans'
    BY DEF Loans, Loan
  <2>3. byDev[d] \in S
    BY <1>1, <1>2, <1>4, <2>1, <2>2
  <2>4. Expired(byDev[d]) /\ l.expires = lease[byDev[d]].expires
    BY <2>1, <2>3 DEF Loan
  <2> QED BY <2>4 DEF Expired, Abstract!Active
<1> QED BY <1>3, <1>4 DEF Abstract!Forget

\* Acquire lends the device: nobody else has it unexpired, the user's other loan
\* is taken back and every other loan stands (lease.go:98-134).
LEMMA AcquireGrants ==
    ASSUME IInv, NEW p \in Picks, Acquire(p)
    PROVE  \E u \in Users, d \in Devices, ttl \in MinDuration..MaxDuration :
              Abstract!Grant(u, d, ttl)
<1> USE DEF IInv
<1>1. PICK u \in Users, d \in Devices, ttl \in MinDuration..MaxDuration :
        u = tok[p].user /\ d = dev[p] /\ ttl = tok[p].ttl
  BY DEF Acquire, LocalsReady, Token
<1> DEFINE expired == {l \in {byDev[d]} \ {NoLease} : Expired(l)}
           old == {byUser[u]} \ {NoLease}
           S == expired \cup old
           new == [user |-> u, dev |-> d, expires |-> now + ttl]
<1>2. /\ ~Taken(p)
      /\ byDev' = [EvictDev(S) EXCEPT ![d] = p]
      /\ lease' = [lease EXCEPT ![p] = [user |-> u, dev |-> d,
                                        expires |-> now + ttl, refcount |-> 1]]
      /\ now' = now
  BY <1>1 DEF Acquire, env
<1>3. \A l \in Loans : l.dev = d /\ l.user # u => ~Abstract!Active(l)
  <2> SUFFICES ASSUME NEW l \in Loans, l.dev = d, l.user # u
               PROVE  ~Abstract!Active(l)
    OBVIOUS
  <2>1. byDev[d] # NoLease /\ l = Loan(d)
    BY LoansOfEntries DEF Loan
  <2>2. lease[byDev[d]].user # u /\ l.expires = lease[byDev[d]].expires
    BY <2>1 DEF Loan
  <2>3. Expired(byDev[d])
    BY <1>1, <1>2, <2>1, <2>2 DEF Taken
  <2> QED BY <2>2, <2>3 DEF Expired, Abstract!Active
<1>4. /\ \A e \in Devices : byDev[e] # p
      /\ p # NoLease
  BY SchedulerAssumption DEF Acquire, FreshUntilAcquire, PreAcquire
<1>5. ASSUME NEW e \in Devices, e # d
      PROVE  /\ byDev'[e] # NoLease <=> byDev[e] # NoLease /\ lease[byDev[e]].user # u
             /\ byDev'[e] # NoLease => Loan(e)' = Loan(e)
  <2>1. byDev'[e] = EvictDev(S)[e]
    BY <1>2, <1>5 DEF EvictDev
  <2>2. CASE byDev[e] = NoLease
    <3>1. EvictDev(S)[e] = NoLease
      BY <2>2 DEF EvictDev
    <3> QED BY <2>1, <2>2, <3>1
  <2>3. CASE byDev[e] # NoLease
    <3>1. /\ byDev[e] \in Picks /\ lease[byDev[e]] \in LeaseRecord
          /\ lease[byDev[e]].dev = e
          /\ byUser[lease[byDev[e]].user] = byDev[e]
      BY <2>3 DEF IndexesAgree, TypeOK
    <3>2. byDev[e] # byDev[d]
      BY <1>5, <2>3, <3>1 DEF IndexesAgree
    <3>3. byDev[e] = byUser[u] => lease[byDev[e]].user = u
      BY <2>3 DEF IndexesAgree
    <3>4. byDev[e] \in S <=> lease[byDev[e]].user = u
      BY <2>3, <3>1, <3>2, <3>3
    <3>5. EvictDev(S)[e] = IF lease[byDev[e]].user = u THEN NoLease ELSE byDev[e]
      BY <3>1, <3>4 DEF EvictDev
    <3>6. lease'[byDev[e]] = lease[byDev[e]]
      BY <1>2, <1>4, <3>1 DEF TypeOK
    <3> QED BY <2>1, <2>3, <3>5, <3>6 DEF Loan
  <2> QED BY <2>2, <2>3
<1>6. byDev'[d] = p /\ Loan(d)' = new
  <2>1. byDev'[d] = p
    BY <1>2 DEF EvictDev
  <2>2. lease'[p].user = u /\ lease'[p].expires = now + ttl
    BY <1>2 DEF TypeOK
  <2> QED BY <2>1, <2>2 DEF Loan
<1> HIDE DEF S, new
<1>7. Loans' = {l \in Loans : l.dev # d /\ l.user # u} \cup {new}
  <2>1. ASSUME NEW l \in Loans'
        PROVE  l \in {k \in Loans : k.dev # d /\ k.user # u} \cup {new}
    <3>1. PICK e \in Devices : byDev'[e] # NoLease /\ l = Loan(e)'
      BY DEF Loans, Loan
    <3>2. CASE e = d
      BY <1>6, <3>1, <3>2
    <3>3. CASE e # d
      <4>1. byDev[e] # NoLease /\ lease[byDev[e]].user # u /\ l = Loan(e)
        BY <1>5, <3>1, <3>3
      <4>2. l \in Loans /\ l.dev = e /\ l.user # u
        BY <4>1 DEF Loan, Loans
      <4> QED BY <3>3, <4>2
    <3> QED BY <3>2, <3>3
  <2>2. new \in Loans'
    BY <1>4, <1>6 DEF Loans, Loan
  <2>3. ASSUME NEW l \in Loans, l.dev # d, l.user # u PROVE l \in Loans'
    <3>1. PICK e \in Devices : byDev[e] # NoLease /\ l = Loan(e)
      BY LoansOfEntries
    <3>2. e # d /\ lease[byDev[e]].user # u
      BY <2>3, <3>1 DEF Loan
    <3>3. byDev'[e] # NoLease /\ l = Loan(e)'
      BY <1>5, <3>1, <3>2
    <3> QED BY <3>3 DEF Loans, Loan
  <2> QED BY <2>1, <2>2, <2>3
<1>8. Abstract!Grant(u, d, ttl)
  BY <1>2, <1>3, <1>7 DEF Abstract!Grant, new
<1> QED BY <1>8

\* Every step of the scheduler is a step of DeviceLease or changes no loan.
LEMMA StepImplements ==
    ASSUME IInv, [Next]_vars
    PROVE  [Abstract!Next]_<<now, Loans>>
<1> USE DEF IInv
<1>1. ASSUME UNCHANGED <<now, byDev>> PROVE UNCHANGED <<now, Loans>>
  BY <1>1, LeaseFieldsFixed, SameLoans
<1>2. ASSUME NEW p \in Picks,
             \/ BadUsername(p) \/ OnlineSet(p) \/ AcquireRef(p) \/ Snapshot(p)
             \/ Select(p) \/ AcquireTaken(p) \/ DialOK(p) \/ DialError(p)
             \/ CloseConn(p)
      PROVE  UNCHANGED <<now, byDev>>
  BY <1>2 DEF BadUsername, OnlineSet, AcquireRef, Snapshot, Select, AcquireTaken,
              DialOK, DialError, CloseConn, env, table
<1>3. ASSUME NEW p \in Picks, GetActive(p) PROVE Abstract!Forget
  BY <1>3, EvictionForgets DEF GetActive, env
<1>4. ASSUME NEW p \in Picks, HeldDeviceIDs(p) PROVE Abstract!Forget
  BY <1>4, EvictionForgets DEF HeldDeviceIDs, ExpiredByDev, env
<1>5. CASE Sweep
  <2>1. Abstract!Forget
    BY <1>5, EvictionForgets DEF Sweep, ExpiredByUser, env
  <2> QED BY <2>1 DEF Abstract!Next
<1>6. CASE Tick
  <2>1. Loans' = Loans
    BY <1>6, SameLoans DEF Tick, table
  <2> QED BY <1>6, <2>1 DEF Tick, Abstract!Tick, Abstract!Next
<1>7. CASE UNCHANGED vars \/ Stop \/ \E d \in Devices : DeviceChange(d) \/ Heartbeat(d)
  BY <1>1, <1>7 DEF vars, Stop, DeviceChange, Heartbeat, env, table
<1>8. ASSUME NEW p \in Picks, Acquire(p) PROVE Abstract!Next
  BY <1>8, AcquireGrants DEF Abstract!Next
<1>9. Abstract!Forget => Abstract!Next
  BY DEF Abstract!Next
<1> QED BY <1>1, <1>2, <1>3, <1>4, <1>5, <1>6, <1>7, <1>8, <1>9 DEF Next, PickStep

\* The lease table implements DeviceLease: for any number of concurrent requests
\* and at any point of the sweeper, a device is lent to one user at a time and a
\* loan ends only by expiry or by a new loan of the same user.
THEOREM LeaseTableImplementsDeviceLease == Spec => KeepsDeviceLease
<1>1. Init => Abstract!Init
  BY DEF Init, Abstract!Init, Loans
<1>2. IInv /\ [Next]_vars => [Abstract!Next]_<<now, Loans>>
  BY StepImplements
<1> QED BY <1>1, <1>2, IInvHolds, PTL DEF Spec, KeepsDeviceLease, Abstract!Spec, Abstract!vars

\* The table never lends a device twice, nor two devices to one user: two loans
\* of a device are one entry of byDev, and two of a user one entry of byUser.
THEOREM LoansAreExclusive == Spec => []Abstract!Exclusive
<1>1. IInv => Abstract!Exclusive
  <2> SUFFICES ASSUME IInv, NEW l \in Loans, NEW m \in Loans,
                      l.dev = m.dev \/ l.user = m.user
               PROVE  l = m
    BY DEF Abstract!Exclusive
  <2>1. PICK d \in Devices : byDev[d] # NoLease /\ l = Loan(d)
    BY LoansOfEntries
  <2>2. PICK e \in Devices : byDev[e] # NoLease /\ m = Loan(e)
    BY LoansOfEntries
  <2>3. /\ byUser[lease[byDev[d]].user] = byDev[d] /\ lease[byDev[d]].dev = d
        /\ byUser[lease[byDev[e]].user] = byDev[e] /\ lease[byDev[e]].dev = e
    BY <2>1, <2>2 DEF IInv, IndexesAgree
  <2>4. /\ l.dev = d /\ l.user = lease[byDev[d]].user
        /\ m.dev = e /\ m.user = lease[byDev[e]].user
    BY <2>1, <2>2 DEF Loan
  <2>5. d = e
    BY <2>3, <2>4
  <2> QED BY <2>1, <2>2, <2>5
<1> QED BY <1>1, IInvHolds, PTL
=============================================================================

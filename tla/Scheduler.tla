------------------------------ MODULE Scheduler ------------------------------
(***************************************************************************)
(* server/scheduler: the sticky lease table (lease.go), Scheduler.Pick and *)
(* the sweeper (scheduler.go), and the life of the handle a Pick returns   *)
(* (buildDialAndRequest of server/main.go and leasedConn.Close).           *)
(*                                                                         *)
(* Every SOCKS5 request runs in a goroutine of its own, so Pick is a       *)
(* process: one step for each call it makes on shared state.  A method of  *)
(* StickyLeases holds the mutex from its first to its last line and is one *)
(* step.  A *Lease is named after the Pick that allocated it, since a Pick *)
(* allocates at most one.                                                  *)
(***************************************************************************)
EXTENDS Selector

CONSTANTS
    Picks,         \* SOCKS5 requests
    Devices,       \* device_ids; integers, for the selector's tie-break
    Users,         \* user keys (user_id:session)
    Wanted,        \* the countries usernames ask for
    Minutes,       \* the duration field of a username, already a number
    MinDuration, MaxDuration,
    Half,          \* a Duration is from -Half to Half - 1
    Heartbeats,    \* the metrics a heartbeat may carry: DeviceUpdate records
    MaxTime,       \* bound on the clock
    MaxFlaps,      \* bound on devices going online or offline
    NoLease,       \* a nil *Lease
    Noop           \* the noopHandle

ASSUME SchedulerAssumption ==
    /\ Devices \subseteq Nat
    /\ Wanted \subseteq Countries
    /\ Minutes \subseteq Int
    /\ MinDuration \in Nat \ {0}
    /\ MaxDuration \in Nat
    /\ MinDuration <= MaxDuration
    /\ Half \in Nat /\ Half > MaxDuration
    /\ Heartbeats \subseteq DeviceUpdate
    /\ MaxTime \in Nat
    /\ MaxFlaps \in Nat
    /\ NoLease \notin Picks
    /\ Noop \notin Picks
    /\ Noop # NoLease

VARIABLES
    now,       \* the clock every component reads
    online,    \* Registry.OnlineSet
    flaps,     \* how often online has changed, for the bound
    pool,      \* DevicePool.m
    byUser,    \* StickyLeases.byUser
    byDev,     \* StickyLeases.byDev
    lease,     \* the Lease objects, by the Pick that allocated them
    sweeping,  \* the sweeper goroutine is running
    pc,        \* where each Pick is
    tok,       \* its parsed username
    onl,       \* its snapshot of the online set
    ref,       \* the lease its GetActive returned
    cand,      \* its candidates
    held,      \* its LeasedByOthers
    attempt,   \* first or second try
    dev,       \* the device it settled on
    handle     \* the handle it returned; NoLease once closed

table == <<byUser, byDev, lease>>
env == <<now, online, flaps, pool>>
locals == <<tok, onl, ref, cand, held, attempt, dev>>
vars == <<env, table, sweeping, pc, locals, handle>>

Steps == {"idle", "getActive", "acquireRef", "snapshot", "held", "select",
          "acquire", "dialing", "open", "closed", "failed"}

\* The part of a username the scheduler uses.
Token == [user: Users, country: Countries, ttl: MinDuration..MaxDuration]

NoToken == [ttl |-> 0]         \* nothing parsed yet

NoDevice == Nil                \* no device chosen yet

LeaseRecord == [user: Users, dev: Devices, expires: Nat, refcount: Nat]

NoRecord == [refcount |-> 0]   \* not allocated yet

\* time.Duration(mins) * time.Minute wraps around.
Wrapped(mins) == ((mins + Half) % (2 * Half)) - Half

\* Mutant of ClampDuration: the upper bound is forgotten.
ClampDuration_NoMax(mins) ==
    IF Wrapped(mins) < MinDuration THEN MinDuration ELSE Wrapped(mins)

\* The clamp of ParseUsername, after the multiplication: whatever that has made
\* of a huge number of minutes, the window is in range.
ClampDuration(mins) ==
    IF Wrapped(mins) < MinDuration THEN MinDuration
    ELSE IF Wrapped(mins) > MaxDuration THEN MaxDuration
    ELSE Wrapped(mins)

EmptyCand == [d \in {} |-> ZeroStats]

Init ==
    /\ now = 0
    /\ online \in SUBSET Devices
    /\ flaps = 0
    /\ pool = [d \in Devices |-> ZeroStats]
    /\ byUser = [u \in Users |-> NoLease]
    /\ byDev = [d \in Devices |-> NoLease]
    /\ lease = [p \in Picks |-> NoRecord]
    /\ sweeping = TRUE
    /\ pc = [p \in Picks |-> "idle"]
    /\ tok = [p \in Picks |-> NoToken]
    /\ onl = [p \in Picks |-> {}]
    /\ ref = [p \in Picks |-> NoLease]
    /\ cand = [p \in Picks |-> EmptyCand]
    /\ held = [p \in Picks |-> {}]
    /\ attempt = [p \in Picks |-> 1]
    /\ dev = [p \in Picks |-> NoDevice]
    /\ handle = [p \in Picks |-> NoLease]

-----------------------------------------------------------------------------
(* The lease table *)

Expired(l) == ~(now < lease[l].expires)

\* evictLocked for every lease of S: an index entry is deleted only when it
\* still points to that lease.
EvictUser(S) == [u \in Users |-> IF byUser[u] \in S /\ lease[byUser[u]].user = u
                                 THEN NoLease ELSE byUser[u]]

\* Mutant of EvictDev: evictLocked leaves the reverse index alone.
EvictDev_Forgotten(S) == byDev

EvictDev(S) == [d \in Devices |-> IF byDev[d] \in S /\ lease[byDev[d]].dev = d
                                  THEN NoLease ELSE byDev[d]]

\* Mutant of ExpiredByUser: now.After(Expires) for !now.Before(Expires).
ExpiredByUser_After ==
    {l \in {byUser[u] : u \in Users} \ {NoLease} : now > lease[l].expires}

\* What Sweep finds walking byUser, and HeldDeviceIDs walking byDev.
ExpiredByUser == {l \in {byUser[u] : u \in Users} \ {NoLease} : Expired(l)}

ExpiredByDev == {l \in {byDev[d] : d \in Devices} \ {NoLease} : Expired(l)}

\* Mutant of Released: Close looks the lease up again by its user key.
Released_Current(p) ==
    LET l == byUser[tok[p].user]
    IN  IF l \in Picks
        THEN [lease EXCEPT ![l].refcount = IF @ > 0 THEN @ - 1 ELSE @]
        ELSE lease

\* leaseHandle.Close on the handle of p, which closes it once and for all.
Released(p) ==
    IF handle[p] \in Picks
    THEN [lease EXCEPT ![handle[p]].refcount = IF @ > 0 THEN @ - 1 ELSE @]
    ELSE lease

CloseHandle(p) ==
    /\ lease' = Released(p)
    /\ handle' = [handle EXCEPT ![p] = NoLease]

-----------------------------------------------------------------------------
(* Scheduler.Pick *)

Goto(p, step) == pc' = [pc EXCEPT ![p] = step]

\* The username does not parse: here, its duration is not positive.
BadUsername(p) ==
    /\ pc[p] = "idle"
    /\ \E mins \in Minutes : mins <= 0
    /\ Goto(p, "failed")
    /\ UNCHANGED <<env, table, sweeping, locals, handle>>

\* ParseUsername, then Lister.OnlineSet; an empty set is an error.
OnlineSet(p) ==
    /\ pc[p] = "idle"
    /\ \E u \in Users, c \in Wanted, mins \in Minutes :
          /\ mins > 0
          /\ tok' = [tok EXCEPT ![p] = [user |-> u, country |-> c,
                                        ttl |-> ClampDuration(mins)]]
    /\ onl' = [onl EXCEPT ![p] = online]
    /\ Goto(p, IF online = {} THEN "failed" ELSE "getActive")
    /\ UNCHANGED <<env, table, sweeping, ref, cand, held, attempt, dev, handle>>

\* GetActive evicts an expired lease; a live one is used if its device is in
\* the snapshot of the online set.
GetActive(p) ==
    LET l == byUser[tok[p].user]
        expired == {x \in {l} \ {NoLease} : Expired(x)}
        reuse == l # NoLease /\ expired = {} /\ lease[l].dev \in onl[p]
    IN  /\ pc[p] = "getActive"
        /\ byUser' = EvictUser(expired)
        /\ byDev' = EvictDev(expired)
        /\ ref' = [ref EXCEPT ![p] = IF reuse THEN l ELSE NoLease]
        /\ Goto(p, IF reuse THEN "acquireRef" ELSE "snapshot")
        /\ UNCHANGED <<env, lease, sweeping, tok, onl, cand, held, attempt, dev, handle>>

\* AcquireRef returns a noopHandle for a lease evicted since GetActive; Pick
\* returns the lease's device in both cases.
AcquireRef(p) ==
    LET l == ref[p]
        current == byUser[lease[l].user] = l
    IN  /\ pc[p] = "acquireRef"
        /\ lease' = IF current THEN [lease EXCEPT ![l].refcount = @ + 1] ELSE lease
        /\ handle' = [handle EXCEPT ![p] = IF current THEN l ELSE Noop]
        /\ dev' = [dev EXCEPT ![p] = lease[l].dev]
        /\ Goto(p, "dialing")
        /\ UNCHANGED <<env, byUser, byDev, sweeping, tok, onl, ref, cand, held, attempt>>

Snapshot(p) ==
    /\ pc[p] = "snapshot"
    /\ cand' = [cand EXCEPT ![p] = PoolSnapshot(pool, onl[p])]
    /\ Goto(p, "held")
    /\ UNCHANGED <<env, table, sweeping, tok, onl, ref, held, attempt, dev, handle>>

\* HeldDeviceIDs evicts every expired lease and reports the devices other
\* users hold.
HeldDeviceIDs(p) ==
    /\ pc[p] = "held"
    /\ byUser' = EvictUser(ExpiredByDev)
    /\ byDev' = EvictDev(ExpiredByDev)
    /\ held' = [held EXCEPT ![p] =
                  {d \in Devices : /\ byDev[d] # NoLease
                                   /\ ~Expired(byDev[d])
                                   /\ lease[byDev[d]].user # tok[p].user}]
    /\ Goto(p, "select")
    /\ UNCHANGED <<env, lease, sweeping, tok, onl, ref, cand, attempt, dev, handle>>

Select(p) ==
    LET best == SelectorPick(tok[p].country, cand[p], held[p], now)
    IN  /\ pc[p] = "select"
        /\ \/ /\ best = {}
              /\ Goto(p, "failed")
              /\ UNCHANGED dev
           \/ /\ \E d \in best : dev' = [dev EXCEPT ![p] = d]
              /\ Goto(p, "acquire")
        /\ UNCHANGED <<env, table, sweeping, tok, onl, ref, cand, held, attempt, handle>>

\* The device is leased to another user and the lease has not expired.
Taken(p) ==
    LET l == byDev[dev[p]]
    IN  l # NoLease /\ ~Expired(l) /\ lease[l].user # tok[p].user

\* Mutant of AcquireTaken: the same device is tried again and again.
AcquireTaken_Spin(p) ==
    /\ pc[p] = "acquire"
    /\ Taken(p)
    /\ attempt' = [attempt EXCEPT ![p] = 2]
    /\ UNCHANGED <<env, table, sweeping, pc, tok, onl, ref, cand, held, dev, handle>>

\* Acquire returns ErrDeviceTaken.  Pick tries again, once, from HeldDeviceIDs.
AcquireTaken(p) ==
    /\ pc[p] = "acquire"
    /\ Taken(p)
    /\ Goto(p, IF attempt[p] = 1 THEN "held" ELSE "failed")
    /\ attempt' = [attempt EXCEPT ![p] = 2]
    /\ UNCHANGED <<env, table, sweeping, tok, onl, ref, cand, held, dev, handle>>

\* Mutant of Acquire: HeldDeviceIDs is trusted, and whatever lease the device
\* has is evicted.
Acquire_Steals(p) ==
    LET u == tok[p].user
        d == dev[p]
        old == {byUser[u], byDev[d]} \ {NoLease}
    IN  /\ pc[p] = "acquire"
        /\ byUser' = [EvictUser(old) EXCEPT ![u] = p]
        /\ byDev' = [EvictDev(old) EXCEPT ![d] = p]
        /\ lease' = [lease EXCEPT ![p] = [user |-> u, dev |-> d,
                                          expires |-> now + tok[p].ttl,
                                          refcount |-> 1]]
        /\ handle' = [handle EXCEPT ![p] = p]
        /\ Goto(p, "dialing")
        /\ UNCHANGED <<env, sweeping, locals>>

\* Acquire evicts an expired lease of the device and whatever lease the user
\* has, then installs the new one under both indexes.
Acquire(p) ==
    LET u == tok[p].user
        d == dev[p]
        expired == {l \in {byDev[d]} \ {NoLease} : Expired(l)}
        old == {byUser[u]} \ {NoLease}
    IN  /\ pc[p] = "acquire"
        /\ ~Taken(p)
        /\ byUser' = [EvictUser(expired \cup old) EXCEPT ![u] = p]
        /\ byDev' = [EvictDev(expired \cup old) EXCEPT ![d] = p]
        /\ lease' = [lease EXCEPT ![p] = [user |-> u, dev |-> d,
                                          expires |-> now + tok[p].ttl,
                                          refcount |-> 1]]
        /\ handle' = [handle EXCEPT ![p] = p]
        /\ Goto(p, "dialing")
        /\ UNCHANGED <<env, sweeping, locals>>

-----------------------------------------------------------------------------
(* The caller of Pick: dial through the device, then relay until closed *)

DialOK(p) ==
    /\ pc[p] = "dialing"
    /\ Goto(p, "open")
    /\ UNCHANGED <<env, table, sweeping, locals, handle>>

\* Mutant of DialError: the error path forgets handle.Close.
DialError_Leak(p) ==
    /\ pc[p] = "dialing"
    /\ Goto(p, "failed")
    /\ UNCHANGED <<env, table, sweeping, locals, handle>>

DialError(p) ==
    /\ pc[p] = "dialing"
    /\ CloseHandle(p)
    /\ Goto(p, "failed")
    /\ UNCHANGED <<env, byUser, byDev, sweeping, locals>>

CloseConn(p) ==
    /\ pc[p] = "open"
    /\ CloseHandle(p)
    /\ Goto(p, "closed")
    /\ UNCHANGED <<env, byUser, byDev, sweeping, locals>>

-----------------------------------------------------------------------------
(* The sweeper, the clock and the rest of the server *)

Sweep ==
    /\ sweeping
    /\ byUser' = EvictUser(ExpiredByUser)
    /\ byDev' = EvictDev(ExpiredByUser)
    /\ UNCHANGED <<env, lease, sweeping, pc, locals, handle>>

\* Stop closes the channel and the goroutine leaves its select; nothing else
\* reads the channel, so the step is the exit.
Stop ==
    /\ sweeping
    /\ sweeping' = FALSE
    /\ UNCHANGED <<env, table, pc, locals, handle>>

Tick ==
    /\ now < MaxTime
    /\ now' = now + 1
    /\ UNCHANGED <<online, flaps, pool, table, sweeping, pc, locals, handle>>

\* Registry.Put and Remove, seen from here.
DeviceChange(d) ==
    /\ flaps < MaxFlaps
    /\ flaps' = flaps + 1
    /\ online' = IF d \in online THEN online \ {d} ELSE online \cup {d}
    /\ UNCHANGED <<now, pool, table, sweeping, pc, locals, handle>>

\* The heartbeat sink updates the pool; SeenAt is when the server received
\* the heartbeat, which may be earlier.
Heartbeat(d) ==
    /\ \E u \in Heartbeats :
          /\ u.seenAt <= now
          /\ pool' = [pool EXCEPT ![d] = PoolUpdate(@, u, now)]
    /\ UNCHANGED <<now, online, flaps, table, sweeping, pc, locals, handle>>

PickStep(p) ==
    \/ OnlineSet(p) \/ GetActive(p) \/ AcquireRef(p) \/ Snapshot(p)
    \/ HeldDeviceIDs(p) \/ Select(p) \/ AcquireTaken(p) \/ Acquire(p)

Next ==
    \/ \E p \in Picks : \/ BadUsername(p) \/ PickStep(p)
                        \/ DialOK(p) \/ DialError(p) \/ CloseConn(p)
    \/ Sweep \/ Stop \/ Tick
    \/ \E d \in Devices : DeviceChange(d) \/ Heartbeat(d)

Spec == Init /\ [][Next]_vars

\* A goroutine that can run does run; the sweeper's ticker keeps firing.  The
\* dial and the relay may take forever as far as this module knows.
FairSpec ==
    /\ Spec
    /\ \A p \in Picks : WF_vars(PickStep(p))
    /\ WF_vars(Sweep)

-----------------------------------------------------------------------------
(* Properties *)

\* The type invariant: leases last from MinDuration to MaxDuration and are counted in Nat
\* (username.go, lease.go).
TypeOK ==
    /\ now \in 0..MaxTime
    /\ online \subseteq Devices
    /\ flaps \in 0..MaxFlaps
    /\ pool \in [Devices -> DeviceStats]
    /\ byUser \in [Users -> Picks \cup {NoLease}]
    /\ byDev \in [Devices -> Picks \cup {NoLease}]
    /\ lease \in [Picks -> LeaseRecord \cup {NoRecord}]
    /\ sweeping \in BOOLEAN
    /\ pc \in [Picks -> Steps]
    /\ tok \in [Picks -> Token \cup {NoToken}]
    /\ onl \in [Picks -> SUBSET Devices]
    /\ ref \in [Picks -> Picks \cup {NoLease}]
    /\ DOMAIN cand = Picks
    /\ \A p \in Picks : /\ DOMAIN cand[p] \subseteq Devices
                        /\ \A d \in DOMAIN cand[p] : cand[p][d] \in DeviceStats
    /\ held \in [Picks -> SUBSET Devices]
    /\ attempt \in [Picks -> {1, 2}]
    /\ dev \in [Picks -> Devices \cup {NoDevice}]
    /\ handle \in [Picks -> Picks \cup {NoLease, Noop}]

\* "Both maps point to the same *Lease ... no callers see inconsistent
\* indexes" (lease.go:38-39): an entry of either index names an allocated
\* lease whose other index entry points back to it.
IndexesAgree ==
    /\ \A u \in Users : byUser[u] # NoLease =>
          LET l == lease[byUser[u]]
          IN  l \in LeaseRecord /\ l.user = u /\ byDev[l.dev] = byUser[u]
    /\ \A d \in Devices : byDev[d] # NoLease =>
          LET l == lease[byDev[d]]
          IN  l \in LeaseRecord /\ l.dev = d /\ byUser[l.user] = byDev[d]

\* What a Pick relies on between two steps: its locals are set before they
\* are read, and the leases it refers to have been allocated.
LocalsReady ==
    \A p \in Picks :
        /\ pc[p] \notin {"idle", "failed"} => tok[p] \in Token
        /\ pc[p] = "acquireRef" => ref[p] \in Picks
        /\ ref[p] \in Picks => lease[ref[p]] \in LeaseRecord
        /\ pc[p] = "acquire" => dev[p] \in Devices
        /\ handle[p] \in Picks => lease[handle[p]] \in LeaseRecord

PreAcquire == {"idle", "getActive", "acquireRef", "snapshot", "held", "select",
               "acquire"}

\* Nothing points to the lease a Pick has not allocated yet.
FreshUntilAcquire ==
    \A p \in Picks : pc[p] \in PreAcquire =>
        /\ lease[p] = NoRecord
        /\ \A u \in Users : byUser[u] # p
        /\ \A d \in Devices : byDev[d] # p
        /\ \A q \in Picks : ref[q] # p /\ handle[q] # p

\* The inductive invariant.
IInv ==
    /\ TypeOK
    /\ IndexesAgree
    /\ LocalsReady
    /\ FreshUntilAcquire

\* "keeping the lease refcount accurate" (main.go:313-315): a lease counts
\* the streams that hold an open handle on it, whether or not it is still in
\* the table, through replacement, failed dials and late closes.
RefcountMatchesHandles ==
    \A l \in Picks : lease[l].refcount = Cardinality({p \in Picks : handle[p] = l})

\* "On error there is nothing to clean up" (Pick) and the handle of a failed
\* dial is closed: no finished request keeps a handle, and a request that is
\* dialling or relaying has one.
HandleFollowsRequest ==
    \A p \in Picks : handle[p] # NoLease <=> pc[p] \in {"dialing", "open"}

\* Pick returns a device that was online when Pick looked, and leases it
\* freshly only if the selector's filter held for what Pick had seen.
PickRespectsSnapshot ==
    \A p \in Picks : pc[p] \in {"acquire", "dialing", "open", "closed"} =>
        /\ dev[p] \in onl[p]
        /\ ref[p] = NoLease => dev[p] \notin held[p]

\* The lease table keeps the promise of DeviceLease: lent once, taken back
\* only when expired or replaced by the same user.
Loans == {[user |-> lease[byDev[d]].user, dev |-> d,
           expires |-> lease[byDev[d]].expires] :
            d \in {e \in Devices : byDev[e] # NoLease}}

Abstract == INSTANCE DeviceLease WITH loans <- Loans

KeepsDeviceLease == Abstract!Spec

\* No Pick is stuck: each one settles on a device or fails.
PickSettles ==
    \A p \in Picks :
        pc[p] = "getActive" ~> pc[p] \in {"dialing", "open", "closed", "failed"}

\* An expired lease does not stay in the table: the sweeper or a later
\* request evicts it, unless the server is shutting down.
ExpiredLeasesLeave ==
    \A p \in Picks :
        (\E u \in Users : byUser[u] = p) /\ lease[p].expires = now
            ~> \/ ~sweeping
               \/ \A u \in Users : byUser[u] # p
=============================================================================

---------------------------- MODULE AccessProofs ----------------------------
(***************************************************************************)
(* Proofs about the access checks, for any names, connections and          *)
(* configuration files: strangers stay out, and a steady client is refused *)
(* only by a list whose cache was read while its source was torn.          *)
(***************************************************************************)
EXTENDS Access, TLAPS

\* The sources are there from the start.
SourcesExist ==
    /\ source \in [Lists -> SUBSET Names]
    /\ torn \in [Lists -> BOOLEAN]

\* Who a list never names.
Barred(l) == IF l = "nets" THEN NoNet ELSE NoCred

\* No cache, and no snapshot on its way to one, ever lists a barred name.
CachesBarStrangers ==
    \A l \in Lists : cache[l] \cap Barred(l) = {} /\ next[l] \cap Barred(l) = {}

\* main has loaded list l, if there is one.
Loaded(l) == boot \in {"serving", "stopped"} \/ (l = "nets" /\ boot = "creds")

\* A cache that is loaded, and a snapshot that is fetched, names every steady
\* client, unless it was read while the source was torn.
CachesComplete ==
    \A l \in Lists :
        /\ Loaded(l) /\ Cached(l) => l \in blank \/ Steady \subseteq cache[l]
        /\ fetch[l] = "fetched" => l \in nextBlank \/ Steady \subseteq next[l]

\* A connection exists only after the start, and one that is past a check has
\* passed it.
ChecksPassed ==
    \A c \in Conns :
        /\ pc[c] # "none" => boot \in {"serving", "stopped"}
        /\ pc[c] \in {"rule", "dial"} =>
              /\ CredsFrom # "off" => who[c] \notin NoCred /\ username[c] # ""
              /\ CredsFrom # "off" /\ SchedulerEnabled => username[c] = "token"
        /\ pc[c] = "dial" /\ NetsFrom # "off" => who[c] \notin NoNet

\* The inductive invariant.
AccessInv ==
    /\ TypeOK
    /\ SourcesExist
    /\ CachesBarStrangers
    /\ CachesComplete
    /\ ChecksPassed

\* The lists that are configured do not change while the server runs.
LEMMA FileIsFixed ==
    ASSUME UNCHANGED file
    PROVE  /\ \A l : From(l)' = From(l) /\ Cached(l)' = Cached(l)
           /\ NetsFrom' = NetsFrom /\ CredsFrom' = CredsFrom
           /\ SchedulerEnabled' = SchedulerEnabled
BY DEF From, Cached, NetsFrom, CredsFrom, SchedulerEnabled

\* A read that succeeds names nobody who is barred, and every steady client unless
\* the source is torn (credentials.go:141-154, whitelist.go:333).
LEMMA ReadsAreComplete ==
    ASSUME TypeOK, SourcesExist, NEW l \in Lists
    PROVE  /\ Read(l) \subseteq Names
           /\ Read(l) \cap Barred(l) = {}
           /\ ~torn[l] => Steady \subseteq Read(l)
<1>1. source[l] \in Listing(l)
  BY DEF TypeOK
<1>2. source[l] \subseteq Names /\ source[l] \cap Barred(l) = {} /\ Steady \subseteq source[l]
  BY <1>1 DEF Listing, Barred
<1>3. CASE torn[l]
  BY <1>3 DEF Read
<1>4. CASE ~torn[l]
  BY <1>2, <1>4 DEF Read
<1> QED BY <1>3, <1>4

\* The initial state satisfies the invariant.
LEMMA InitEstablishesAccessInv == Init => AccessInv
<1> SUFFICES ASSUME Init PROVE AccessInv
  OBVIOUS
<1>1. boot \in {"fatal", "nets"}
  BY DEF Init
<1>2. TypeOK
  BY <1>1, AccessAssumption DEF Init, TypeOK, Lists, Usernames
<1>3. SourcesExist /\ CachesBarStrangers
  BY DEF Init, SourcesExist, CachesBarStrangers
<1>4. CachesComplete /\ ChecksPassed
  BY <1>1 DEF Init, CachesComplete, ChecksPassed, Loaded
<1> QED BY <1>2, <1>3, <1>4 DEF AccessInv

\* An edit changes what the next read sees, and nothing that was read.
LEMMA SourceStep ==
    ASSUME AccessInv, NEW l \in Lists, EditSource(l) \/ Truncate(l) \/ FinishWrite(l)
    PROVE  AccessInv'
<1> USE DEF AccessInv
<1>1. UNCHANGED <<file, caches, conns>>
  BY DEF EditSource, Truncate, FinishWrite
<1>2. /\ \A k \in Lists : From(k)' = From(k) /\ Cached(k)' = Cached(k)
      /\ NetsFrom' = NetsFrom /\ CredsFrom' = CredsFrom
      /\ SchedulerEnabled' = SchedulerEnabled
  BY <1>1, FileIsFixed
<1>3. /\ SourcesExist'
      /\ \A k \in Lists : source'[k] \in Listing(k) /\ (torn'[k] => Cached(k))
  <2>1. \A s \in Listing(l) : s \subseteq Names
    BY DEF Listing
  <2>2. CASE EditSource(l)
    BY <2>1, <2>2 DEF EditSource, SourcesExist, TypeOK
  <2>3. CASE Truncate(l)
    BY <2>3 DEF Truncate, SourcesExist, TypeOK
  <2>4. CASE FinishWrite(l)
    BY <2>1, <2>4 DEF FinishWrite, SourcesExist, TypeOK
  <2> QED BY <2>2, <2>3, <2>4
<1>4. TypeOK'
  BY <1>1, <1>2, <1>3 DEF TypeOK, caches, history, conns, Listing
<1>5. CachesBarStrangers' /\ CachesComplete' /\ ChecksPassed'
  BY <1>1, <1>2 DEF CachesBarStrangers, CachesComplete, ChecksPassed, Loaded, caches, history, conns
<1> QED BY <1>3, <1>4, <1>5

\* A cache changes only to the result of a successful read: at the start, and when
\* the refresh loop stores what it has fetched; a failed refresh keeps it
\* (whitelist.go:81-95, 114-141; credentials.go:72-84).
LEMMA CacheStep ==
    ASSUME AccessInv, NEW l \in Lists,
           \/ Start(l) \/ StartFails(l) \/ LoopEnds(l) \/ Fetch(l) \/ Store(l)
    PROVE  AccessInv'
<1> USE DEF AccessInv
<1>1. UNCHANGED <<sources, conns>>
  BY DEF Start, StartFails, LoopEnds, Fetch, Store
<1>2. /\ \A k \in Lists : From(k)' = From(k) /\ Cached(k)' = Cached(k)
      /\ NetsFrom' = NetsFrom /\ CredsFrom' = CredsFrom
      /\ SchedulerEnabled' = SchedulerEnabled
  BY <1>1, FileIsFixed DEF sources
<1>3. /\ Read(l) \subseteq Names /\ Read(l) \cap Barred(l) = {} 
      /\ ~torn[l] => Steady \subseteq Read(l)
  BY ReadsAreComplete
<1>4. /\ cache' \in [Lists -> SUBSET Names]
      /\ fetch' \in [Lists -> {"off", "idle", "fetched"}]
      /\ next' \in [Lists -> SUBSET Names]
      /\ blank' \subseteq Lists /\ nextBlank' \subseteq Lists
      /\ \A k \in Lists : fetch'[k] # "off" => Cached(k)
  BY <1>3 DEF TypeOK, Start, StartFails, LoopEnds, Fetch, Store, Marked, history
<1>5. boot' \in Lists \cup {"serving", "fatal", "stopped"}
  BY DEF TypeOK, Start, StartFails, LoopEnds, Fetch, Store, Lists
<1>6. TypeOK'
  BY <1>1, <1>2, <1>4, <1>5 DEF TypeOK, sources, conns, Listing
<1>7. SourcesExist'
  BY <1>1 DEF SourcesExist, sources
<1>8. CachesBarStrangers'
  BY <1>3 DEF CachesBarStrangers, TypeOK, Start, StartFails, LoopEnds, Fetch, Store
<1>9. CachesComplete'
  <2>1. CASE Start(l)
    BY <1>2, <1>3, <2>1 DEF CachesComplete, TypeOK, Start, Loaded, Lists, Marked
  <2>2. CASE StartFails(l) \/ LoopEnds(l)
    BY <1>2, <2>2 DEF CachesComplete, TypeOK, StartFails, LoopEnds, Loaded, history
  <2>3. CASE Fetch(l)
    BY <1>2, <1>3, <2>3 DEF CachesComplete, TypeOK, Fetch, Loaded, Marked
  <2>4. CASE Store(l)
    BY <1>2, <2>4 DEF CachesComplete, TypeOK, Store, Loaded, Marked
  <2> QED BY <2>1, <2>2, <2>3, <2>4
<1>10. ChecksPassed'
  <2>1. boot \in {"serving", "stopped"} => boot' \in {"serving", "stopped"}
    BY DEF Start, StartFails, LoopEnds, Fetch, Store, Lists
  <2> QED BY <1>1, <1>2, <2>1 DEF ChecksPassed, conns
<1> QED BY <1>6, <1>7, <1>8, <1>9, <1>10

\* The server stops: what is loaded stays loaded.
LEMMA StopStep == ASSUME AccessInv, Stop PROVE AccessInv'
<1> USE DEF AccessInv
<1>1. /\ \A k \in Lists : From(k)' = From(k) /\ Cached(k)' = Cached(k)
      /\ NetsFrom' = NetsFrom /\ CredsFrom' = CredsFrom
      /\ SchedulerEnabled' = SchedulerEnabled
  BY FileIsFixed DEF Stop, sources
<1>2. TypeOK' /\ SourcesExist'
  BY <1>1 DEF Stop, TypeOK, SourcesExist, history, sources, conns, Listing
<1>3. CachesBarStrangers' /\ CachesComplete' /\ ChecksPassed'
  BY <1>1 DEF Stop, CachesBarStrangers, CachesComplete, ChecksPassed, Loaded, history, conns
<1> QED BY <1>2, <1>3

\* What Valid establishes (socksauth.go): the store that is configured has accepted
\* the username and the password.
LEMMA ValidMeansKnown ==
    ASSUME AccessInv, NEW c \in Conns, Valid(c), CredsFrom # "off"
    PROVE  /\ who[c] \notin NoCred /\ username[c] # ""
           /\ SchedulerEnabled => username[c] = "token"
<1>1. CredsFrom \in {"file", "secret"}
  BY DEF CredsFrom
<1>2. WellFormed(c) /\ (CacheValid(c) \/ SecretValid(c))
  BY <1>1 DEF Valid
<1>3. cache["creds"] \cap NoCred = {}
  BY DEF AccessInv, CachesBarStrangers, Barred, Lists
<1> QED BY <1>2, <1>3 DEF WellFormed, CacheValid, SecretValid

\* A connection moves past a check only if it passes it.
LEMMA ConnStep ==
    ASSUME AccessInv, NEW c \in Conns,
           Connect(c) \/ Authenticate(c) \/ Allow(c) \/ Disconnect(c)
    PROVE  AccessInv'
<1> USE DEF AccessInv
<1>1. UNCHANGED <<sources, caches>>
  BY DEF Connect, Authenticate, Allow, Disconnect
<1>2. /\ \A k \in Lists : From(k)' = From(k) /\ Cached(k)' = Cached(k)
      /\ NetsFrom' = NetsFrom /\ CredsFrom' = CredsFrom
      /\ SchedulerEnabled' = SchedulerEnabled
  BY <1>1, FileIsFixed DEF sources
<1>3. TypeOK'
  <2>1. /\ pc' \in [Conns -> {"none", "auth", "rule", "dial", "refused"}]
        /\ who' \in [Conns -> Names \cup {NoName}]
        /\ username' \in [Conns -> Usernames]
    <3>1. CASE Connect(c)
      BY <3>1 DEF TypeOK, Connect
    <3>2. CASE Authenticate(c) \/ Allow(c)
      BY <3>2 DEF TypeOK, Authenticate, Allow
    <3>3. CASE Disconnect(c)
      BY <3>3 DEF TypeOK, Disconnect, Usernames
    <3> QED BY <3>1, <3>2, <3>3
  <2> QED BY <1>1, <1>2, <2>1 DEF TypeOK, sources, caches, history, Listing
<1>4. SourcesExist' /\ CachesBarStrangers' /\ CachesComplete'
  BY <1>1, <1>2 DEF SourcesExist, CachesBarStrangers, CachesComplete, Loaded, sources, caches, history
<1>5. ChecksPassed'
  <2>1. CASE Connect(c) \/ Disconnect(c)
    BY <1>1, <1>2, <2>1 DEF ChecksPassed, Connect, Disconnect, TypeOK, caches
  <2>2. CASE Authenticate(c)
    BY <1>1, <1>2, <2>2, ValidMeansKnown DEF ChecksPassed, Authenticate, TypeOK, caches
  <2>3. CASE Allow(c)
    <3>1. cache["nets"] \cap NoNet = {}
      BY DEF CachesBarStrangers, Barred, Lists
    <3> QED BY <1>1, <1>2, <2>3, <3>1 DEF ChecksPassed, Allow, TypeOK, caches
  <2> QED BY <2>1, <2>2, <2>3
<1> QED BY <1>3, <1>4, <1>5

\* Every step preserves the invariant.
LEMMA NextPreservesAccessInv == AccessInv /\ [Next]_vars => AccessInv'
<1> SUFFICES ASSUME AccessInv, [Next]_vars PROVE AccessInv'
  OBVIOUS
<1>1. CASE UNCHANGED vars
  <2>1. /\ \A k \in Lists : From(k)' = From(k) /\ Cached(k)' = Cached(k)
        /\ NetsFrom' = NetsFrom /\ CredsFrom' = CredsFrom
        /\ SchedulerEnabled' = SchedulerEnabled
    BY <1>1, FileIsFixed DEF vars, sources
  <2> QED BY <1>1, <2>1 DEF vars, sources, caches, history, conns, AccessInv, TypeOK, SourcesExist,
             CachesBarStrangers, CachesComplete, ChecksPassed, Loaded, Listing
<1>2. ASSUME NEW l \in Lists, FetchFails(l) PROVE UNCHANGED vars
  BY <1>2 DEF FetchFails
<1> QED BY <1>1, <1>2, SourceStep, CacheStep, StopStep, ConnStep DEF Next

\* The invariant holds throughout.
THEOREM AccessInvHolds == Spec => []AccessInv
BY InitEstablishesAccessInv, NextPreservesAccessInv, PTL DEF Spec

\* Lists hold names and only configured ones are refreshed, for any names,
\* connections and files.
THEOREM AccessTypeCorrect == Spec => []TypeOK
<1>1. AccessInv => TypeOK
  BY DEF AccessInv
<1> QED BY <1>1, AccessInvHolds, PTL

\* Nobody reaches the dial without what the configured lists ask for, however edits,
\* failed refreshes and swaps fall between the two checks (whitelist.go:145).
THEOREM StrangersAlwaysStayOut == Spec => []StrangersStayOut
<1>1. AccessInv => StrangersStayOut
  BY DEF AccessInv, ChecksPassed, StrangersStayOut
<1> QED BY <1>1, AccessInvHolds, PTL

\* A steady client is refused only by a list whose cache holds what was read while
\* its source was torn: no failed refresh, and nothing else, takes a steady name out
\* of the cached credentials or of the cached whitelist (credentials.go:20-22).
THEOREM SteadyClientsAlwaysGetIn == Spec => SteadyClientsGetIn
<1> DEFINE Refused(c) ==
              /\ who[c] \in Steady
              /\ username[c] = IF SchedulerEnabled THEN "token" ELSE "account"
              /\ pc[c] # "refused" /\ pc'[c] = "refused"
           ByTornRead(c) == IF pc[c] = "auth" THEN "creds" \in blank ELSE "nets" \in blank
<1>1. ASSUME AccessInv, [Next]_vars, NEW c \in Conns, Refused(c) PROVE ByTornRead(c)
  <2> USE DEF AccessInv
  <2>0. who[c] \notin NoCred
    BY <1>1, AccessAssumption
  <2>1. CASE Authenticate(c)
    <3>1. ~Valid(c) /\ pc[c] = "auth"
      BY <1>1, <2>1 DEF Authenticate, TypeOK
    <3>2. WellFormed(c)
      BY <1>1 DEF WellFormed
    <3>3. CredsFrom = "file" /\ ~CacheValid(c)
      <4>1. CredsFrom \in {"off", "secret", "file"}
        BY DEF CredsFrom
      <4> QED BY <2>0, <3>1, <3>2, <4>1 DEF Valid, SecretValid
    <3>4. who[c] \notin cache["creds"]
      BY <1>1, <3>3 DEF CacheValid
    <3>5. From("creds") = "file" /\ Cached("creds") /\ Loaded("creds")
      BY <1>1, <3>1, <3>3 DEF From, Cached, Loaded, ChecksPassed
    <3>6. "creds" \in blank \/ Steady \subseteq cache["creds"]
      BY <1>1, <3>5 DEF CachesComplete, Lists
    <3> QED BY <1>1, <3>1, <3>4, <3>6
  <2>2. CASE Allow(c)
    <3>1. NetsFrom # "off" /\ who[c] \notin cache["nets"] /\ pc[c] = "rule"
      BY <1>1, <2>2 DEF Allow, TypeOK
    <3>2. Cached("nets") /\ Loaded("nets")
      BY <1>1, <3>1 DEF NetsFrom, From, Cached, Loaded, ChecksPassed
    <3>3. "nets" \in blank \/ Steady \subseteq cache["nets"]
      BY <1>1, <3>2 DEF CachesComplete, Lists
    <3> QED BY <1>1, <3>1, <3>3
  <2>3. ASSUME NEW k \in Conns,
               Connect(k) \/ Disconnect(k) \/ (k # c /\ (Authenticate(k) \/ Allow(k)))
        PROVE  FALSE
    BY <1>1, <2>3 DEF Connect, Disconnect, Authenticate, Allow, TypeOK
  <2>4. CASE \/ UNCHANGED vars \/ Stop
             \/ \E l \in Lists : \/ EditSource(l) \/ Truncate(l) \/ FinishWrite(l)
                                 \/ Start(l) \/ StartFails(l) \/ LoopEnds(l)
                                 \/ Fetch(l) \/ FetchFails(l) \/ Store(l)
    <3>1. pc' = pc
      BY <2>4 DEF vars, conns, Stop, EditSource, Truncate, FinishWrite, Start, StartFails,
                  LoopEnds, Fetch, FetchFails, Store
    <3> QED BY <1>1, <3>1
  <2> QED BY <1>1, <2>1, <2>2, <2>3, <2>4 DEF Next
<1>2. AccessInv /\ [Next]_vars =>
        [\A c \in Conns :
            /\ who[c] \in Steady /\ username[c] = IF SchedulerEnabled THEN "token" ELSE "account"
            /\ pc[c] # "refused" /\ pc'[c] = "refused"
            => IF pc[c] = "auth" THEN "creds" \in blank ELSE "nets" \in blank]_vars
  BY <1>1
<1> QED BY <1>2, AccessInvHolds, PTL DEF Spec, SteadyClientsGetIn
=============================================================================

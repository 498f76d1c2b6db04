------------------------------- MODULE Access -------------------------------
(***************************************************************************)
(* Who may use the SOCKS5 server: what sockssetup builds from the          *)
(* configuration, the CredentialCache and the IPWhitelistCache of          *)
(* server/hub, each refreshed from a source that may fail or be read in    *)
(* the middle of an edit, and the two checks a connection passes,          *)
(* authentication and then the rule set.  A name stands for an account and *)
(* for the client address it comes from.                                   *)
(***************************************************************************)
EXTENDS Config, FiniteSets

CONSTANTS
    Conns,         \* SOCKS5 connections
    Names,         \* who may connect
    Steady,        \* names with the right password that both sources list all the time
    NoNet,         \* names whose address the whitelist never covers
    NoCred,        \* names without a right password
    NoName,        \* no connection yet
    ServerFiles    \* the server's configuration file

ASSUME AccessAssumption ==
    /\ Steady \subseteq Names
    /\ Steady \cap (NoNet \cup NoCred) = {}
    /\ NoName \notin Names

VARIABLES
    file,     \* the server's configuration file
    source,   \* what each source lists at this moment
    torn,     \* the source is being rewritten and yields an empty list so far
    cache,    \* what each cache holds
    fetch,    \* where each refresh loop is
    next,     \* the snapshot it has fetched and not stored yet
    blank,    \* the lists whose cache holds what a source yielded while torn
    nextBlank,  \* the same of next; both are history, no step depends on them
    boot,     \* where main is: the caches are loaded one after the other
    pc, who,  \* each connection
    username  \* what it gives as its username

sources == <<file, source, torn>>
history == <<blank, nextBlank>>
caches == <<cache, fetch, next, boot, history>>
conns == <<pc, who, username>>
vars == <<sources, caches, conns>>

Lists == {"nets", "creds"}

\* A username is empty, the account's name, or a well-formed scheduler token of
\* the account.
Usernames == {"", "account", "token"}

\* What a list may hold: names, once its lines are parsed.
Listing(l) ==
    {s \in SUBSET (Names \ IF l = "nets" THEN NoNet ELSE NoCred) : Steady \subseteq s}

\* BuildSocksRuleSet: the URL comes before the file; without either, no list.
NetsFrom == IF file.url THEN "url" ELSE IF file.nets_file THEN "file" ELSE "off"

\* ConfigureSocksAuth: the file comes before the shared secret.
CredsFrom == IF file.creds_file THEN "file" ELSE IF file.password THEN "secret" ELSE "off"

From(l) == IF l = "nets" THEN NetsFrom ELSE CredsFrom

Cached(l) == From(l) \in {"url", "file"}

SchedulerEnabled == file.scheme = "scheduler"

Init ==
    /\ file \in ServerFiles
    /\ source \in [Lists -> SUBSET Names] /\ \A l \in Lists : source[l] \in Listing(l)
    /\ torn = [l \in Lists |-> FALSE]
    /\ cache = [l \in Lists |-> {}]
    /\ fetch = [l \in Lists |-> "off"]
    /\ next = [l \in Lists |-> {}]
    /\ blank = {} /\ nextBlank = {}
    /\ boot = IF LoadServer(file) = {} THEN "fatal" ELSE "nets"
    /\ pc = [c \in Conns |-> "none"]
    /\ who = [c \in Conns |-> NoName]
    /\ username = [c \in Conns |-> ""]

-----------------------------------------------------------------------------
(* The sources *)

\* The file is replaced, or the admin service changes its answer.
EditSource(l) ==
    /\ Cached(l) /\ ~torn[l]
    /\ \E s \in Listing(l) \ {source[l]} : source' = [source EXCEPT ![l] = s]
    /\ UNCHANGED <<file, torn, caches, conns>>

\* An editor that writes in place truncates the file first; the admin answers
\* [] or null until its table is filled.
Truncate(l) ==
    /\ Cached(l) /\ ~torn[l]
    /\ torn' = [torn EXCEPT ![l] = TRUE]
    /\ UNCHANGED <<file, source, caches, conns>>

FinishWrite(l) ==
    /\ torn[l]
    /\ \E s \in Listing(l) : source' = [source EXCEPT ![l] = s]
    /\ torn' = [torn EXCEPT ![l] = FALSE]
    /\ UNCHANGED <<file, caches, conns>>

\* FetchCIDRs and FetchAll.  An empty file is an empty list and not an error, and
\* so is a URL's [] or null; the URL's empty body is an error (FetchFails).
Read(l) == IF torn[l] THEN {} ELSE source[l]

\* The history of a snapshot of list l that was read while torn, or was not.
Marked(S, l, isBlank) == IF isBlank THEN S \cup {l} ELSE S \ {l}

-----------------------------------------------------------------------------
(* The caches *)

\* Mutant of Start: the cache is built without looking whether the configuration
\* names a source for it.
Start_Unconfigured(l) ==
    /\ boot = l
    /\ cache' = [cache EXCEPT ![l] = Read(l)]
    /\ blank' = Marked(blank, l, torn[l])
    /\ fetch' = [fetch EXCEPT ![l] = "idle"]
    /\ boot' = IF l = "nets" THEN "creds" ELSE "serving"
    /\ UNCHANGED <<next, nextBlank, sources, conns>>

\* Start loads the cache and starts the refresh loop, first the whitelist's
\* and then the credentials', each if there is such a list.
Start(l) ==
    /\ boot = l
    /\ cache' = [cache EXCEPT ![l] = IF Cached(l) THEN Read(l) ELSE {}]
    /\ blank' = Marked(blank, l, torn[l])
    /\ fetch' = [fetch EXCEPT ![l] = IF Cached(l) THEN "idle" ELSE "off"]
    /\ boot' = IF l = "nets" THEN "creds" ELSE "serving"
    /\ UNCHANGED <<next, nextBlank, sources, conns>>

\* The first load fails: the server does not start.
StartFails(l) ==
    /\ boot = l /\ Cached(l)
    /\ boot' = "fatal"
    /\ UNCHANGED <<cache, fetch, next, history, sources, conns>>

\* The process lives; a select may prefer its tick to a cancelled context.
Running == boot # "fatal"

\* The signal that ends the server cancels the loops' context.
Stop ==
    /\ boot = "serving"
    /\ boot' = "stopped"
    /\ UNCHANGED <<cache, fetch, next, history, sources, conns>>

\* A loop that is not refreshing returns.
LoopEnds(l) ==
    /\ boot = "stopped" /\ fetch[l] = "idle"
    /\ fetch' = [fetch EXCEPT ![l] = "off"]
    /\ UNCHANGED <<cache, next, boot, history, sources, conns>>

\* Reading a file does not look at the context, asking the URL does.
Fetch(l) ==
    /\ Running /\ fetch[l] = "idle"
    /\ From(l) = "url" => boot # "stopped"
    /\ next' = [next EXCEPT ![l] = Read(l)]
    /\ nextBlank' = Marked(nextBlank, l, torn[l])
    /\ fetch' = [fetch EXCEPT ![l] = "fetched"]
    /\ UNCHANGED <<cache, blank, boot, sources, conns>>

\* Mutant of FetchFails: an error is taken for an empty list.
FetchFails_Clears(l) ==
    /\ Running /\ fetch[l] = "idle"
    /\ cache' = [cache EXCEPT ![l] = {}]
    /\ UNCHANGED <<fetch, next, boot, history, sources, conns>>

\* The source cannot be read or does not parse, to the last line of it: the
\* loop keeps the previous snapshot and goes on.
FetchFails(l) ==
    /\ Running /\ fetch[l] = "idle"
    /\ UNCHANGED vars

\* Mutant of Store: the new entries are added to the old ones.
Store_Adds(l) ==
    /\ Running /\ fetch[l] = "fetched"
    /\ cache' = [cache EXCEPT ![l] = @ \cup next[l]]
    /\ next' = [next EXCEPT ![l] = {}]
    /\ blank' = Marked(blank, l, l \in nextBlank) /\ nextBlank' = nextBlank \ {l}
    /\ fetch' = [fetch EXCEPT ![l] = "idle"]
    /\ UNCHANGED <<boot, sources, conns>>

\* Refresh replaces the snapshot under the lock.
Store(l) ==
    /\ Running /\ fetch[l] = "fetched"
    /\ cache' = [cache EXCEPT ![l] = next[l]]
    /\ next' = [next EXCEPT ![l] = {}]
    /\ blank' = Marked(blank, l, l \in nextBlank) /\ nextBlank' = nextBlank \ {l}
    /\ fetch' = [fetch EXCEPT ![l] = "idle"]
    /\ UNCHANGED <<boot, sources, conns>>

-----------------------------------------------------------------------------
(* A connection *)

Connect(c) ==
    /\ boot = "serving" /\ pc[c] = "none"
    /\ \E n \in Names, u \in Usernames :
           who' = [who EXCEPT ![c] = n] /\ username' = [username EXCEPT ![c] = u]
    /\ pc' = [pc EXCEPT ![c] = "auth"]
    /\ UNCHANGED <<sources, caches>>

\* UsernameCredentialStore parses the username; without it any name will do.
WellFormed(c) == IF SchedulerEnabled THEN username[c] = "token" ELSE username[c] # ""

\* SOCKSPlainAuth.Valid: whoever knows the shared secret.
SecretValid(c) == who[c] \notin NoCred

\* CredentialCache.Valid.  The credentials file lists accounts, so without the
\* scheduler scheme a token is no key of it.
CacheValid(c) == who[c] \in cache["creds"] /\ (SchedulerEnabled \/ username[c] = "account")

\* The store that ConfigureSocksAuth has chosen, if any, decides.
Valid(c) ==
    CASE CredsFrom = "off" -> TRUE
      [] CredsFrom = "secret" -> WellFormed(c) /\ SecretValid(c)
      [] CredsFrom = "file" -> WellFormed(c) /\ CacheValid(c)

Authenticate(c) ==
    /\ pc[c] = "auth"
    /\ pc' = [pc EXCEPT ![c] = IF Valid(c) THEN "rule" ELSE "refused"]
    /\ UNCHANGED <<sources, caches, who, username>>

\* Mutant of Allow: a name that has authenticated is not checked.
Allow_Any(c) ==
    /\ pc[c] = "rule"
    /\ pc' = [pc EXCEPT ![c] = "dial"]
    /\ UNCHANGED <<sources, caches, who, username>>

\* IPRuleSet.Allow, or the bare command permit where there is no list.
Allow(c) ==
    /\ pc[c] = "rule"
    /\ pc' = [pc EXCEPT ![c] = IF NetsFrom = "off" \/ who[c] \in cache["nets"] THEN "dial" ELSE "refused"]
    /\ UNCHANGED <<sources, caches, who, username>>

\* ServeConn returns: refused, served, or left by the client in between.
Disconnect(c) ==
    /\ pc[c] # "none"
    /\ pc' = [pc EXCEPT ![c] = "none"]
    /\ who' = [who EXCEPT ![c] = NoName]
    /\ username' = [username EXCEPT ![c] = ""]
    /\ UNCHANGED <<sources, caches>>

Next ==
    \/ Stop
    \/ \E l \in Lists : \/ EditSource(l) \/ Truncate(l) \/ FinishWrite(l)
                        \/ Start(l) \/ StartFails(l) \/ LoopEnds(l)
                        \/ Fetch(l) \/ FetchFails(l) \/ Store(l)
    \/ \E c \in Conns : Connect(c) \/ Authenticate(c) \/ Allow(c) \/ Disconnect(c)

Spec == Init /\ [][Next]_vars

\* The refresh ticker runs, and a source that is asked again and again answers
\* again and again.
FairSpec == Spec /\ \A l \in Lists : SF_vars(Fetch(l)) /\ WF_vars(Store(l))

-----------------------------------------------------------------------------
(* Properties *)

\* The type invariant: lists hold names, and only a list the configuration gives
\* a source is refreshed (BuildSocksRuleSet, ConfigureSocksAuth).
TypeOK ==
    /\ file \in ServerFiles
    /\ \A l \in Lists : source[l] \in Listing(l) /\ (torn[l] => Cached(l))
    /\ cache \in [Lists -> SUBSET Names]
    /\ fetch \in [Lists -> {"off", "idle", "fetched"}]
    /\ \A l \in Lists : fetch[l] # "off" => Cached(l)
    /\ next \in [Lists -> SUBSET Names]
    /\ blank \subseteq Lists /\ nextBlank \subseteq Lists
    /\ boot \in Lists \cup {"serving", "fatal", "stopped"}
    /\ pc \in [Conns -> {"none", "auth", "rule", "dial", "refused"}]
    /\ who \in [Conns -> Names \cup {NoName}]
    /\ username \in [Conns -> Usernames]

\* "a transient admin outage must not lock everyone out" (credentials.go:20-22):
\* a client with the right password and a proper username that the sources list
\* all the time is never refused, whatever refreshes fail and whenever the lists
\* change between its two checks.  The one exception is the list whose cache
\* holds a snapshot that was read while the source was torn: a truncated file
\* or an empty answer is a list with nobody on it (credentials.go:147,
\* whitelist.go:333).  A cache that anything else has emptied is no excuse.
SteadyClientsGetIn ==
    [][\A c \in Conns :
          /\ who[c] \in Steady /\ username[c] = IF SchedulerEnabled THEN "token" ELSE "account"
          /\ pc[c] # "refused" /\ pc'[c] = "refused"
          => IF pc[c] = "auth" THEN "creds" \in blank ELSE "nets" \in blank]_vars

\* Whatever edits, failed refreshes and swaps fall between the two checks, the
\* lists that are configured count: a client without a right password, without
\* a proper username, or from an address that is never listed does not reach
\* the dial ("client IP allowlist, then defers to Inner", whitelist.go:145).
StrangersStayOut ==
    \A c \in Conns :
        pc[c] = "dial" =>
            /\ NetsFrom # "off" => who[c] \notin NoNet
            /\ CredsFrom # "off" => who[c] \notin NoCred /\ username[c] # ""
            /\ CredsFrom # "off" /\ SchedulerEnabled => username[c] = "token"

\* "editing it on disk is picked up by the next refresh tick"
\* (credentials.go:139-140): a name that is taken off a list for good leaves the
\* cache, also after failed refreshes, and one that stays on it is in the cache
\* for good sooner or later, also after the file was read half-written.
CacheFollowsSource ==
    \A l \in Lists, n \in Names :
        /\ <>[](n \notin source[l]) => <>[](boot = "serving" => n \notin cache[l])
        /\ <>[](n \in source[l] /\ ~torn[l]) => <>[](boot = "serving" /\ Cached(l) => n \in cache[l])
=============================================================================

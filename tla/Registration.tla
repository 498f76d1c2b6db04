---------------------------- MODULE Registration ----------------------------
(***************************************************************************)
(* First-boot registration: RegisterDevice on the phone, the admin's HTTP  *)
(* service with its POST /register handler, and the MongoDB collection     *)
(* behind it.  Requests and answers may be lost, the phone may give up     *)
(* while its handler is still at work, two handlers may upsert the same    *)
(* phone at once, and the admin may be stopped, killed and started again.  *)
(***************************************************************************)
EXTENDS Config

CONSTANTS
    Calls,        \* calls of RegisterDevice, one per boot thread of an app
    Phones,
    Reports,      \* per phone, the sets of identifiers an app may manage to read
    AppKeys,      \* AES keys built into apps
    Deltas,       \* the phone's clock less the admin's, in seconds
    IDs,          \* what NewDeviceID may draw
    AdminFiles,   \* the admin's configuration file
    MaxStarts,    \* bound on the starts of the admin
    NoFp,         \* the empty fingerprint
    NoID          \* no DeviceID

ASSUME RegistrationAssumption ==
    /\ NoID \notin IDs /\ IsFiniteSet(Calls)
    /\ MaxStarts \in Nat /\ Deltas \subseteq Int
    /\ \A f \in AdminFiles : f.heartbeat \in Int /\ f.initial \in Int /\ f.max \in Int

VARIABLES
    file,      \* the admin's configuration file
    admin,     \* the admin process: off, serving, draining, closed
    starts,    \* how often it has been started
    call,      \* the client side of each call
    handler,   \* the handler that serves it
    doc        \* the device collection, by _id

regVars == <<file, admin, starts, call, handler, doc>>

\* The configuration a started admin runs with.
cfg == CHOOSE c \in LoadAdmin(file) : TRUE

NoInfo == [phone |-> "none", reported |-> {}, delta |-> 0, key |-> ""]

NoAnswer == [id |-> NoID, heartbeat |-> 0, initial |-> 0, max |-> 0]

NoDoc == [fingerprint |-> NoFp, register_count |-> 0]

InFlight(t) == handler[t].pc \in {"find", "insert", "reply"}

RegInit ==
    /\ file \in AdminFiles
    /\ admin = "off"
    /\ starts = 0
    /\ call = [t \in Calls |-> [pc |-> "idle", info |-> NoInfo, answer |-> NoAnswer]]
    /\ handler = [t \in Calls |-> [pc |-> "none", newID |-> NoID, id |-> NoID]]
    /\ doc = [i \in IDs |-> NoDoc]

-----------------------------------------------------------------------------
(* The phone *)

\* The request is posted; without a key RegisterDevice fails at once.
RegisterDevice(t) ==
    /\ call[t].pc = "idle"
    /\ \/ \E p \in Phones : \E r \in Reports[p], d \in Deltas, k \in AppKeys :
              call' = [call EXCEPT ![t].pc = "posted",
                                   ![t].info = [phone |-> p, reported |-> r, delta |-> d, key |-> k]]
       \/ call' = [call EXCEPT ![t].pc = "failed"]
    /\ UNCHANGED <<file, admin, starts, handler, doc>>

\* The 20 s of the HTTP client or the app's own timeout run out, or the
\* connection breaks.  The admin may still get, or be serving, the request.
GiveUp(t) ==
    /\ call[t].pc = "posted"
    /\ call' = [call EXCEPT ![t].pc = "failed"]
    /\ UNCHANGED <<file, admin, starts, handler, doc>>

-----------------------------------------------------------------------------
(* The handler *)

\* decryptPlayload: another key leaves no valid padding, base64 or JSON.
decryptPlayload(info) == info.key = cfg.key

\* The strongest identifier the phone reports.
Fingerprint(info) ==
    LET order == <<"android_id", "imei", "serial_number">>
        known == {i \in 1..3 : order[i] \in info.reported}
    IN  IF known = {} THEN NoFp ELSE <<info.phone, order[Min(known)]>>

abs64(x) == IF x < 0 THEN -x ELSE x

\* Up to the call of UpsertDevice, which draws the ID a new document would get.
\* A request that does not decrypt or whose clock is off is answered with an error.
ServeHTTP(t) ==
    /\ admin = "serving" /\ handler[t].pc = "none"
    /\ call[t].pc \in {"posted", "failed"} /\ call[t].info # NoInfo
    /\ LET info == call[t].info
       IN  IF decryptPlayload(info) /\ abs64(info.delta) <= cfg.skew
           THEN \E i \in IDs : handler' = [handler EXCEPT ![t] =
                    [pc |-> IF Fingerprint(info) = NoFp THEN "insert" ELSE "find", newID |-> i, id |-> NoID]]
           ELSE handler' = [handler EXCEPT ![t].pc = "reply"]
    /\ UNCHANGED <<file, admin, starts, call, doc>>

\* The store answers the handler, or the answer is lost although it has acted.
StoreAnswers(t, i) ==
    \E known \in {i, NoID} : handler' = [handler EXCEPT ![t].pc = "reply", ![t].id = known]

Holders(fp) == {i \in IDs : doc[i].register_count > 0 /\ doc[i].fingerprint = fp}

\* Mutant of FindOneAndUpdate: $inc is left out.
FindOneAndUpdate_NoInc(t) ==
    /\ handler[t].pc = "find" /\ admin # "closed"
    /\ \E i \in Holders(Fingerprint(call[t].info)) : StoreAnswers(t, i)
    /\ UNCHANGED <<file, admin, starts, call, doc>>

\* The upsert finds the document of this fingerprint and updates it.
FindOneAndUpdate(t) ==
    /\ handler[t].pc = "find" /\ admin # "closed"
    /\ \E i \in Holders(Fingerprint(call[t].info)) :
           /\ doc' = [doc EXCEPT ![i].register_count = @ + 1]
           /\ StoreAnswers(t, i)
    /\ UNCHANGED <<file, admin, starts, call>>

\* It finds none: MongoDB goes on to insert one, in a step of its own.
FindsNothing(t) ==
    /\ handler[t].pc = "find" /\ admin # "closed"
    /\ Holders(Fingerprint(call[t].info)) = {}
    /\ handler' = [handler EXCEPT ![t].pc = "insert"]
    /\ UNCHANGED <<file, admin, starts, call, doc>>

\* Mutant of Unique: there is no index on the fingerprint.
Unique_IDOnly(t) == doc[handler[t].newID].register_count = 0

\* The unique indexes: _id, and the fingerprint where there is one.
Unique(t) ==
    /\ doc[handler[t].newID].register_count = 0
    /\ Fingerprint(call[t].info) # NoFp => Holders(Fingerprint(call[t].info)) = {}

Insert(t) ==
    /\ handler[t].pc = "insert" /\ admin # "closed"
    /\ Unique(t)
    /\ doc' = [doc EXCEPT ![handler[t].newID] =
                   [fingerprint |-> Fingerprint(call[t].info), register_count |-> 1]]
    /\ StoreAnswers(t, handler[t].newID)
    /\ UNCHANGED <<file, admin, starts, call>>

\* A duplicate key: an error, or, if it is the fingerprint, MongoDB tries the
\* upsert once more.
DuplicateKey(t) ==
    /\ handler[t].pc = "insert" /\ ~Unique(t)
    /\ \/ handler' = [handler EXCEPT ![t].pc = "reply"]
       \/ /\ Fingerprint(call[t].info) # NoFp /\ Holders(Fingerprint(call[t].info)) # {}
          /\ handler' = [handler EXCEPT ![t].pc = "find"]
    /\ UNCHANGED <<file, admin, starts, call, doc>>

\* The store fails and has not acted: it is down or closed, or the phone has
\* hung up and cancelled the request's context.
StoreFails(t) ==
    /\ handler[t].pc \in {"find", "insert"}
    /\ handler' = [handler EXCEPT ![t].pc = "reply"]
    /\ UNCHANGED <<file, admin, starts, call, doc>>

\* Mutant of Answer: the ID drawn for an insert is given away.
Answer_NewID(t) ==
    [id |-> handler[t].newID, heartbeat |-> cfg.heartbeat, initial |-> cfg.initial, max |-> cfg.max]

\* The body of a 200: the DeviceID of the document and the admin's settings.
Answer(t) ==
    [id |-> handler[t].id, heartbeat |-> cfg.heartbeat, initial |-> cfg.initial, max |-> cfg.max]

\* Mutant of Reply: the phone does not look at the status.
Reply_AnyStatus(t) ==
    /\ handler[t].pc = "reply"
    /\ handler' = [handler EXCEPT ![t].pc = "done"]
    /\ call' = IF call[t].pc # "posted" THEN call
               ELSE [call EXCEPT ![t].pc = "registered", ![t].answer = Answer(t)]
    /\ UNCHANGED <<file, admin, starts, doc>>

\* writeJSON or writeError; the phone takes the answer if it still waits.
Reply(t) ==
    /\ handler[t].pc = "reply"
    /\ handler' = [handler EXCEPT ![t].pc = "done"]
    /\ call' = IF call[t].pc # "posted" THEN call
               ELSE IF handler[t].id = NoID THEN [call EXCEPT ![t].pc = "failed"]
               ELSE [call EXCEPT ![t].pc = "registered", ![t].answer = Answer(t)]
    /\ UNCHANGED <<file, admin, starts, doc>>

-----------------------------------------------------------------------------
(* The admin process *)

\* main, with a file that LoadAdmin accepts and a store that can be reached.
\* The unique index is made before the first request is served.
StartAdmin ==
    /\ admin = "off" /\ starts < MaxStarts
    /\ LoadAdmin(file) # {}
    /\ admin' = "serving"
    /\ starts' = starts + 1
    /\ UNCHANGED <<file, call, handler, doc>>

\* A signal or an error of the listener: Shutdown takes no new request.
Shutdown ==
    /\ admin = "serving"
    /\ admin' = "draining"
    /\ UNCHANGED <<file, starts, call, handler, doc>>

\* Shutdown returns when no handler is at work or when its time is up; the
\* deferred Close disconnects the store.
CloseStore ==
    /\ admin = "draining"
    /\ admin' = "closed"
    /\ UNCHANGED <<file, starts, call, handler, doc>>

\* main returns, or the process is killed: its handlers are gone.
Exit ==
    /\ admin # "off"
    /\ admin' = "off"
    /\ handler' = [t \in Calls |-> IF InFlight(t) THEN [handler[t] EXCEPT !.pc = "done"] ELSE handler[t]]
    /\ UNCHANGED <<file, starts, call, doc>>

AdminNext ==
    \/ StartAdmin \/ Shutdown \/ CloseStore \/ Exit
    \/ \E t \in Calls : \/ ServeHTTP(t) \/ FindOneAndUpdate(t) \/ FindsNothing(t)
                        \/ Insert(t) \/ DuplicateKey(t) \/ StoreFails(t) \/ Reply(t)

RegNext == AdminNext \/ \E t \in Calls : RegisterDevice(t) \/ GiveUp(t)

-----------------------------------------------------------------------------
(* Properties *)

\* The type invariant of the registration: a call has an answer exactly when
\* it is registered (RegisterDevice refuses a body without a device_id).
RegTypeOK ==
    /\ file \in AdminFiles
    /\ admin \in {"off", "serving", "draining", "closed"}
    /\ admin # "off" => LoadAdmin(file) # {}
    /\ starts \in 0..MaxStarts
    /\ \A t \in Calls :
           /\ call[t].pc \in {"idle", "posted", "failed", "registered"}
           /\ call[t].answer.id \in IDs \cup {NoID}
           /\ call[t].pc = "registered" <=> call[t].answer.id # NoID
           /\ handler[t].pc \in {"none", "find", "insert", "reply", "done"}
           /\ handler[t].newID \in IDs \cup {NoID} /\ handler[t].id \in IDs \cup {NoID}
    /\ \A i \in IDs : doc[i].register_count \in 0..Cardinality(Calls)

Registered == {t \in Calls : call[t].pc = "registered"}

\* What UpsertDevice makes of its fingerprint: two calls with the same strongest
\* identifier get one DeviceID, whatever races, retries and restarts lie between
\* them; two phones never share a DeviceID, and neither do calls that report no
\* identifier ("each call inserts a new doc", store.go:91).  A phone that comes
\* back with another strongest identifier gets a new DeviceID: "the same
\* physical device gets the same DeviceID across re-registrations"
\* (store.go:67-68) is not true of it, and is not claimed here.
OneIDPerFingerprint ==
    \A t, u \in Registered :
        LET sameID == call[t].answer.id = call[u].answer.id
            fp == Fingerprint(call[t].info)
        IN  t # u => /\ fp # NoFp /\ fp = Fingerprint(call[u].info) => sameID
                     /\ sameID => fp # NoFp /\ call[t].info.phone = call[u].info.phone

\* "increment RegisterCount" (store.go:71): the count of a document covers every
\* call that was given its DeviceID, and no more calls than have been served for
\* its fingerprint, lost answers and retried upserts included.
CountsRegistrations ==
    \A i \in IDs :
        /\ doc[i].register_count >= Cardinality({t \in Registered : call[t].answer.id = i})
        /\ doc[i].register_count <= Cardinality({t \in Calls :
               handler[t].newID # NoID /\ Fingerprint(call[t].info) = doc[i].fingerprint})
=============================================================================

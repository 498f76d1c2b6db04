------------------------- MODULE RegistrationProofs -------------------------
(***************************************************************************)
(* What every step of the registration keeps, for any calls, phones, IDs   *)
(* and files: lemmas for the proofs about the first boot (MobileProofs).   *)
(***************************************************************************)
EXTENDS Registration, FiniteSetTheorems, TLAPS

\* What a request may carry.
Infos == [phone : Phones, reported : UNION {Reports[p] : p \in Phones}, delta : Deltas, key : AppKeys]
         \cup {NoInfo}

\* What the collection may hold as a fingerprint.
Prints == {Fingerprint(info) : info \in Infos} \cup {NoFp}

\* The body of a 200 from an admin that runs on file f.
Settings(f, i) ==
    [id |-> i,
     heartbeat |-> IfNotPositive(f.heartbeat, 30),
     initial |-> IfNotPositive(f.initial, 1),
     max |-> IfNotPositive(f.max, 60)]

\* What the phone may hold as an answer.
Answers(f) == {NoAnswer} \cup {Settings(f, i) : i \in IDs}

\* The states of a handler, and the documents.
HandlerStates == [pc : {"none", "find", "insert", "reply", "done"},
                  newID : IDs \cup {NoID}, id : IDs \cup {NoID}]

Docs == [fingerprint : Prints, register_count : Nat]

\* The shape of the state.
RegShape ==
    /\ file \in AdminFiles
    /\ admin \in {"off", "serving", "draining", "closed"}
    /\ admin # "off" => LoadAdmin(file) # {}
    /\ starts \in 0..MaxStarts
    /\ call \in [Calls -> [pc : {"idle", "posted", "failed", "registered"},
                           info : Infos, answer : Answers(file)]]
    /\ handler \in [Calls -> HandlerStates]
    /\ doc \in [IDs -> Docs]

\* How far a call and its handler can have come: a handler starts only after
\* its request was posted and ends with its admin, it has an ID only once the
\* store has acted, and a registered phone has its handler's answer.
InStep(t) ==
    /\ handler[t].pc # "none" => call[t].pc # "idle"
    /\ InFlight(t) => admin # "off"
    /\ handler[t].pc \in {"none", "find", "insert"} => handler[t].id = NoID
    /\ handler[t].pc = "none" => handler[t].newID = NoID
    /\ handler[t].pc \in {"find", "insert"} => handler[t].newID # NoID
    /\ handler[t].pc = "find" => Fingerprint(call[t].info) # NoFp
    /\ call[t].pc = "registered" => /\ handler[t].pc = "done" /\ handler[t].id # NoID
                                    /\ call[t].answer = Settings(file, handler[t].id)
    /\ call[t].pc # "registered" => call[t].answer = NoAnswer

HandlersFollowCalls == \A t \in Calls : InStep(t)

\* The ID a handler has is that of a document of its phone.
IDsAreBacked ==
    \A t \in Calls :
        handler[t].id # NoID =>
            /\ doc[handler[t].id].register_count > 0
            /\ doc[handler[t].id].fingerprint = Fingerprint(call[t].info)

\* What the unique index keeps.
FingerprintsAreUnique ==
    \A i, j \in IDs :
        /\ doc[i].register_count > 0 /\ doc[j].register_count > 0
        /\ doc[i].fingerprint = doc[j].fingerprint /\ doc[i].fingerprint # NoFp
        => i = j

\* A phone without an identifier shares its ID with no other call.
PlainIDsAreOwn ==
    \A t, u \in Calls :
        t # u /\ handler[t].id = handler[u].id /\ handler[t].id # NoID
        => Fingerprint(call[t].info) # NoFp

\* The calls that were given the ID i, and those with the fingerprint of i
\* that the store has served, or that ended without being served.
Given(i) == {t \in Calls : handler[t].id = i}

Acted(t) == handler[t].newID # NoID /\ handler[t].pc \notin {"find", "insert"}

Served(i) == {t \in Calls : Acted(t) /\ Fingerprint(call[t].info) = doc[i].fingerprint}

CountsCover ==
    \A i \in IDs : /\ Cardinality(Given(i)) <= doc[i].register_count
                   /\ doc[i].register_count <= Cardinality(Served(i))

\* The inductive invariant.
RegInv ==
    /\ RegShape
    /\ HandlersFollowCalls
    /\ IDsAreBacked
    /\ FingerprintsAreUnique
    /\ PlainIDsAreOwn
    /\ CountsCover

-----------------------------------------------------------------------------

\* The answer of a handler carries the settings of the admin's file
\* (register.go, with the defaults of config/admin.go).
LEMMA AnswerIsSettings ==
    ASSUME NEW t \in Calls, LoadAdmin(file) # {}
    PROVE  Answer(t) = Settings(file, handler[t].id)
<1>1. cfg \in LoadAdmin(file)
  BY DEF cfg
<1>2. PICK k : cfg = [key |-> k,
                      heartbeat |-> IfNotPositive(file.heartbeat, 30),
                      initial |-> IfNotPositive(file.initial, 1),
                      max |-> IfNotPositive(file.max, 60),
                      skew |-> IfNotPositive(file.skew, 300)]
  BY <1>1 DEF LoadAdmin
<1>3. /\ cfg.heartbeat = IfNotPositive(file.heartbeat, 30)
      /\ cfg.initial = IfNotPositive(file.initial, 1)
      /\ cfg.max = IfNotPositive(file.max, 60)
  BY <1>2
<1> QED BY <1>3 DEF Answer, Settings

\* The fields of a call and of its handler have their types.
LEMMA Fields ==
    ASSUME RegShape, NEW t \in Calls
    PROVE  /\ call[t].pc \in {"idle", "posted", "failed", "registered"}
           /\ call[t].info \in Infos /\ call[t].answer \in Answers(file)
           /\ handler[t].pc \in {"none", "find", "insert", "reply", "done"}
           /\ handler[t].newID \in IDs \cup {NoID} /\ handler[t].id \in IDs \cup {NoID}
BY DEF RegShape, HandlerStates

\* The initial state satisfies the invariant.
LEMMA RegInitHolds == RegInit => RegInv
<1> SUFFICES ASSUME RegInit PROVE RegInv
  OBVIOUS
<1> USE RegistrationAssumption DEF RegInit
<1>1. RegShape
  <2>1. NoInfo \in Infos /\ NoAnswer \in Answers(file)
    BY DEF Infos, Answers
  <2>2. NoDoc \in Docs
    BY DEF NoDoc, Docs, Prints
  <2>3. [pc |-> "none", newID |-> NoID, id |-> NoID] \in HandlerStates
    BY DEF HandlerStates
  <2> QED BY <2>1, <2>2, <2>3 DEF RegShape
<1>2. HandlersFollowCalls
  BY DEF HandlersFollowCalls, InStep, InFlight
<1>3. IDsAreBacked /\ PlainIDsAreOwn
  BY DEF IDsAreBacked, PlainIDsAreOwn
<1>4. \A i \in IDs : doc[i].register_count = 0
  BY DEF NoDoc
<1>5. FingerprintsAreUnique
  BY <1>4 DEF FingerprintsAreUnique
<1>6. CountsCover
  <2> SUFFICES ASSUME NEW i \in IDs
               PROVE  /\ Cardinality(Given(i)) <= doc[i].register_count
                      /\ doc[i].register_count <= Cardinality(Served(i))
    BY DEF CountsCover
  <2>1. Given(i) = {} /\ Served(i) = {}
    BY DEF Given, Served, Acted
  <2> QED BY <1>4, <2>1, FS_EmptySet
<1> QED BY <1>1, <1>2, <1>3, <1>5, <1>6 DEF RegInv

\* A handler that goes on to the next point, with the store's answer or
\* without, is a handler, and the others stay where they are.
LEMMA HandlerMoves ==
    ASSUME RegShape, NEW t \in Calls,
           NEW p \in {"none", "find", "insert", "reply", "done"}, NEW k \in IDs \cup {NoID}
    PROVE  /\ [handler EXCEPT ![t].pc = p] \in [Calls -> HandlerStates]
           /\ [handler EXCEPT ![t].pc = p, ![t].id = k] \in [Calls -> HandlerStates]
<1>1. handler \in [Calls -> HandlerStates] /\ handler[t] \in HandlerStates
  BY DEF RegShape
<1>2. /\ [handler[t] EXCEPT !.pc = p] \in HandlerStates
      /\ [handler[t] EXCEPT !.pc = p, !.id = k] \in HandlerStates
  BY <1>1 DEF HandlerStates
<1>3. /\ [handler EXCEPT ![t].pc = p] = [handler EXCEPT ![t] = [handler[t] EXCEPT !.pc = p]]
      /\ [handler EXCEPT ![t].pc = p, ![t].id = k]
            = [handler EXCEPT ![t] = [handler[t] EXCEPT !.pc = p, !.id = k]]
  BY <1>1
<1> QED BY <1>1, <1>2, <1>3

\* Every step keeps the shape of the state.
LEMMA ShapeStep == RegInv /\ [RegNext]_regVars => RegShape'
<1> SUFFICES ASSUME RegInv, [RegNext]_regVars PROVE RegShape'
  OBVIOUS
<1> USE RegistrationAssumption
<1>0. RegShape /\ HandlersFollowCalls
  BY DEF RegInv
<1>1. /\ file' = file
      /\ admin' \in {"off", "serving", "draining", "closed"}
      /\ admin' # "off" => LoadAdmin(file') # {}
      /\ starts' \in 0..MaxStarts
  <2>1. CASE UNCHANGED <<file, admin, starts>>
    BY <1>0, <2>1 DEF RegShape
  <2>2. CASE StartAdmin \/ Shutdown \/ CloseStore \/ Exit
    BY <1>0, <2>2 DEF RegShape, StartAdmin, Shutdown, CloseStore, Exit
  <2> QED
    BY <2>1, <2>2 DEF RegNext, AdminNext, regVars, ServeHTTP, FindOneAndUpdate, FindsNothing,
                      Insert, DuplicateKey, StoreFails, Reply, RegisterDevice, GiveUp
<1>2. call' \in [Calls -> [pc : {"idle", "posted", "failed", "registered"},
                           info : Infos, answer : Answers(file)]]
  <2> DEFINE States == [pc : {"idle", "posted", "failed", "registered"},
                        info : Infos, answer : Answers(file)]
  <2>0. call \in [Calls -> States]
    BY <1>0 DEF RegShape
  <2>1. ASSUME NEW t \in Calls PROVE [call[t] EXCEPT !.pc = "failed"] \in States
    BY <2>0
  <2>2. ASSUME NEW t \in Calls, NEW info \in Infos
        PROVE  [call[t] EXCEPT !.pc = "posted", !.info = info] \in States
    BY <2>0
  <2>3. ASSUME NEW t \in Calls, NEW answer \in Answers(file)
        PROVE  [call[t] EXCEPT !.pc = "registered", !.answer = answer] \in States
    BY <2>0
  <2>4. ASSUME NEW t \in Calls, RegisterDevice(t) PROVE call' \in [Calls -> States]
    <3>1. CASE call' = [call EXCEPT ![t].pc = "failed"]
      BY <2>0, <2>1, <3>1
    <3>2. ASSUME NEW p \in Phones, NEW r \in Reports[p], NEW d \in Deltas, NEW k \in AppKeys,
                 call' = [call EXCEPT ![t].pc = "posted",
                             ![t].info = [phone |-> p, reported |-> r, delta |-> d, key |-> k]]
          PROVE  call' \in [Calls -> States]
      <4>1. PICK info \in Infos : info = [phone |-> p, reported |-> r, delta |-> d, key |-> k]
        BY DEF Infos
      <4>2. call' = [call EXCEPT ![t].pc = "posted", ![t].info = info]
        BY <3>2, <4>1
      <4>3. call' = [call EXCEPT ![t] = [call[t] EXCEPT !.pc = "posted", !.info = info]]
        BY <2>0, <4>2
      <4> QED BY <2>0, <2>2, <4>3
    <3> QED BY <2>4, <3>1, <3>2 DEF RegisterDevice
  <2>5. ASSUME NEW t \in Calls, GiveUp(t) PROVE call' \in [Calls -> States]
    BY <2>0, <2>1, <2>5 DEF GiveUp
  <2>6. ASSUME NEW t \in Calls, Reply(t) PROVE call' \in [Calls -> States]
    <3>1. LoadAdmin(file) # {}
      BY <1>0, <2>6 DEF Reply, HandlersFollowCalls, InStep, InFlight, RegShape
    <3>2. handler[t].id # NoID => Answer(t) \in Answers(file)
      BY <1>0, <3>1, AnswerIsSettings, Fields DEF Answers
    <3>3. CASE call' = call
      BY <2>0, <3>3
    <3>4. CASE call' = [call EXCEPT ![t].pc = "failed"]
      BY <2>0, <2>1, <3>4
    <3>5. CASE /\ handler[t].id # NoID
               /\ call' = [call EXCEPT ![t].pc = "registered", ![t].answer = Answer(t)]
      <4>1. PICK answer \in Answers(file) : answer = Answer(t)
        BY <3>2, <3>5
      <4>2. call' = [call EXCEPT ![t] = [call[t] EXCEPT !.pc = "registered", !.answer = answer]]
        BY <2>0, <3>5, <4>1
      <4> QED BY <2>0, <2>3, <4>2
    <3>6. \/ call' = call
          \/ call' = [call EXCEPT ![t].pc = "failed"]
          \/ /\ handler[t].id # NoID
             /\ call' = [call EXCEPT ![t].pc = "registered", ![t].answer = Answer(t)]
      BY <2>6, Zenon DEF Reply
    <3> QED BY <3>3, <3>4, <3>5, <3>6, Zenon
  <2>7. CASE UNCHANGED call
    BY <2>0, <2>7
  <2> QED
    BY <2>4, <2>5, <2>6, <2>7 DEF RegNext, AdminNext, regVars, ServeHTTP, FindOneAndUpdate,
         FindsNothing, Insert, DuplicateKey, StoreFails, StartAdmin, Shutdown, CloseStore, Exit
<1>3. handler' \in [Calls -> HandlerStates]
  <2>0. handler \in [Calls -> HandlerStates]
    BY <1>0 DEF RegShape
  <2>1. ASSUME NEW t \in Calls, ServeHTTP(t) PROVE handler' \in [Calls -> HandlerStates]
    <3>1. CASE handler' = [handler EXCEPT ![t].pc = "reply"]
      BY <1>0, <3>1, HandlerMoves
    <3>2. ASSUME NEW i \in IDs, NEW p \in {"insert", "find"},
                 handler' = [handler EXCEPT ![t] = [pc |-> p, newID |-> i, id |-> NoID]]
          PROVE  handler' \in [Calls -> HandlerStates]
      BY <2>0, <3>2 DEF HandlerStates
    <3> QED BY <2>1, <3>1, <3>2 DEF ServeHTTP
  <2>2. ASSUME NEW t \in Calls, NEW i \in IDs, StoreAnswers(t, i)
        PROVE  handler' \in [Calls -> HandlerStates]
    <3>1. PICK known \in IDs \cup {NoID} :
             handler' = [handler EXCEPT ![t].pc = "reply", ![t].id = known]
      BY <2>2 DEF StoreAnswers
    <3> QED BY <1>0, <3>1, HandlerMoves
  <2>3. ASSUME NEW t \in Calls, FindOneAndUpdate(t) \/ Insert(t)
        PROVE  \E i \in IDs : StoreAnswers(t, i)
    <3>1. CASE FindOneAndUpdate(t)
      BY <3>1 DEF FindOneAndUpdate, Holders
    <3>2. CASE Insert(t)
      BY <1>0, <3>2, Fields DEF Insert, HandlersFollowCalls, InStep
    <3> QED BY <2>3, <3>1, <3>2
  <2>4. ASSUME NEW t \in Calls,
               FindsNothing(t) \/ DuplicateKey(t) \/ StoreFails(t) \/ Reply(t)
        PROVE  handler' \in [Calls -> HandlerStates]
    <3>1. PICK p \in {"find", "insert", "reply", "done"} : handler' = [handler EXCEPT ![t].pc = p]
      BY <2>4 DEF FindsNothing, DuplicateKey, StoreFails, Reply
    <3> QED BY <1>0, <3>1, HandlerMoves
  <2>5. CASE Exit
    <3>1. ASSUME NEW t \in Calls PROVE [handler[t] EXCEPT !.pc = "done"] \in HandlerStates
      BY <2>0 DEF HandlerStates
    <3> QED BY <2>0, <2>5, <3>1 DEF Exit
  <2>6. CASE UNCHANGED handler
    BY <2>0, <2>6
  <2> QED
    BY <2>1, <2>2, <2>3, <2>4, <2>5, <2>6 DEF RegNext, AdminNext, regVars, RegisterDevice,
         GiveUp, StartAdmin, Shutdown, CloseStore
<1>4. doc' \in [IDs -> Docs]
  <2>0. doc \in [IDs -> Docs]
    BY <1>0 DEF RegShape
  <2>1. ASSUME NEW t \in Calls, FindOneAndUpdate(t) PROVE doc' \in [IDs -> Docs]
    <3>1. PICK i \in IDs : doc' = [doc EXCEPT ![i].register_count = @ + 1]
      BY <2>1 DEF FindOneAndUpdate, Holders
    <3>2. [doc[i] EXCEPT !.register_count = doc[i].register_count + 1] \in Docs
      BY <2>0 DEF Docs
    <3> QED BY <2>0, <3>1, <3>2
  <2>2. ASSUME NEW t \in Calls, Insert(t) PROVE doc' \in [IDs -> Docs]
    <3>1. Fingerprint(call[t].info) \in Prints
      BY <1>0, Fields DEF Prints
    <3>2. [fingerprint |-> Fingerprint(call[t].info), register_count |-> 1] \in Docs
      BY <3>1 DEF Docs
    <3> QED BY <2>0, <2>2, <3>2 DEF Insert
  <2>3. CASE UNCHANGED doc
    BY <2>0, <2>3
  <2> QED
    BY <2>1, <2>2, <2>3 DEF RegNext, AdminNext, regVars, ServeHTTP, FindsNothing, DuplicateKey,
         StoreFails, Reply, RegisterDevice, GiveUp, StartAdmin, Shutdown, CloseStore, Exit
<1> QED BY <1>0, <1>1, <1>2, <1>3, <1>4 DEF RegShape

\* The steps of the handlers keep calls and handlers in step with each other.
LEMMA HandlersStep ==
    ASSUME RegInv, NEW t \in Calls,
           \/ ServeHTTP(t) \/ FindOneAndUpdate(t) \/ FindsNothing(t)
           \/ Insert(t) \/ DuplicateKey(t) \/ StoreFails(t) \/ Reply(t)
    PROVE  HandlersFollowCalls'
<1> USE RegistrationAssumption
<1>0. RegShape /\ HandlersFollowCalls
  BY DEF RegInv
<1>t. /\ handler \in [Calls -> HandlerStates]
      /\ call \in [Calls -> [pc : {"idle", "posted", "failed", "registered"},
                             info : Infos, answer : Answers(file)]]
  BY <1>0 DEF RegShape
<1> SUFFICES ASSUME NEW u \in Calls PROVE InStep(u)'
  BY DEF HandlersFollowCalls
<1>1. InStep(u) /\ InStep(t) /\ file' = file /\ admin' = admin
  BY <1>0 DEF HandlersFollowCalls, ServeHTTP, FindOneAndUpdate, FindsNothing, Insert,
              DuplicateKey, StoreFails, Reply
<1>2. CASE ServeHTTP(t)
  <2>1. call' = call /\ admin = "serving" /\ handler[t].pc = "none" /\ call[t].pc # "idle"
    BY <1>2 DEF ServeHTTP
  <2>2. CASE handler' = [handler EXCEPT ![t].pc = "reply"]
    <3>1. /\ handler'[u].pc = IF u = t THEN "reply" ELSE handler[u].pc
          /\ handler'[u].id = handler[u].id /\ handler'[u].newID = handler[u].newID
      BY <1>t, <2>2 DEF HandlerStates
    <3> QED BY <1>1, <2>1, <3>1, Fields, <1>0 DEF InStep, InFlight
  <2>3. ASSUME NEW i \in IDs,
               handler' = [handler EXCEPT ![t] =
                    [pc |-> IF Fingerprint(call[t].info) = NoFp THEN "insert" ELSE "find",
                     newID |-> i, id |-> NoID]]
        PROVE  InStep(u)'
    <3>1. /\ u = t => /\ handler'[u].pc = IF Fingerprint(call[t].info) = NoFp THEN "insert" ELSE "find"
                      /\ handler'[u].newID = i /\ handler'[u].id = NoID
          /\ u # t => handler'[u] = handler[u]
      BY <1>0, <2>3 DEF RegShape
    <3> QED BY <1>1, <2>1, <3>1 DEF InStep, InFlight
  <2> QED BY <1>2, <2>2, <2>3 DEF ServeHTTP
<1>3. CASE FindOneAndUpdate(t) \/ Insert(t)
  <2>1. call' = call /\ handler[t].pc \in {"find", "insert"}
    BY <1>3 DEF FindOneAndUpdate, Insert
  <2>2. PICK k : handler' = [handler EXCEPT ![t].pc = "reply", ![t].id = k]
    BY <1>3 DEF FindOneAndUpdate, Insert, StoreAnswers
  <2>3. /\ handler'[u].pc = IF u = t THEN "reply" ELSE handler[u].pc
        /\ handler'[u].id = IF u = t THEN k ELSE handler[u].id
        /\ handler'[u].newID = handler[u].newID
    BY <1>t, <2>2 DEF HandlerStates
  <2> QED BY <1>1, <2>1, <2>3 DEF InStep, InFlight
<1>4. CASE FindsNothing(t) \/ DuplicateKey(t) \/ StoreFails(t)
  <2>1. call' = call /\ handler[t].pc \in {"find", "insert"}
    BY <1>4 DEF FindsNothing, DuplicateKey, StoreFails
  <2>2. PICK p \in {"find", "insert", "reply"} :
           /\ handler' = [handler EXCEPT ![t].pc = p]
           /\ p = "find" => Fingerprint(call[t].info) # NoFp
    BY <1>4 DEF FindsNothing, DuplicateKey, StoreFails
  <2>3. /\ handler'[u].pc = IF u = t THEN p ELSE handler[u].pc
        /\ handler'[u].id = handler[u].id /\ handler'[u].newID = handler[u].newID
    BY <1>t, <2>2 DEF HandlerStates
  <2> QED BY <1>1, <2>1, <2>2, <2>3 DEF InStep, InFlight
<1>5. CASE Reply(t)
  <2>1. handler[t].pc = "reply" /\ handler' = [handler EXCEPT ![t].pc = "done"]
    BY <1>5 DEF Reply
  <2>2. /\ handler'[u].pc = IF u = t THEN "done" ELSE handler[u].pc
        /\ handler'[u].id = handler[u].id /\ handler'[u].newID = handler[u].newID
    BY <1>t, <2>1 DEF HandlerStates
  <2>3. CASE call' = call
    BY <1>1, <2>1, <2>2, <2>3 DEF InStep, InFlight
  <2>4. CASE call[t].pc = "posted" /\ call' = [call EXCEPT ![t].pc = "failed"]
    <3>1. /\ call'[u].pc = IF u = t THEN "failed" ELSE call[u].pc
          /\ call'[u].info = call[u].info /\ call'[u].answer = call[u].answer
      BY <1>t, <2>4 DEF HandlerStates
    <3> QED BY <1>1, <2>1, <2>2, <2>4, <3>1 DEF InStep, InFlight
  <2>5. CASE /\ call[t].pc = "posted" /\ handler[t].id # NoID
             /\ call' = [call EXCEPT ![t].pc = "registered", ![t].answer = Answer(t)]
    <3>1. LoadAdmin(file) # {}
      BY <1>0, <1>1, <2>1 DEF InStep, InFlight, RegShape
    <3>2. PICK answer : answer = Answer(t) /\ answer = Settings(file, handler[t].id)
      BY <3>1, AnswerIsSettings
    <3>3. /\ call'[u].pc = IF u = t THEN "registered" ELSE call[u].pc
          /\ call'[u].info = call[u].info
          /\ call'[u].answer = IF u = t THEN answer ELSE call[u].answer
      BY <1>t, <2>5, <3>2 DEF HandlerStates
    <3> QED BY <1>1, <2>1, <2>2, <2>5, <3>2, <3>3 DEF InStep, InFlight
  <2>6. \/ call' = call
        \/ call[t].pc = "posted" /\ call' = [call EXCEPT ![t].pc = "failed"]
        \/ /\ call[t].pc = "posted" /\ handler[t].id # NoID
           /\ call' = [call EXCEPT ![t].pc = "registered", ![t].answer = Answer(t)]
    BY <1>5, Zenon DEF Reply
  <2> QED BY <2>3, <2>4, <2>5, <2>6, Zenon
<1> QED BY <1>2, <1>3, <1>4, <1>5

\* Every step keeps calls and handlers in step with each other.
LEMMA FollowStep == RegInv /\ [RegNext]_regVars => HandlersFollowCalls'
<1> SUFFICES ASSUME RegInv, [RegNext]_regVars PROVE HandlersFollowCalls'
  OBVIOUS
<1>0. RegShape /\ HandlersFollowCalls
  BY DEF RegInv
<1>t. /\ handler \in [Calls -> HandlerStates]
      /\ call \in [Calls -> [pc : {"idle", "posted", "failed", "registered"},
                             info : Infos, answer : Answers(file)]]
  BY <1>0 DEF RegShape
<1>1. ASSUME NEW t \in Calls, NEW u \in Calls, RegisterDevice(t) \/ GiveUp(t) PROVE InStep(u)'
  <2>1. /\ call[t].pc \in {"idle", "posted"} /\ call'[t].pc \in {"posted", "failed"}
        /\ call'[t].answer = call[t].answer
        /\ call[t].pc = "posted" => call'[t].info = call[t].info
        /\ u # t => call'[u] = call[u]
    BY <1>1, <1>t DEF RegisterDevice, GiveUp
  <2>2. UNCHANGED <<file, admin, handler>>
    BY <1>1 DEF RegisterDevice, GiveUp
  <2>3. InStep(t) /\ InStep(u)
    BY <1>0 DEF HandlersFollowCalls
  <2> QED BY <2>1, <2>2, <2>3 DEF InStep, InFlight
<1>2. ASSUME StartAdmin \/ Shutdown \/ CloseStore, NEW u \in Calls PROVE InStep(u)'
  <2>1. UNCHANGED <<file, call, handler>> /\ admin' # "off"
    BY <1>2 DEF StartAdmin, Shutdown, CloseStore
  <2>2. InStep(u)
    BY <1>0 DEF HandlersFollowCalls
  <2> QED BY <2>1, <2>2 DEF InStep, InFlight
<1>3. ASSUME Exit, NEW u \in Calls PROVE InStep(u)'
  <2>1. UNCHANGED <<file, call>>
    BY <1>3 DEF Exit
  <2>2. /\ InFlight(u) => handler'[u].pc = "done"
        /\ ~InFlight(u) => handler'[u].pc = handler[u].pc
        /\ handler'[u].id = handler[u].id /\ handler'[u].newID = handler[u].newID
    BY <1>3, <1>t DEF Exit, HandlerStates
  <2>3. InStep(u)
    BY <1>0 DEF HandlersFollowCalls
  <2> QED BY <2>1, <2>2, <2>3 DEF InStep, InFlight
<1>4. ASSUME UNCHANGED regVars, NEW u \in Calls PROVE InStep(u)'
  BY <1>0, <1>4 DEF HandlersFollowCalls, InStep, InFlight, regVars
<1> QED BY <1>1, <1>2, <1>3, <1>4, HandlersStep DEF RegNext, AdminNext, HandlersFollowCalls

\* A step that is not the store's leaves the documents and the given IDs alone,
\* forgets no served call, and does not change what a served call reported.
Quiet ==
    /\ UNCHANGED doc
    /\ \A t \in Calls : /\ handler'[t].id = handler[t].id
                        /\ handler[t].pc # "none" => call'[t].info = call[t].info
                        /\ Acted(t) => Acted(t)'

\* Only UpsertDevice's two writes change documents and give IDs (mongo.go).
LEMMA OnlyTheStoreGivesIDs ==
    ASSUME RegInv, [RegNext]_regVars
    PROVE  Quiet \/ \E t \in Calls : FindOneAndUpdate(t) \/ Insert(t)
<1>0. RegShape /\ HandlersFollowCalls
  BY DEF RegInv
<1>t. /\ handler \in [Calls -> HandlerStates]
      /\ call \in [Calls -> [pc : {"idle", "posted", "failed", "registered"},
                             info : Infos, answer : Answers(file)]]
  BY <1>0 DEF RegShape
<1>1. ASSUME NEW t \in Calls, RegisterDevice(t) \/ GiveUp(t) PROVE Quiet
  <2>1. UNCHANGED <<handler, doc>>
    BY <1>1 DEF RegisterDevice, GiveUp
  <2>2. \A u \in Calls : call[u].pc # "idle" => call'[u].info = call[u].info
    BY <1>1, <1>t DEF RegisterDevice, GiveUp
  <2> QED BY <1>0, <2>1, <2>2 DEF Quiet, Acted, HandlersFollowCalls, InStep
<1>2. CASE StartAdmin \/ Shutdown \/ CloseStore \/ UNCHANGED regVars
  BY <1>2 DEF Quiet, Acted, StartAdmin, Shutdown, CloseStore, regVars
<1>3. CASE Exit
  <2>1. UNCHANGED <<call, doc>>
    BY <1>3 DEF Exit
  <2>2. \A u \in Calls :
           /\ handler'[u].pc = (IF InFlight(u) THEN "done" ELSE handler[u].pc)
           /\ handler'[u].id = handler[u].id /\ handler'[u].newID = handler[u].newID
    BY <1>3, <1>t DEF Exit, HandlerStates
  <2> QED BY <2>1, <2>2 DEF Quiet, Acted, InFlight
<1>4. ASSUME NEW t \in Calls, ServeHTTP(t) PROVE Quiet
  <2>1. UNCHANGED <<call, doc>>
    BY <1>4 DEF ServeHTTP
  <2>2. handler[t].newID = NoID /\ handler[t].id = NoID
    BY <1>0, <1>4 DEF ServeHTTP, HandlersFollowCalls, InStep
  <2>3. handler'[t].id = NoID /\ \A u \in Calls : u # t => handler'[u] = handler[u]
    BY <1>4, <1>t, <2>2 DEF ServeHTTP, HandlerStates
  <2> QED BY <2>1, <2>2, <2>3 DEF Quiet, Acted
<1>5. ASSUME NEW t \in Calls, FindsNothing(t) \/ DuplicateKey(t) \/ StoreFails(t) PROVE Quiet
  <2>1. UNCHANGED <<call, doc>> /\ handler[t].pc \in {"find", "insert"}
    BY <1>5 DEF FindsNothing, DuplicateKey, StoreFails
  <2>2. PICK p : handler' = [handler EXCEPT ![t].pc = p]
    BY <1>5 DEF FindsNothing, DuplicateKey, StoreFails
  <2>3. handler'[t].id = handler[t].id /\ \A u \in Calls : u # t => handler'[u] = handler[u]
    BY <1>t, <2>2 DEF HandlerStates
  <2> QED BY <2>1, <2>3 DEF Quiet, Acted
<1>6. ASSUME NEW t \in Calls, Reply(t) PROVE Quiet
  <2>1. UNCHANGED doc /\ handler' = [handler EXCEPT ![t].pc = "done"]
    BY <1>6 DEF Reply
  <2>2. /\ handler'[t].pc = "done"
        /\ handler'[t].id = handler[t].id /\ handler'[t].newID = handler[t].newID
        /\ \A u \in Calls : u # t => handler'[u] = handler[u]
    BY <1>t, <2>1 DEF HandlerStates
  <2>3. \A u \in Calls : call'[u].info = call[u].info
    <3>1. \/ call' = call
          \/ call' = [call EXCEPT ![t].pc = "failed"]
          \/ call' = [call EXCEPT ![t].pc = "registered", ![t].answer = Answer(t)]
      BY <1>6, Zenon DEF Reply
    <3> QED BY <1>t, <3>1
  <2> QED BY <2>1, <2>2, <2>3 DEF Quiet, Acted
<1> QED BY <1>1, <1>2, <1>3, <1>4, <1>5, <1>6 DEF RegNext, AdminNext

\* What a write of the store does for the handler of t: the document i counts
\* one more call and has its fingerprint, and the handler learns i or nothing.
Writes(t, i) ==
    /\ UNCHANGED call
    /\ handler[t].pc \in {"find", "insert"} /\ handler'[t].pc = "reply"
    /\ handler'[t].id \in {i, NoID} /\ handler'[t].newID = handler[t].newID
    /\ \A u \in Calls : u # t => handler'[u] = handler[u]
    /\ \A j \in IDs : j # i => doc'[j] = doc[j]
    /\ doc'[i].register_count = doc[i].register_count + 1
    /\ doc'[i].fingerprint = Fingerprint(call[t].info)
    /\ \/ /\ doc[i].register_count > 0 /\ Fingerprint(call[t].info) # NoFp
          /\ doc[i].fingerprint = Fingerprint(call[t].info)
       \/ /\ doc[i].register_count = 0
          /\ Fingerprint(call[t].info) # NoFp => Holders(Fingerprint(call[t].info)) = {}

\* Both writes of UpsertDevice are of this kind: the update of a document that
\* was found, and the insertion that passes the unique indexes (mongo.go).
LEMMA StoreWrites ==
    ASSUME RegInv, NEW t \in Calls, FindOneAndUpdate(t) \/ Insert(t)
    PROVE  \E i \in IDs : Writes(t, i)
<1> USE RegistrationAssumption
<1>0. RegShape /\ InStep(t)
  BY DEF RegInv, HandlersFollowCalls
<1>t. handler \in [Calls -> HandlerStates] /\ doc \in [IDs -> Docs]
  BY <1>0 DEF RegShape
<1>1. ASSUME NEW i \in IDs, StoreAnswers(t, i)
      PROVE  /\ handler'[t].pc = "reply"
             /\ handler'[t].id \in {i, NoID} /\ handler'[t].newID = handler[t].newID
             /\ \A u \in Calls : u # t => handler'[u] = handler[u]
  BY <1>1, <1>t DEF StoreAnswers, HandlerStates
<1>2. CASE FindOneAndUpdate(t)
  <2>1. PICK i \in Holders(Fingerprint(call[t].info)) :
           doc' = [doc EXCEPT ![i].register_count = @ + 1] /\ StoreAnswers(t, i)
    BY <1>2 DEF FindOneAndUpdate
  <2>2. i \in IDs /\ doc[i].register_count > 0 /\ doc[i].fingerprint = Fingerprint(call[t].info)
    BY <2>1 DEF Holders
  <2>3. /\ handler[t].pc = "find" /\ call' = call /\ Fingerprint(call[t].info) # NoFp
    BY <1>0, <1>2 DEF FindOneAndUpdate, InStep
  <2>4. /\ \A j \in IDs : j # i => doc'[j] = doc[j]
        /\ doc'[i].register_count = doc[i].register_count + 1
        /\ doc'[i].fingerprint = doc[i].fingerprint
    BY <1>t, <2>1, <2>2 DEF Docs
  <2> QED BY <1>1, <2>1, <2>2, <2>3, <2>4 DEF Writes
<1>3. CASE Insert(t)
  <2>1. PICK i \in IDs : i = handler[t].newID
    BY <1>0, <1>3, Fields DEF Insert, InStep
  <2>2. /\ doc' = [doc EXCEPT ![i] = [fingerprint |-> Fingerprint(call[t].info), register_count |-> 1]]
        /\ StoreAnswers(t, i) /\ handler[t].pc = "insert" /\ call' = call
        /\ doc[i].register_count = 0
        /\ Fingerprint(call[t].info) # NoFp => Holders(Fingerprint(call[t].info)) = {}
    BY <1>3, <2>1 DEF Insert, Unique
  <2>3. /\ \A j \in IDs : j # i => doc'[j] = doc[j]
        /\ doc'[i].register_count = doc[i].register_count + 1
        /\ doc'[i].fingerprint = Fingerprint(call[t].info)
    BY <1>t, <2>2
  <2> QED BY <1>1, <2>2, <2>3 DEF Writes
<1> QED BY <1>2, <1>3

\* A write keeps what relates the IDs to the documents.
LEMMA WriteKeepsDocs ==
    ASSUME RegInv, NEW t \in Calls, NEW i \in IDs, Writes(t, i)
    PROVE  IDsAreBacked' /\ FingerprintsAreUnique' /\ PlainIDsAreOwn'
<1> USE RegistrationAssumption
<1>1. handler[t].id = NoID /\ RegShape
  BY DEF RegInv, HandlersFollowCalls, InStep, Writes
<1>2. \A u \in Calls : handler[u].id \in IDs \cup {NoID} /\ handler'[u].id \in IDs \cup {NoID}
  BY <1>1, Fields DEF Writes
<1>3. \A j \in IDs : doc[j].register_count \in Nat
  BY <1>1 DEF RegShape, Docs
<1>4. IDsAreBacked'
  <2> SUFFICES ASSUME NEW u \in Calls, handler'[u].id # NoID
               PROVE  /\ doc'[handler'[u].id].register_count > 0
                      /\ doc'[handler'[u].id].fingerprint = Fingerprint(call'[u].info)
    BY DEF IDsAreBacked
  <2>1. CASE u = t
    BY <1>3, <2>1 DEF Writes
  <2>2. CASE u # t
    <3>1. /\ handler'[u].id = handler[u].id /\ call'[u].info = call[u].info
          /\ doc[handler[u].id].register_count > 0
          /\ doc[handler[u].id].fingerprint = Fingerprint(call[u].info)
      BY <2>2 DEF Writes, RegInv, IDsAreBacked
    <3> QED BY <1>2, <1>3, <3>1 DEF Writes
  <2> QED BY <2>1, <2>2
<1>5. FingerprintsAreUnique'
  <2> SUFFICES ASSUME NEW j \in IDs, NEW k \in IDs,
                      doc'[j].register_count > 0, doc'[k].register_count > 0,
                      doc'[j].fingerprint = doc'[k].fingerprint, doc'[j].fingerprint # NoFp,
                      j # k
               PROVE  FALSE
    BY DEF FingerprintsAreUnique
  <2>1. \A l \in IDs : l # i => doc'[l] = doc[l]
    BY DEF Writes
  <2>2. CASE doc[i].register_count > 0
    <3>1. doc'[i].fingerprint = doc[i].fingerprint
      BY <2>2 DEF Writes
    <3> QED BY <2>1, <2>2, <3>1 DEF RegInv, FingerprintsAreUnique
  <2>3. CASE doc[i].register_count = 0
    <3>1. \A l \in IDs : l # i /\ doc[l].register_count > 0 /\ doc'[i].fingerprint # NoFp =>
             doc[l].fingerprint # doc'[i].fingerprint
      BY <2>3 DEF Writes, Holders
    <3> QED BY <2>1, <3>1 DEF RegInv, FingerprintsAreUnique
  <2> QED BY <1>3, <2>2, <2>3
<1>6. PlainIDsAreOwn'
  <2> SUFFICES ASSUME NEW u \in Calls, NEW v \in Calls,
                      u # v, handler'[u].id = handler'[v].id, handler'[u].id # NoID
               PROVE  Fingerprint(call'[u].info) # NoFp
    BY DEF PlainIDsAreOwn
  <2>0. call' = call /\ \A w \in Calls : w # t => handler'[w] = handler[w]
    BY DEF Writes
  <2>1. ASSUME NEW w \in Calls, handler[w].id = i
        PROVE  /\ Fingerprint(call[t].info) # NoFp
               /\ Fingerprint(call[w].info) = Fingerprint(call[t].info)
    <3>1. doc[i].register_count > 0 /\ doc[i].fingerprint = Fingerprint(call[w].info)
      BY <2>1 DEF RegInv, IDsAreBacked
    <3> QED BY <1>3, <3>1 DEF Writes
  <2>2. CASE u = t
    BY <2>0, <2>1, <2>2 DEF Writes
  <2>3. CASE v = t
    BY <2>0, <2>1, <2>3 DEF Writes
  <2>4. CASE u # t /\ v # t
    BY <2>0, <2>4 DEF RegInv, PlainIDsAreOwn
  <2> QED BY <2>2, <2>3, <2>4
<1> QED BY <1>4, <1>5, <1>6

\* Sets of calls are finite, and a larger one has no smaller cardinality.
LEMMA CallSets ==
    ASSUME NEW S \in SUBSET Calls
    PROVE  /\ IsFiniteSet(S) /\ Cardinality(S) \in Nat
           /\ \A T \in SUBSET S : Cardinality(T) <= Cardinality(S)
BY RegistrationAssumption, FS_Subset, FS_CardinalityType

\* A write counts its call once: the document covers the calls it was given to
\* and the served ones cover the document ("increment RegisterCount", store.go:71).
LEMMA WriteCounts ==
    ASSUME RegInv, NEW t \in Calls, NEW i \in IDs, Writes(t, i)
    PROVE  CountsCover'
<1> USE RegistrationAssumption
<1>1. handler[t].id = NoID /\ handler[t].newID # NoID /\ RegShape
  BY DEF RegInv, HandlersFollowCalls, InStep, Writes
<1>2. \A j \in IDs : doc[j].register_count \in Nat
  BY <1>1 DEF RegShape, Docs
<1>3. ASSUME NEW j \in IDs
      PROVE  /\ Given(j) \in SUBSET Calls /\ Given(j)' \in SUBSET Calls
             /\ Served(j) \in SUBSET Calls /\ Served(j)' \in SUBSET Calls
  BY DEF Given, Served
<1>4. \A u \in Calls : Acted(u) => Acted(u)' /\ u # t
  BY DEF Writes, Acted
<1>5. Acted(t)'
  BY <1>1 DEF Writes, Acted
<1>6. ASSUME NEW j \in IDs, j # i
      PROVE  /\ Cardinality(Given(j))' <= doc'[j].register_count
             /\ doc'[j].register_count <= Cardinality(Served(j))'
  <2>1. Given(j)' = Given(j)
    BY <1>1, <1>6 DEF Given, Writes
  <2>2. doc'[j] = doc[j] /\ Served(j) \in SUBSET (Served(j)')
    BY <1>4, <1>6 DEF Served, Writes
  <2>3. Cardinality(Given(j)) <= doc[j].register_count /\ doc[j].register_count <= Cardinality(Served(j))
    BY DEF RegInv, CountsCover
  <2>4. Cardinality(Served(j)) <= Cardinality(Served(j)')
    BY <1>3, <2>2, CallSets
  <2> QED BY <1>2, <1>3, <2>1, <2>2, <2>3, <2>4, CallSets
<1>7. /\ Cardinality(Given(i))' <= doc'[i].register_count
      /\ doc'[i].register_count <= Cardinality(Served(i))'
  <2>1. Cardinality(Given(i)) <= doc[i].register_count /\ doc[i].register_count <= Cardinality(Served(i))
    BY DEF RegInv, CountsCover
  <2>2. doc'[i].register_count = doc[i].register_count + 1
    BY DEF Writes
  <2>3. Cardinality(Given(i)') <= Cardinality(Given(i)) + 1
    <3>1. Given(i)' \in SUBSET (Given(i) \cup {t}) /\ Given(i) \cup {t} \in SUBSET Calls
      BY DEF Given, Writes
    <3>2. t \notin Given(i)
      BY <1>1 DEF Given
    <3>3. Cardinality(Given(i) \cup {t}) = Cardinality(Given(i)) + 1
      BY <1>3, <3>2, CallSets, FS_AddElement
    <3> QED BY <3>1, <3>3, CallSets
  <2>4. CASE doc[i].register_count = 0
    <3>1. {t} \in SUBSET (Served(i)')
      BY <1>5 DEF Served, Writes
    <3>2. Cardinality({t}) = 1
      BY FS_Singleton
    <3>3. 1 <= Cardinality(Served(i)')
      BY <1>3, <3>1, <3>2, CallSets
    <3> QED BY <1>2, <1>3, <2>1, <2>2, <2>3, <2>4, <3>3, CallSets
  <2>5. CASE doc[i].register_count > 0
    <3>1. doc'[i].fingerprint = doc[i].fingerprint
      BY <2>5 DEF Writes
    <3>2. Served(i) \cup {t} \in SUBSET (Served(i)') /\ t \notin Served(i)
      BY <1>4, <1>5, <3>1 DEF Served, Writes
    <3>3. Cardinality(Served(i) \cup {t}) = Cardinality(Served(i)) + 1
      BY <1>3, <3>2, CallSets, FS_AddElement
    <3>4. Cardinality(Served(i)) + 1 <= Cardinality(Served(i)')
      BY <1>3, <3>2, <3>3, CallSets
    <3> QED BY <1>2, <1>3, <2>1, <2>2, <2>3, <3>4, CallSets
  <2> QED BY <1>2, <2>4, <2>5
<1> QED BY <1>6, <1>7 DEF CountsCover

\* A step that is not the store's keeps what relates IDs, documents and counts.
LEMMA QuietKeepsDocs ==
    ASSUME RegInv, Quiet
    PROVE  IDsAreBacked' /\ FingerprintsAreUnique' /\ PlainIDsAreOwn' /\ CountsCover'
<1> USE RegistrationAssumption
<1>1. \A t \in Calls : handler[t].id # NoID => handler[t].pc # "none"
  BY DEF RegInv, HandlersFollowCalls, InStep
<1>2. IDsAreBacked'
  BY <1>1 DEF Quiet, RegInv, IDsAreBacked
<1>3. FingerprintsAreUnique'
  BY DEF Quiet, RegInv, FingerprintsAreUnique
<1>4. PlainIDsAreOwn'
  BY <1>1 DEF Quiet, RegInv, PlainIDsAreOwn
<1>5. CountsCover'
  <2> SUFFICES ASSUME NEW j \in IDs
               PROVE  /\ Cardinality(Given(j)') <= doc'[j].register_count
                      /\ doc'[j].register_count <= Cardinality(Served(j)')
    BY DEF CountsCover
  <2>1. Given(j)' = Given(j)
    BY DEF Given, Quiet
  <2>2. \A t \in Calls : Acted(t) => handler[t].pc # "none"
    BY DEF Acted, RegInv, HandlersFollowCalls, InStep
  <2>3. doc'[j] = doc[j] /\ Served(j) \in SUBSET (Served(j)') /\ Served(j)' \in SUBSET Calls
    BY <2>2 DEF Served, Quiet
  <2>4. Cardinality(Served(j)) <= Cardinality(Served(j)') /\ Cardinality(Served(j)') \in Nat
    BY <2>3, CallSets
  <2>5. Cardinality(Given(j)) <= doc[j].register_count /\ doc[j].register_count <= Cardinality(Served(j))
    BY DEF RegInv, CountsCover
  <2>6. Cardinality(Served(j)) \in Nat /\ doc[j].register_count \in Nat
    <3>1. Served(j) \in SUBSET Calls
      BY DEF Served
    <3> QED BY <3>1, CallSets DEF RegInv, RegShape, Docs
  <2> QED BY <2>1, <2>3, <2>4, <2>5, <2>6
<1> QED BY <1>2, <1>3, <1>4, <1>5

\* Every step keeps the invariant.
LEMMA RegStepHolds == RegInv /\ [RegNext]_regVars => RegInv'
<1> SUFFICES ASSUME RegInv, [RegNext]_regVars PROVE RegInv'
  OBVIOUS
<1>1. RegShape' /\ HandlersFollowCalls'
  BY ShapeStep, FollowStep
<1>2. IDsAreBacked' /\ FingerprintsAreUnique' /\ PlainIDsAreOwn' /\ CountsCover'
  BY OnlyTheStoreGivesIDs, StoreWrites, WriteKeepsDocs, WriteCounts, QuietKeepsDocs
<1> QED BY <1>1, <1>2 DEF RegInv

-----------------------------------------------------------------------------

\* A phone that has registered stays so, and the admin's file is fixed.
LEMMA RegisteredStays ==
    ASSUME RegInv, [RegNext]_regVars
    PROVE  /\ file' = file
           /\ \A t \in Calls : call[t].pc = "registered" => call'[t] = call[t]
<1>1. call \in [Calls -> [pc : {"idle", "posted", "failed", "registered"},
                          info : Infos, answer : Answers(file)]]
  BY DEF RegInv, RegShape
<1>2. CASE UNCHANGED call
  BY <1>2 DEF RegNext, AdminNext, regVars, ServeHTTP, FindOneAndUpdate, FindsNothing, Insert,
              DuplicateKey, StoreFails, Reply, RegisterDevice, GiveUp, StartAdmin, Shutdown,
              CloseStore, Exit
<1>3. ASSUME NEW t \in Calls, RegisterDevice(t) \/ GiveUp(t) \/ Reply(t), call' # call
      PROVE  /\ file' = file /\ call[t].pc \in {"idle", "posted"}
             /\ \A u \in Calls : u # t => call'[u] = call[u]
  <2>1. CASE RegisterDevice(t) \/ GiveUp(t)
    BY <1>1, <2>1 DEF RegisterDevice, GiveUp
  <2>2. CASE Reply(t)
    <3>1. PICK c : call[t].pc = "posted" /\ file' = file /\ call' = [call EXCEPT ![t] = c]
      <4>1. /\ call[t].pc = "posted" /\ file' = file
            /\ \/ call' = [call EXCEPT ![t].pc = "failed"]
               \/ call' = [call EXCEPT ![t].pc = "registered", ![t].answer = Answer(t)]
        BY <1>3, <2>2, Zenon DEF Reply
      <4>2. CASE call' = [call EXCEPT ![t].pc = "failed"]
        BY <1>1, <4>1, <4>2
      <4>3. CASE call' = [call EXCEPT ![t].pc = "registered", ![t].answer = Answer(t)]
        <5>1. PICK answer : answer = Answer(t)
          OBVIOUS
        <5>2. call' = [call EXCEPT ![t] = [call[t] EXCEPT !.pc = "registered", !.answer = answer]]
          BY <1>1, <4>3, <5>1
        <5> QED BY <4>1, <5>2
      <4> QED BY <4>1, <4>2, <4>3
    <3> QED BY <1>1, <3>1
  <2> QED BY <1>3, <2>1, <2>2
<1>4. ASSUME call' # call PROVE \E t \in Calls : RegisterDevice(t) \/ GiveUp(t) \/ Reply(t)
  BY <1>4 DEF RegNext, AdminNext, regVars, ServeHTTP, FindOneAndUpdate, FindsNothing, Insert,
              DuplicateKey, StoreFails, StartAdmin, Shutdown, CloseStore, Exit
<1> QED BY <1>2, <1>3, <1>4

\* A registered phone has its handler's ID and the settings of the admin's file.
LEMMA RegisteredAnswer ==
    ASSUME RegInv, NEW t \in Calls, call[t].pc = "registered"
    PROVE  /\ handler[t].id \in IDs /\ call[t].answer = Settings(file, handler[t].id)
           /\ call[t].answer.id = handler[t].id
<1>1. handler[t].id # NoID /\ call[t].answer = Settings(file, handler[t].id)
  BY DEF RegInv, HandlersFollowCalls, InStep
<1>2. handler[t].id \in IDs
  BY <1>1, Fields DEF RegInv
<1> QED BY <1>1, <1>2 DEF Settings

\* The invariant gives the types.
LEMMA RegInvTypes == RegInv => RegTypeOK
<1> SUFFICES ASSUME RegInv PROVE RegTypeOK
  OBVIOUS
<1> USE RegistrationAssumption
<1>1. ASSUME NEW t \in Calls
      PROVE  /\ call[t].answer.id \in IDs \cup {NoID}
             /\ call[t].pc = "registered" <=> call[t].answer.id # NoID
  <2>1. CASE call[t].pc = "registered"
    BY <2>1, RegisteredAnswer
  <2>2. CASE call[t].pc # "registered"
    BY <2>2 DEF RegInv, HandlersFollowCalls, InStep, NoAnswer
  <2> QED BY <2>1, <2>2
<1>2. ASSUME NEW i \in IDs PROVE doc[i].register_count \in 0..Cardinality(Calls)
  <2>1. doc[i].register_count <= Cardinality(Served(i)) /\ doc[i].register_count \in Nat
    BY DEF RegInv, CountsCover, RegShape, Docs
  <2>2. Served(i) \in SUBSET Calls /\ Calls \in SUBSET Calls
    BY DEF Served
  <2>3. Cardinality(Served(i)) <= Cardinality(Calls)
    BY <2>2, CallSets
  <2>4. Cardinality(Calls) \in Nat /\ Cardinality(Served(i)) \in Nat
    BY <2>2, CallSets
  <2> QED BY <2>1, <2>3, <2>4
<1>3. RegShape
  BY DEF RegInv
<1> QED BY <1>1, <1>2, <1>3, Fields DEF RegTypeOK, RegShape

\* A fingerprint names its phone: two phones never have the same one.
LEMMA PrintsNamePhones ==
    ASSUME NEW x, NEW y, Fingerprint(x) = Fingerprint(y), Fingerprint(x) # NoFp
    PROVE  x.phone = y.phone
<1>1. PICK v : Fingerprint(x) = <<x.phone, v>>
  BY DEF Fingerprint
<1>2. PICK w : Fingerprint(y) = <<y.phone, w>>
  BY DEF Fingerprint
<1>3. <<x.phone, v>> = <<y.phone, w>>
  BY <1>1, <1>2
<1>4. <<x.phone, v>>[1] = x.phone /\ <<y.phone, w>>[1] = y.phone
  OBVIOUS
<1> QED BY <1>3, <1>4

\* The invariant gives one DeviceID per fingerprint.
LEMMA RegInvOneID == RegInv => OneIDPerFingerprint
<1> SUFFICES ASSUME RegInv, NEW t \in Registered, NEW u \in Registered, t # u
             PROVE  /\ Fingerprint(call[t].info) # NoFp
                       /\ Fingerprint(call[t].info) = Fingerprint(call[u].info)
                       => call[t].answer.id = call[u].answer.id
                    /\ call[t].answer.id = call[u].answer.id
                       => /\ Fingerprint(call[t].info) # NoFp
                          /\ call[t].info.phone = call[u].info.phone
  BY DEF OneIDPerFingerprint
<1> USE RegistrationAssumption
<1>1. /\ t \in Calls /\ handler[t].id \in IDs /\ call[t].answer.id = handler[t].id
      /\ u \in Calls /\ handler[u].id \in IDs /\ call[u].answer.id = handler[u].id
  BY RegisteredAnswer DEF Registered
<1>2. /\ doc[handler[t].id].register_count > 0
      /\ doc[handler[t].id].fingerprint = Fingerprint(call[t].info)
      /\ doc[handler[u].id].register_count > 0
      /\ doc[handler[u].id].fingerprint = Fingerprint(call[u].info)
  BY <1>1 DEF RegInv, IDsAreBacked
<1>3. ASSUME handler[t].id = handler[u].id
      PROVE  /\ Fingerprint(call[t].info) = Fingerprint(call[u].info)
             /\ Fingerprint(call[t].info) # NoFp
  BY <1>1, <1>2, <1>3 DEF RegInv, PlainIDsAreOwn
<1>4. ASSUME handler[t].id = handler[u].id PROVE call[t].info.phone = call[u].info.phone
  BY <1>3, <1>4, PrintsNamePhones
<1>5. ASSUME Fingerprint(call[t].info) = Fingerprint(call[u].info),
             Fingerprint(call[t].info) # NoFp
      PROVE  handler[t].id = handler[u].id
  BY <1>1, <1>2, <1>5 DEF RegInv, FingerprintsAreUnique
<1> QED BY <1>1, <1>3, <1>4, <1>5

\* The invariant bounds the counts from both sides.
LEMMA RegInvCounts == RegInv => CountsRegistrations
<1> SUFFICES ASSUME RegInv, NEW i \in IDs
             PROVE  /\ doc[i].register_count >= Cardinality({t \in Registered : call[t].answer.id = i})
                    /\ doc[i].register_count <= Cardinality({t \in Calls :
                          handler[t].newID # NoID /\ Fingerprint(call[t].info) = doc[i].fingerprint})
  BY DEF CountsRegistrations
<1> USE RegistrationAssumption
<1>1. PICK R \in SUBSET Calls : R = {t \in Registered : call[t].answer.id = i}
  BY DEF Registered
<1>2. PICK S \in SUBSET Calls : S = {t \in Calls :
                          handler[t].newID # NoID /\ Fingerprint(call[t].info) = doc[i].fingerprint}
  OBVIOUS
<1>3. R \in SUBSET Given(i) /\ Given(i) \in SUBSET Calls
  BY <1>1, RegisteredAnswer DEF Given, Registered
<1>4. Served(i) \in SUBSET S /\ Served(i) \in SUBSET Calls
  BY <1>2 DEF Served, Acted
<1>5. /\ Cardinality(Given(i)) <= doc[i].register_count
      /\ doc[i].register_count <= Cardinality(Served(i))
      /\ doc[i].register_count \in Nat
  BY DEF RegInv, CountsCover, RegShape, Docs
<1>6. Cardinality(R) <= Cardinality(Given(i)) /\ Cardinality(Served(i)) <= Cardinality(S)
  BY <1>3, <1>4, CallSets
<1>7. /\ Cardinality(R) \in Nat /\ Cardinality(Given(i)) \in Nat
      /\ Cardinality(Served(i)) \in Nat /\ Cardinality(S) \in Nat
  BY <1>3, <1>4, CallSets
<1>8. Cardinality(R) <= doc[i].register_count /\ doc[i].register_count <= Cardinality(S)
  BY <1>5, <1>6, <1>7
<1> QED BY <1>1, <1>2, <1>5, <1>7, <1>8
=============================================================================

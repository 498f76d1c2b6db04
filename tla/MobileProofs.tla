---------------------------- MODULE MobileProofs ----------------------------
(***************************************************************************)
(* Proofs about the first boot, for any calls, phones, IDs, files and      *)
(* callers: a device runs under the DeviceID and with the intervals it was *)
(* given, one Run at a time, and the collection has one document per       *)
(* fingerprint that counts its registrations.                              *)
(***************************************************************************)
EXTENDS Mobile, RegistrationProofs

\* The types of the binding's own state, and only a registered thread runs.
MobileShape ==
    /\ run \in [Calls -> {"none", "called", "core", "lookup", "returning", "ended", "refused", "desktop"}]
    /\ conf \in [Calls -> [heartbeat : Int, initial : Int, max : Int]]
    /\ ctxDone \in [Calls -> BOOLEAN]
    /\ netType \in [Calls -> BOOLEAN]
    /\ runState \in [cancel : Calls \cup {NoRun}, stats : Calls \cup {NoRun}]
    /\ caller \in [Callers -> [pc : {"none", "stop", "net", "done"}, held : Calls \cup {NoRun}]]

RunnersAreRegistered ==
    \A t \in Calls : run[t] \notin {"none", "desktop"} => call[t].pc = "registered"

\* The package's cancel and stats are those of the Run in progress.
StateIsOfTheRun ==
    \A t \in Calls : /\ t \in InProgress <=> runState.cancel = t
                     /\ t \in InProgress <=> runState.stats = t

\* The stats of a Run were handed out only while it was in progress.
StatsAreOfARun ==
    /\ \A c \in Callers, t \in Calls :
           caller[c].pc = "net" /\ caller[c].held = t
           => run[t] \in {"core", "lookup", "returning", "ended"}
    /\ \A t \in Calls : netType[t] => run[t] \in {"core", "lookup", "returning", "ended"}

\* The inductive invariant.
MobileInv ==
    /\ RegInv
    /\ MobileShape
    /\ RunnersAreRegistered
    /\ StateIsOfTheRun
    /\ StatsAreOfARun
    /\ DeviceFollowsAdmin

-----------------------------------------------------------------------------
(* The configuration layers *)

\* A positive number of seconds is a positive duration.
LEMMA SecondsArePositive ==
    /\ \A n \in Int : Seconds(n) \in Int /\ (n > 0 => Seconds(n) > 0)
    /\ Seconds(60) >= Seconds(1)
BY ConfigAssumption DEF Seconds

\* What Max yields for a pair of integers.
LEMMA MaxOfTwo ==
    ASSUME NEW a \in Int, NEW b \in Int
    PROVE  /\ Max({a, b}) \in {a, b}
           /\ Max({a, b}) >= a /\ Max({a, b}) >= b
<1>1. \E x \in {a, b} : \A y \in {a, b} : x >= y
  OBVIOUS
<1>2. /\ Max({a, b}) \in {a, b}
      /\ \A y \in {a, b} : Max({a, b}) >= y
  BY <1>1 DEF Max
<1> QED BY <1>2

\* Whatever integers a file has, a client runs with positive delays and a
\* maximum that is not below the initial delay: validateClient raises it, and
\* newReconnectBackoff falls back to the defaults (client.go, backoff.go).
LEMMA EffectiveIsSound ==
    ASSUME NEW c, c.heartbeat \in Int, c.initial \in Int, c.max \in Int
    PROVE  /\ Effective(ClientDefaults(c)) \in [heartbeat : Int, initial : Int, max : Int]
           /\ Effective(ClientDefaults(c)).heartbeat > 0
           /\ Effective(ClientDefaults(c)).initial > 0
           /\ Effective(ClientDefaults(c)).max >= Effective(ClientDefaults(c)).initial
<1>1. /\ Seconds(1) \in Int /\ Seconds(1) > 0 /\ Seconds(30) \in Int /\ Seconds(30) > 0
      /\ Seconds(60) \in Int /\ Seconds(60) >= Seconds(1)
  BY SecondsArePositive
<1>2. PICK h \in Int, i \in Int, m \in Int :
         /\ h = IfZero(c.heartbeat, Seconds(30))
         /\ i = IfZero(c.initial, Seconds(1))
         /\ m = IfZero(c.max, Seconds(60))
  BY <1>1 DEF IfZero
<1>3. PICK x \in Int : x = Max({i, m}) /\ x >= i
  BY MaxOfTwo
<1>4. ClientDefaults(c) = [heartbeat |-> h, initial |-> i, max |-> x]
  BY <1>2, <1>3, Zenon DEF ClientDefaults
<1>5. PICK j \in Int : j = IfNotPositive(i, Seconds(1)) /\ j > 0 /\ (i > 0 => j = i) /\ (i <= 0 => j = Seconds(1))
  BY <1>1 DEF IfNotPositive
<1>6. newReconnectBackoff(ClientDefaults(c)) =
         [initial |-> j, max |-> IF x <= 0 \/ x < j THEN Seconds(60) ELSE x]
  BY <1>4, <1>5 DEF newReconnectBackoff
<1>7. PICK y \in Int : y = (IF x <= 0 \/ x < j THEN Seconds(60) ELSE x) /\ y >= j
  BY <1>1, <1>3, <1>5
<1>8. PICK g \in Int : g = IfNotPositive(h, Seconds(30)) /\ g > 0
  BY <1>1 DEF IfNotPositive
<1>9. Effective(ClientDefaults(c)) = [heartbeat |-> g, initial |-> j, max |-> y]
  BY <1>4, <1>6, <1>7, <1>8 DEF Effective
<1> QED BY <1>5, <1>7, <1>8, <1>9

\* Positive intervals of the answer reach core.Run as they are, except that the
\* maximum is raised to the initial delay (mobile.go's parseClientCfg).
LEMMA AppConfigIsKept ==
    ASSUME NEW answer, answer.heartbeat \in Int, answer.initial \in Int, answer.max \in Int,
           answer.heartbeat > 0, answer.initial > 0, answer.max > 0
    PROVE  Effective(ClientDefaults(AppConfig(answer))) =
               [heartbeat |-> Seconds(answer.heartbeat),
                initial |-> Seconds(answer.initial),
                max |-> Max({Seconds(answer.initial), Seconds(answer.max)})]
<1>1. PICK h \in Int, i \in Int, m \in Int :
         /\ h = Seconds(answer.heartbeat) /\ i = Seconds(answer.initial) /\ m = Seconds(answer.max)
         /\ h > 0 /\ i > 0 /\ m > 0
  BY SecondsArePositive
<1>2. AppConfig(answer) = [heartbeat |-> h, initial |-> i, max |-> m]
  BY <1>1 DEF AppConfig
<1>3. PICK x \in Int : x = Max({i, m}) /\ x >= i
  <2>1. Max({i, m}) \in {i, m} /\ Max({i, m}) >= i
    BY MaxOfTwo
  <2> QED BY <2>1
<1>4. IfZero(h, Seconds(30)) = h /\ IfZero(i, Seconds(1)) = i /\ IfZero(m, Seconds(60)) = m
  BY <1>1 DEF IfZero
<1>5. ClientDefaults(AppConfig(answer)) = [heartbeat |-> h, initial |-> i, max |-> x]
  BY <1>2, <1>3, <1>4 DEF ClientDefaults
<1>6. IfNotPositive(h, Seconds(30)) = h /\ IfNotPositive(i, Seconds(1)) = i
  BY <1>1 DEF IfNotPositive
<1>7. newReconnectBackoff([heartbeat |-> h, initial |-> i, max |-> x]) = [initial |-> i, max |-> x]
  BY <1>1, <1>3, <1>6 DEF newReconnectBackoff
<1>8. Effective([heartbeat |-> h, initial |-> i, max |-> x]) = [heartbeat |-> h, initial |-> i, max |-> x]
  BY <1>6, <1>7 DEF Effective
<1> QED BY <1>1, <1>3, <1>5, <1>8

\* LoadClient yields nothing or a validated configuration of integers.
LEMMA LoadedFilesAreValidated ==
    ASSUME NEW f \in ClientFiles, NEW c \in LoadClient(f)
    PROVE  \E r : /\ r.heartbeat \in Int /\ r.initial \in Int /\ r.max \in Int
                  /\ c = ClientDefaults(r)
<1>1. ASSUME NEW raw \in {f.heartbeat, f.initial, f.max}
      PROVE  /\ \A v \in parseJSONDurationField(raw) : v \in Int
             /\ \A v \in parseYAMLDurationField(raw) : v \in Int
  <2>1. raw.form \in {"absent", "text", "number", "junk"} /\ raw.value \in Int
    BY MobileAssumption
  <2>2. Seconds(raw.value) \in Int
    BY <2>1, SecondsArePositive
  <2>3. parseJSONDurationField(raw) \in {{0}, {Seconds(raw.value)}, {raw.value}, {}}
    BY <2>1 DEF parseJSONDurationField
  <2> QED BY <2>1, <2>2, <2>3 DEF parseYAMLDurationField
<1> DEFINE duration(raw) == IF f.json THEN parseJSONDurationField(raw) ELSE parseYAMLDurationField(raw)
<1>2. PICK H, I, M : H = duration(f.heartbeat) /\ I = duration(f.initial) /\ M = duration(f.max)
  OBVIOUS
<1>3. (\A v \in H : v \in Int) /\ (\A v \in I : v \in Int) /\ (\A v \in M : v \in Int)
  BY <1>1, <1>2
<1>4. LoadClient(f) = UNION {validateClient(f.required, [heartbeat |-> h, initial |-> i, max |-> m]) :
                                h \in H, i \in I, m \in M}
  <2>1. LoadClient(f) = UNION {validateClient(f.required, [heartbeat |-> h, initial |-> i, max |-> m]) :
            h \in duration(f.heartbeat), i \in duration(f.initial), m \in duration(f.max)}
    BY DEF LoadClient
  <2> QED BY <1>2, <2>1
<1>5. PICK h \in H, i \in I, m \in M :
         c \in validateClient(f.required, [heartbeat |-> h, initial |-> i, max |-> m])
  BY <1>4
<1> DEFINE r == [heartbeat |-> h, initial |-> i, max |-> m]
<1>6. c = ClientDefaults(r)
  BY <1>5 DEF validateClient
<1>7. r.heartbeat \in Int /\ r.initial \in Int /\ r.max \in Int
  BY <1>3
<1> QED BY <1>6, <1>7

-----------------------------------------------------------------------------
(* Steps *)

\* The initial state satisfies the invariant.
LEMMA MobileInitHolds == Init => MobileInv
<1> SUFFICES ASSUME Init PROVE MobileInv
  OBVIOUS
<1> USE MobileAssumption DEF Init
<1>1. RegInv
  BY RegInitHolds
<1>2. MobileShape
  <2>1. NoConf \in [heartbeat : Int, initial : Int, max : Int]
    BY DEF NoConf
  <2> QED BY <2>1 DEF MobileShape
<1>3. RunnersAreRegistered /\ DeviceFollowsAdmin
  BY DEF RunnersAreRegistered, DeviceFollowsAdmin
<1>4. StateIsOfTheRun
  BY DEF StateIsOfTheRun, InProgress
<1>5. StatsAreOfARun
  BY DEF StatsAreOfARun
<1> QED BY <1>1, <1>2, <1>3, <1>4, <1>5 DEF MobileInv

\* Steps of the registration leave the binding alone, and what it relies on.
LEMMA RegistrationKeeps ==
    ASSUME MobileInv, [RegNext]_regVars, UNCHANGED mobileVars
    PROVE  MobileInv'
<1>1. RegInv'
  BY RegStepHolds DEF MobileInv
<1>2. file' = file /\ \A t \in Calls : call[t].pc = "registered" => call'[t] = call[t]
  BY RegisteredStays DEF MobileInv
<1>3. UNCHANGED <<run, conf, ctxDone, netType, runState, caller>>
  BY DEF mobileVars
<1>4. MobileShape' /\ StatsAreOfARun'
  BY <1>3 DEF MobileInv, MobileShape, StatsAreOfARun
<1>5. StateIsOfTheRun'
  BY <1>3 DEF MobileInv, StateIsOfTheRun, InProgress
<1>6. RunnersAreRegistered'
  BY <1>2, <1>3 DEF MobileInv, RunnersAreRegistered
<1>7. DeviceFollowsAdmin'
  BY <1>2, <1>3 DEF MobileInv, DeviceFollowsAdmin
<1> QED BY <1>1, <1>4, <1>5, <1>6, <1>7 DEF MobileInv

\* Without a step of the registration its invariant stands.
LEMMA RegInvStands ==
    ASSUME RegInv, UNCHANGED regVars
    PROVE  RegInv'
BY RegStepHolds

\* A device gets, for every interval, what conf must have.
LEMMA CalledConfiguration ==
    ASSUME MobileInv, NEW t \in Calls, call[t].pc = "registered",
           NEW c, c = Effective(ClientDefaults(AppConfig(call[t].answer)))
    PROVE  /\ c \in [heartbeat : Int, initial : Int, max : Int]
           /\ c.heartbeat > 0 /\ c.initial > 0 /\ c.max >= c.initial
           /\ file.heartbeat > 0 => c.heartbeat = Seconds(file.heartbeat)
           /\ file.initial > 0 => c.initial = Seconds(file.initial)
           /\ file.max > 0 => c.max = Max({c.initial, Seconds(file.max)})
<1>1. file.heartbeat \in Int /\ file.initial \in Int /\ file.max \in Int
  BY RegistrationAssumption DEF MobileInv, RegInv, RegShape
<1>2. call[t].answer = Settings(file, handler[t].id)
  BY RegisteredAnswer DEF MobileInv
<1>3. PICK a : a = call[t].answer
  OBVIOUS
<1>4. /\ a.heartbeat = IfNotPositive(file.heartbeat, 30)
      /\ a.initial = IfNotPositive(file.initial, 1)
      /\ a.max = IfNotPositive(file.max, 60)
  BY <1>2, <1>3 DEF Settings
<1>5. /\ a.heartbeat \in Int /\ a.initial \in Int /\ a.max \in Int
      /\ a.heartbeat > 0 /\ a.initial > 0 /\ a.max > 0
      /\ file.heartbeat > 0 => a.heartbeat = file.heartbeat
      /\ file.initial > 0 => a.initial = file.initial
      /\ file.max > 0 => a.max = file.max
  BY <1>1, <1>4 DEF IfNotPositive
<1>6. c = [heartbeat |-> Seconds(a.heartbeat), initial |-> Seconds(a.initial),
           max |-> Max({Seconds(a.initial), Seconds(a.max)})]
  BY <1>3, <1>5, AppConfigIsKept
<1>7. PICK h \in Int, i \in Int, m \in Int :
         /\ h = Seconds(a.heartbeat) /\ i = Seconds(a.initial) /\ m = Seconds(a.max)
         /\ h > 0 /\ i > 0
  BY <1>5, SecondsArePositive
<1>8. PICK x \in Int : x = Max({i, m}) /\ x >= i
  <2>1. Max({i, m}) \in {i, m} /\ Max({i, m}) >= i
    BY MaxOfTwo
  <2> QED BY <2>1
<1>9. c = [heartbeat |-> h, initial |-> i, max |-> x]
  BY <1>6, <1>7, <1>8
<1>10. c.heartbeat = h /\ c.initial = i /\ c.max = x
  BY <1>9
<1>11. file.max > 0 => c.max = Max({c.initial, Seconds(file.max)})
  BY <1>5, <1>7, <1>8, <1>10
<1> QED BY <1>5, <1>7, <1>8, <1>9, <1>10, <1>11

\* Run is called, by an app or from a file, with a sound configuration.
LEMMA CallKeeps ==
    ASSUME MobileInv, NEW t \in Calls, CallRun(t) \/ RunFromFile(t)
    PROVE  MobileInv'
<1>1. UNCHANGED regVars /\ UNCHANGED <<ctxDone, netType, runState, caller>> /\ run[t] = "none"
  BY DEF CallRun, RunFromFile
<1>2. RegInv' /\ file' = file /\ call' = call
  BY <1>1, RegInvStands DEF MobileInv, regVars
<1>3. PICK p \in {"called", "desktop"} : run' = [run EXCEPT ![t] = p] /\ (p = "called" => CallRun(t))
  BY DEF CallRun, RunFromFile
<1>4. PICK c : conf' = [conf EXCEPT ![t] = c]
               /\ c \in [heartbeat : Int, initial : Int, max : Int]
               /\ c.heartbeat > 0 /\ c.initial > 0 /\ c.max >= c.initial
               /\ (p = "called" =>
                     /\ call[t].pc = "registered"
                     /\ file.heartbeat > 0 => c.heartbeat = Seconds(file.heartbeat)
                     /\ file.initial > 0 => c.initial = Seconds(file.initial)
                     /\ file.max > 0 => c.max = Max({c.initial, Seconds(file.max)}))
  <2>1. CASE CallRun(t)
    <3>1. PICK c : c = Effective(ClientDefaults(AppConfig(call[t].answer)))
      OBVIOUS
    <3>2. call[t].pc = "registered" /\ conf' = [conf EXCEPT ![t] = c]
      BY <2>1, <3>1 DEF CallRun, parseClientCfg, validateClient
    <3> QED BY <3>1, <3>2, CalledConfiguration
  <2>2. CASE RunFromFile(t) /\ p = "desktop"
    <3>1. PICK f \in ClientFiles : \E c \in LoadClient(f) : conf' = [conf EXCEPT ![t] = Effective(c)]
      BY <2>2 DEF RunFromFile
    <3>2. PICK v \in LoadClient(f) : conf' = [conf EXCEPT ![t] = Effective(v)]
      BY <3>1
    <3>3. PICK r : /\ r.heartbeat \in Int /\ r.initial \in Int /\ r.max \in Int
                   /\ v = ClientDefaults(r)
      BY LoadedFilesAreValidated
    <3>4. PICK c : c = Effective(ClientDefaults(r))
      OBVIOUS
    <3> QED BY <2>2, <3>2, <3>3, <3>4, EffectiveIsSound
  <2>3. CallRun(t) \/ (RunFromFile(t) /\ p = "desktop")
    BY <1>3 DEF CallRun, RunFromFile
  <2> QED BY <2>1, <2>2, <2>3
<1>5. MobileShape'
  BY <1>1, <1>3, <1>4 DEF MobileInv, MobileShape
<1>6. RunnersAreRegistered'
  BY <1>2, <1>3, <1>4 DEF MobileInv, MobileShape, RunnersAreRegistered
<1>7. InProgress' = InProgress
  BY <1>1, <1>3 DEF MobileInv, MobileShape, InProgress
<1>8. StateIsOfTheRun'
  BY <1>1, <1>7 DEF MobileInv, StateIsOfTheRun
<1>9. StatsAreOfARun'
  BY <1>1, <1>3 DEF MobileInv, MobileShape, StatsAreOfARun
<1>10. DeviceFollowsAdmin'
  <2> SUFFICES ASSUME NEW u \in Calls, run'[u] # "none"
               PROVE  /\ conf'[u].heartbeat > 0 /\ conf'[u].initial > 0
                      /\ conf'[u].max >= conf'[u].initial
                      /\ run'[u] # "desktop" =>
                           /\ file'.heartbeat > 0 => conf'[u].heartbeat = Seconds(file'.heartbeat)
                           /\ file'.initial > 0 => conf'[u].initial = Seconds(file'.initial)
                           /\ file'.max > 0 => conf'[u].max = Max({conf'[u].initial, Seconds(file'.max)})
    BY DEF DeviceFollowsAdmin
  <2>1. CASE u = t
    <3>1. conf'[u] = c /\ run'[u] = p
      BY <1>3, <1>4, <2>1 DEF MobileInv, MobileShape
    <3> QED BY <1>2, <1>3, <1>4, <3>1
  <2>2. CASE u # t
    <3>1. conf'[u] = conf[u] /\ run'[u] = run[u]
      BY <1>3, <1>4, <2>2 DEF MobileInv, MobileShape
    <3> QED BY <1>2, <3>1 DEF MobileInv, DeviceFollowsAdmin
  <2> QED BY <2>1, <2>2
<1> QED BY <1>2, <1>5, <1>6, <1>8, <1>9, <1>10 DEF MobileInv

\* The steps of a Run that was called: it stays with its call and its
\* configuration, and the package's state with the Run that has entered.
LEMMA RunKeeps ==
    ASSUME MobileInv, NEW t \in Calls,
           \/ EnterRun(t) \/ RefuseRun(t) \/ LookUp(t) \/ LookupReturns(t)
           \/ CoreStops(t) \/ CoreEnds(t) \/ LeaveRun(t)
    PROVE  MobileInv'
<1> USE MobileAssumption
<1>1. UNCHANGED regVars /\ UNCHANGED <<conf, netType, caller>>
  BY DEF EnterRun, RefuseRun, LookUp, LookupReturns, CoreStops, CoreEnds, LeaveRun
<1>2. RegInv' /\ file' = file /\ call' = call
  BY <1>1, RegInvStands DEF MobileInv, regVars
<1>3. PICK p \in {"core", "lookup", "returning", "ended", "refused"} :
         /\ run' = [run EXCEPT ![t] = p]
         /\ run[t] \in {"called", "core", "lookup", "returning"}
         /\ run[t] # "called" => p \in {"core", "lookup", "returning", "ended"}
  BY DEF EnterRun, RefuseRun, LookUp, LookupReturns, CoreStops, CoreEnds, LeaveRun
<1>4. run'[t] = p /\ \A u \in Calls : u # t => run'[u] = run[u]
  BY <1>3 DEF MobileInv, MobileShape
<1>5. RunnersAreRegistered'
  BY <1>2, <1>3, <1>4 DEF MobileInv, RunnersAreRegistered
<1>6. DeviceFollowsAdmin'
  BY <1>1, <1>2, <1>3, <1>4 DEF MobileInv, DeviceFollowsAdmin
<1>7. StatsAreOfARun'
  BY <1>1, <1>3, <1>4 DEF MobileInv, StatsAreOfARun
<1>8. MobileShape'
  <2>1. ctxDone' \in [Calls -> BOOLEAN]
    BY DEF MobileInv, MobileShape, EnterRun, RefuseRun, LookUp, LookupReturns, CoreStops, CoreEnds, LeaveRun
  <2>2. runState' \in [cancel : Calls \cup {NoRun}, stats : Calls \cup {NoRun}]
    BY DEF MobileInv, MobileShape, EnterRun, RefuseRun, LookUp, LookupReturns, CoreStops, CoreEnds, LeaveRun
  <2>3. run' \in [Calls -> {"none", "called", "core", "lookup", "returning", "ended", "refused", "desktop"}]
    BY <1>3 DEF MobileInv, MobileShape
  <2> QED BY <1>1, <2>1, <2>2, <2>3 DEF MobileInv, MobileShape
<1>9. StateIsOfTheRun'
  <2>0. /\ \A u \in Calls : u \in InProgress <=> run[u] \in {"core", "lookup", "returning"}
        /\ \A u \in Calls : u \in InProgress' <=> run'[u] \in {"core", "lookup", "returning"}
    BY DEF InProgress
  <2>1. CASE EnterRun(t)
    <3>1. runState.cancel = NoRun /\ runState'.cancel = t /\ runState'.stats = t /\ p = "core"
      BY <1>4, <2>1 DEF EnterRun, MobileInv, MobileShape
    <3>2. \A u \in Calls : u \notin InProgress
      BY <3>1 DEF MobileInv, StateIsOfTheRun
    <3> QED BY <1>4, <2>0, <3>1, <3>2 DEF StateIsOfTheRun
  <2>2. CASE LeaveRun(t)
    <3>1. runState'.cancel = NoRun /\ runState'.stats = NoRun /\ p = "ended" /\ run[t] = "returning"
      BY <1>4, <2>2 DEF LeaveRun, MobileInv, MobileShape
    <3>2. \A u \in Calls : u \in InProgress => u = t
      BY <2>0, <3>1 DEF MobileInv, StateIsOfTheRun
    <3> QED BY <1>4, <2>0, <3>1, <3>2 DEF StateIsOfTheRun
  <2>3. CASE RefuseRun(t) \/ LookUp(t) \/ LookupReturns(t) \/ CoreStops(t) \/ CoreEnds(t)
    <3>1. /\ runState' = runState
          /\ run[t] \in {"core", "lookup", "returning"} <=> p \in {"core", "lookup", "returning"}
      BY <1>4, <2>3 DEF RefuseRun, LookUp, LookupReturns, CoreStops, CoreEnds, MobileInv, MobileShape
    <3>2. \A u \in Calls : u \in InProgress' <=> u \in InProgress
      BY <1>4, <2>0, <3>1
    <3> QED BY <3>1, <3>2 DEF MobileInv, StateIsOfTheRun
  <2> QED BY <2>1, <2>2, <2>3
<1> QED BY <1>2, <1>5, <1>6, <1>7, <1>8, <1>9 DEF MobileInv

\* Stop and SetNetworkType touch the context and the stats of the Run whose
\* handles they read.
LEMMA CallersKeep ==
    ASSUME MobileInv, NEW c \in Callers,
           StopReads(c) \/ StopCancels(c) \/ SetNetworkTypeReads(c) \/ SetNetworkTypeSets(c)
    PROVE  MobileInv'
<1> USE MobileAssumption
<1>1. UNCHANGED regVars /\ UNCHANGED <<run, conf, runState>>
  BY DEF StopReads, StopCancels, SetNetworkTypeReads, SetNetworkTypeSets
<1>2. RegInv' /\ file' = file /\ call' = call
  BY <1>1, RegInvStands DEF MobileInv, regVars
<1>3. RunnersAreRegistered' /\ DeviceFollowsAdmin'
  BY <1>1, <1>2 DEF MobileInv, RunnersAreRegistered, DeviceFollowsAdmin
<1>4. StateIsOfTheRun'
  BY <1>1 DEF MobileInv, StateIsOfTheRun, InProgress
<1>t. /\ runState.cancel \in Calls \cup {NoRun} /\ runState.stats \in Calls \cup {NoRun}
      /\ caller \in [Callers -> [pc : {"none", "stop", "net", "done"}, held : Calls \cup {NoRun}]]
      /\ ctxDone \in [Calls -> BOOLEAN] /\ netType \in [Calls -> BOOLEAN]
  BY DEF MobileInv, MobileShape
<1>5. caller' \in [Callers -> [pc : {"none", "stop", "net", "done"}, held : Calls \cup {NoRun}]]
  BY <1>t DEF StopReads, StopCancels, SetNetworkTypeReads, SetNetworkTypeSets
<1>6. ctxDone' \in [Calls -> BOOLEAN] /\ netType' \in [Calls -> BOOLEAN]
  BY <1>t, Zenon DEF StopReads, StopCancels, SetNetworkTypeReads, SetNetworkTypeSets
<1>7. MobileShape'
  BY <1>1, <1>5, <1>6 DEF MobileInv, MobileShape
<1>8. \A t \in Calls : runState.stats = t => run[t] \in {"core", "lookup", "returning", "ended"}
  BY DEF MobileInv, StateIsOfTheRun, InProgress
<1>9. ASSUME NEW d \in Callers, NEW t \in Calls, caller'[d].pc = "net", caller'[d].held = t
      PROVE  run[t] \in {"core", "lookup", "returning", "ended"}
  <2>1. CASE d # c
    <3>1. caller'[d] = caller[d]
      BY <1>t, <2>1 DEF StopReads, StopCancels, SetNetworkTypeReads, SetNetworkTypeSets
    <3> QED BY <1>9, <3>1 DEF MobileInv, StatsAreOfARun
  <2>2. CASE d = c
    <3>1. caller'[d].held = runState.stats
      BY <1>9, <1>t, <2>2 DEF StopReads, StopCancels, SetNetworkTypeReads, SetNetworkTypeSets
    <3> QED BY <1>8, <1>9, <3>1
  <2> QED BY <2>1, <2>2
<1>10. ASSUME NEW t \in Calls, netType'[t] PROVE run[t] \in {"core", "lookup", "returning", "ended"}
  <2>1. CASE netType[t]
    BY <2>1 DEF MobileInv, StatsAreOfARun
  <2>2. CASE ~netType[t]
    <3>1. SetNetworkTypeSets(c)
      BY <1>10, <2>2 DEF StopReads, StopCancels, SetNetworkTypeReads
    <3>2. caller[c].pc = "net" /\ netType'[t] = (netType[t] \/ t = caller[c].held)
      BY <3>1 DEF SetNetworkTypeSets
    <3>3. t = caller[c].held
      BY <1>10, <2>2, <3>2
    <3> QED BY <3>2, <3>3 DEF MobileInv, StatsAreOfARun
  <2> QED BY <2>1, <2>2
<1>11. StatsAreOfARun'
  BY <1>1, <1>9, <1>10 DEF StatsAreOfARun
<1> QED BY <1>2, <1>3, <1>4, <1>7, <1>11 DEF MobileInv

\* Every step keeps the invariant.
LEMMA MobileStepHolds == MobileInv /\ [Next]_vars => MobileInv'
<1> SUFFICES ASSUME MobileInv, [Next]_vars PROVE MobileInv'
  OBVIOUS
<1>1. CASE AdminNext /\ UNCHANGED mobileVars
  BY <1>1, RegistrationKeeps DEF RegNext
<1>2. ASSUME NEW t \in Calls, (GiveUp(t) /\ UNCHANGED mobileVars) \/ Boot(t) PROVE MobileInv'
  BY <1>2, RegistrationKeeps DEF RegNext, Boot
<1>3. CASE UNCHANGED vars
  <2>1. UNCHANGED regVars /\ UNCHANGED mobileVars
    BY <1>3 DEF vars
  <2> QED BY <2>1, RegistrationKeeps
<1> QED BY <1>1, <1>2, <1>3, CallKeeps, RunKeeps, CallersKeep DEF Next

-----------------------------------------------------------------------------
(* Theorems *)

\* The invariant holds in every reachable state.
THEOREM MobileInvHolds == Spec => []MobileInv
BY MobileInitHolds, MobileStepHolds, PTL DEF Spec

\* The types hold: a call has an answer exactly when it is registered, only
\* registered threads run, and no document counts more calls than there are.
THEOREM MobileTypeCorrect == Spec => []TypeOK
<1>1. MobileInv => TypeOK
  BY RegInvTypes DEF MobileInv, MobileShape, RunnersAreRegistered, TypeOK
<1> QED BY <1>1, MobileInvHolds, PTL

\* Calls with the same strongest identifier get one DeviceID, and neither two
\* phones nor two calls without an identifier share one ("each call inserts a
\* new doc", store.go:91), whatever handlers race, answers are lost and admins
\* are killed.
THEOREM OneIDPerFingerprintAlways == Spec => []OneIDPerFingerprint
<1>1. MobileInv => OneIDPerFingerprint
  BY RegInvOneID DEF MobileInv
<1> QED BY <1>1, MobileInvHolds, PTL

\* "increment RegisterCount" (store.go:71): a document's count covers the calls
\* that have its ID and is covered by those served for its fingerprint.
THEOREM CountsAreAccurate == Spec => []CountsRegistrations
<1>1. MobileInv => CountsRegistrations
  BY RegInvCounts DEF MobileInv
<1> QED BY <1>1, MobileInvHolds, PTL

\* A device runs under the ID of a document that has this very device in it.
THEOREM DevicesRunAsRegistered == Spec => []RunsAsRegistered
<1>1. MobileInv => RunsAsRegistered
  <2> SUFFICES ASSUME MobileInv, NEW t \in Calls, run[t] \notin {"none", "desktop"}
               PROVE  /\ doc[call[t].answer.id].register_count > 0
                      /\ doc[call[t].answer.id].fingerprint = Fingerprint(call[t].info)
    BY DEF RunsAsRegistered
  <2>1. call[t].pc = "registered"
    BY DEF MobileInv, RunnersAreRegistered
  <2>2. handler[t].id \in IDs /\ call[t].answer.id = handler[t].id
    BY <2>1, RegisteredAnswer DEF MobileInv
  <2> QED BY <2>2, RegistrationAssumption DEF MobileInv, RegInv, IDsAreBacked
<1> QED BY <1>1, MobileInvHolds, PTL

\* The intervals of the admin's file reach a registered device through all the
\* layers, and no file makes a client run with a delay that is not positive
\* (backoff.go:16-24).
THEOREM DevicesFollowAdmin == Spec => []DeviceFollowsAdmin
<1>1. MobileInv => DeviceFollowsAdmin
  BY DEF MobileInv
<1> QED BY <1>1, MobileInvHolds, PTL

\* "Only one Run may be active at a time" (mobile.go:56), and Stop and
\* SetNetworkType reach exactly that one.
THEOREM RunStateAlwaysFollows == Spec => []RunStateFollowsRun
<1>1. MobileInv => RunStateFollowsRun
  <2> SUFFICES ASSUME MobileInv PROVE RunStateFollowsRun
    OBVIOUS
  <2>1. Cardinality(InProgress) <= 1
    <3>1. CASE InProgress = {}
      BY <3>1, FS_EmptySet
    <3>2. ASSUME NEW t \in InProgress PROVE InProgress = {t}
      BY DEF MobileInv, StateIsOfTheRun, InProgress
    <3>3. CASE \E t \in InProgress : InProgress = {t}
      BY <3>3, FS_Singleton
    <3> QED BY <3>1, <3>2, <3>3
  <2> QED BY <2>1 DEF RunStateFollowsRun, MobileInv, StateIsOfTheRun, StatsAreOfARun
<1> QED BY <1>1, MobileInvHolds, PTL
=============================================================================

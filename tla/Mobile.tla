------------------------------- MODULE Mobile -------------------------------
(***************************************************************************)
(* The first boot of a device: the gomobile binding, on top of the         *)
(* registration.  Every boot thread of the app calls Register and then Run *)
(* with what it got; other threads call Stop and SetNetworkType.  A        *)
(* desktop client is configured by a file instead.  core.Run is reduced to *)
(* how it ends; DeviceClient has the rest of it.                           *)
(***************************************************************************)
EXTENDS Registration

CONSTANTS
    Callers,       \* threads that call Stop or SetNetworkType, once each
    ClientFiles,   \* configuration files of desktop clients
    NoRun          \* the nil of runState

ASSUME MobileAssumption ==
    /\ NoRun \notin Calls
    /\ \A f \in ClientFiles : \A raw \in {f.heartbeat, f.initial, f.max} :
           raw.form \in {"absent", "text", "number", "junk"} /\ raw.value \in Int

VARIABLES
    run,        \* where each thread's Run is
    conf,       \* the configuration it runs with
    ctxDone,    \* its context is cancelled
    netType,    \* the net_type of its HeartbeatStats has been set
    runState,   \* whose cancel and whose stats the package holds
    caller      \* each Stop and SetNetworkType, and what it has read

mobileVars == <<run, conf, ctxDone, netType, runState, caller>>
vars == <<regVars, mobileVars>>

NoConf == [heartbeat |-> 0, initial |-> 0, max |-> 0]

Init ==
    /\ RegInit
    /\ run = [t \in Calls |-> "none"]
    /\ conf = [t \in Calls |-> NoConf]
    /\ ctxDone = [t \in Calls |-> FALSE]
    /\ netType = [t \in Calls |-> FALSE]
    /\ runState = [cancel |-> NoRun, stats |-> NoRun]
    /\ caller = [c \in Callers |-> [pc |-> "none", held |-> NoRun]]

-----------------------------------------------------------------------------
(* Run *)

\* The app turns the seconds of RegisterResult into the nanoseconds of
\* ClientConfig.
AppConfig(answer) ==
    [heartbeat |-> Seconds(answer.heartbeat),
     initial |-> Seconds(answer.initial),
     max |-> Seconds(answer.max)]

\* Run is called with the answer, which RegisterDevice has seen to have a
\* device_id and a server_addr; up to the lock.
CallRun(t) ==
    /\ call[t].pc = "registered" /\ run[t] = "none"
    /\ run' = [run EXCEPT ![t] = "called"]
    /\ \E c \in parseClientCfg(call[t].answer.id # NoID, AppConfig(call[t].answer)) :
           conf' = [conf EXCEPT ![t] = Effective(c)]
    /\ UNCHANGED <<regVars, ctxDone, netType, runState, caller>>

\* The lock is free and no Run is in progress.
EnterRun(t) ==
    /\ run[t] = "called" /\ runState.cancel = NoRun
    /\ runState' = [cancel |-> t, stats |-> t]
    /\ run' = [run EXCEPT ![t] = "core"]
    /\ UNCHANGED <<regVars, conf, ctxDone, netType, caller>>

\* Mutant of RefuseRun: the deferred clean-up runs for a refused Run too.
RefuseRun_Cleans(t) ==
    /\ run[t] = "called" /\ runState.cancel # NoRun
    /\ run' = [run EXCEPT ![t] = "refused"]
    /\ ctxDone' = [ctxDone EXCEPT ![t] = TRUE]
    /\ runState' = [cancel |-> NoRun, stats |-> NoRun]
    /\ UNCHANGED <<regVars, conf, netType, caller>>

\* "mobile: Run already in progress"
RefuseRun(t) ==
    /\ run[t] = "called" /\ runState.cancel # NoRun
    /\ run' = [run EXCEPT ![t] = "refused"]
    /\ ctxDone' = [ctxDone EXCEPT ![t] = TRUE]
    /\ UNCHANGED <<regVars, conf, netType, runState, caller>>

\* Mutant of LookUp: runLoop does not look at its context between attempts.
LookUp_Always(t) ==
    /\ run[t] = "core"
    /\ run' = [run EXCEPT ![t] = "lookup"]
    /\ UNCHANGED <<regVars, conf, ctxDone, netType, runState, caller>>

\* An attempt to connect asks the app's resolver, which is not told of the context.
LookUp(t) ==
    /\ run[t] = "core" /\ ~ctxDone[t]
    /\ run' = [run EXCEPT ![t] = "lookup"]
    /\ UNCHANGED <<regVars, conf, ctxDone, netType, runState, caller>>

LookupReturns(t) ==
    /\ run[t] = "lookup"
    /\ run' = [run EXCEPT ![t] = "core"]
    /\ UNCHANGED <<regVars, conf, ctxDone, netType, runState, caller>>

\* core.Run returns because its context is cancelled.
CoreStops(t) ==
    /\ run[t] = "core" /\ ctxDone[t]
    /\ run' = [run EXCEPT ![t] = "returning"]
    /\ UNCHANGED <<regVars, conf, ctxDone, netType, runState, caller>>

\* core.Run returns on its own: a heartbeat has failed, which runLoop takes
\* for a cancelled context (DeviceClient, StopsOnlyWhenTold).
CoreEnds(t) ==
    /\ run[t] = "core" /\ ~ctxDone[t]
    /\ run' = [run EXCEPT ![t] = "returning"]
    /\ UNCHANGED <<regVars, conf, ctxDone, netType, runState, caller>>

\* The deferred function of Run.
LeaveRun(t) ==
    /\ run[t] = "returning"
    /\ runState' = [cancel |-> NoRun, stats |-> NoRun]
    /\ run' = [run EXCEPT ![t] = "ended"]
    /\ ctxDone' = [ctxDone EXCEPT ![t] = TRUE]
    /\ UNCHANGED <<regVars, conf, netType, caller>>

\* client/main.go: a desktop client loads its file and runs.
RunFromFile(t) ==
    /\ call[t].pc = "idle" /\ run[t] = "none"
    /\ \E f \in ClientFiles : \E c \in LoadClient(f) :
           conf' = [conf EXCEPT ![t] = Effective(c)]
    /\ run' = [run EXCEPT ![t] = "desktop"]
    /\ UNCHANGED <<regVars, ctxDone, netType, runState, caller>>

\* A thread registers unless it is a desktop client.
Boot(t) ==
    /\ run[t] = "none"
    /\ RegisterDevice(t)
    /\ UNCHANGED mobileVars

-----------------------------------------------------------------------------
(* Stop and SetNetworkType: read under the lock, act after it *)

StopReads(c) ==
    /\ caller[c].pc = "none"
    /\ caller' = [caller EXCEPT ![c] = [pc |-> "stop", held |-> runState.cancel]]
    /\ UNCHANGED <<regVars, run, conf, ctxDone, netType, runState>>

StopCancels(c) ==
    /\ caller[c].pc = "stop"
    /\ ctxDone' = [t \in Calls |-> ctxDone[t] \/ t = caller[c].held]
    /\ caller' = [caller EXCEPT ![c].pc = "done"]
    /\ UNCHANGED <<regVars, run, conf, netType, runState>>

SetNetworkTypeReads(c) ==
    /\ caller[c].pc = "none"
    /\ caller' = [caller EXCEPT ![c] = [pc |-> "net", held |-> runState.stats]]
    /\ UNCHANGED <<regVars, run, conf, ctxDone, netType, runState>>

SetNetworkTypeSets(c) ==
    /\ caller[c].pc = "net"
    /\ netType' = [t \in Calls |-> netType[t] \/ t = caller[c].held]
    /\ caller' = [caller EXCEPT ![c].pc = "done"]
    /\ UNCHANGED <<regVars, run, conf, ctxDone, runState>>

Next ==
    \/ AdminNext /\ UNCHANGED mobileVars
    \/ \E t \in Calls :
           \/ GiveUp(t) /\ UNCHANGED mobileVars
           \/ Boot(t) \/ CallRun(t) \/ EnterRun(t) \/ RefuseRun(t) \/ LookUp(t) \/ LookupReturns(t)
           \/ CoreStops(t) \/ CoreEnds(t) \/ LeaveRun(t) \/ RunFromFile(t)
    \/ \E c \in Callers :
           StopReads(c) \/ StopCancels(c) \/ SetNetworkTypeReads(c) \/ SetNetworkTypeSets(c)

Spec == Init /\ [][Next]_vars

\* The app's threads run, core.Run notices a cancelled context (StopEndsRun of
\* DeviceClient), and the system's resolver answers sooner or later.
FairSpec ==
    /\ Spec
    /\ \A t \in Calls : WF_vars(LookupReturns(t)) /\ WF_vars(CoreStops(t)) /\ WF_vars(LeaveRun(t))
    /\ \A c \in Callers : WF_vars(StopCancels(c))

-----------------------------------------------------------------------------
(* Properties *)

\* The type invariant: the registration's, and only a registered thread runs
\* (Register, then Run).
TypeOK ==
    /\ RegTypeOK
    /\ run \in [Calls -> {"none", "called", "core", "lookup", "returning", "ended", "refused", "desktop"}]
    /\ \A t \in Calls : run[t] \notin {"none", "desktop"} => call[t].pc = "registered"
    /\ conf \in [Calls -> [heartbeat : Int, initial : Int, max : Int]]
    /\ ctxDone \in [Calls -> BOOLEAN]
    /\ netType \in [Calls -> BOOLEAN]
    /\ runState \in [cancel : Calls \cup {NoRun}, stats : Calls \cup {NoRun}]
    /\ caller \in [Callers -> [pc : {"none", "stop", "net", "done"}, held : Calls \cup {NoRun}]]

\* A device runs under a DeviceID the admin has a document for, with this very
\* device in it, so that its heartbeats are not dropped as unknown
\* (store.go:83-86), also when answers were lost and the admin was killed.
RunsAsRegistered ==
    \A t \in Calls :
        run[t] \notin {"none", "desktop"} =>
            /\ doc[call[t].answer.id].register_count > 0
            /\ doc[call[t].answer.id].fingerprint = Fingerprint(call[t].info)

\* Through all layers, a registered device works with the intervals of the
\* admin's file where they are positive, with a maximum no smaller than the
\* initial delay; and no file makes a client run with a delay that is not
\* positive or a maximum below the initial delay (backoff.go:16-24).
DeviceFollowsAdmin ==
    \A t \in Calls :
        run[t] # "none" =>
            /\ conf[t].heartbeat > 0 /\ conf[t].initial > 0 /\ conf[t].max >= conf[t].initial
            /\ run[t] # "desktop" =>
                   /\ file.heartbeat > 0 => conf[t].heartbeat = Seconds(file.heartbeat)
                   /\ file.initial > 0 => conf[t].initial = Seconds(file.initial)
                   /\ file.max > 0 => conf[t].max = Max({conf[t].initial, Seconds(file.max)})

InProgress == {t \in Calls : run[t] \in {"core", "lookup", "returning"}}

\* "Only one Run may be active at a time" (mobile.go:56), and while one is, Stop
\* and SetNetworkType reach exactly it: neither a refused Run nor the end of an
\* earlier one takes its cancel or its stats away, and a Run that was refused is
\* touched by nobody.
RunStateFollowsRun ==
    /\ Cardinality(InProgress) <= 1
    /\ \A t \in Calls : (t \in InProgress <=> runState.cancel = t) /\ (t \in InProgress <=> runState.stats = t)
    /\ \A t \in Calls : netType[t] => run[t] \in {"core", "lookup", "returning", "ended"}

\* "Stop cancels a blocking Run from another thread" (mobile.go:155): a Stop
\* that finds a Run ends it, even while the resolver holds it up.
StopEndsTheRun ==
    \A t \in Calls, c \in Callers :
        (caller[c].pc = "stop" /\ caller[c].held = t) ~> (run[t] = "ended")
=============================================================================

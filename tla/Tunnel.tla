------------------------------- MODULE Tunnel -------------------------------
(***************************************************************************)
(* One SOCKS5 CONNECT from the user to the target and back:                *)
(*                                                                         *)
(*   user == handleConnect/Proxy (go-socks5), DialThroughDevice (hub)      *)
(*        == yamux stream == handleConnectStream (client/core) == target   *)
(*                                                                         *)
(* The two directions of the stream are sequences of what has been written *)
(* and not yet read, with a flag for the FIN behind it.  A byte is named by*)
(* its number.  Flow control belongs to yamux and is left out.             *)
(***************************************************************************)
EXTENDS Integers, Sequences

CONSTANTS
    DeviceWait,    \* device_wait_timeout > 0
    MaxBytes       \* bound on the bytes each end sends

ASSUME TunnelAssumption == DeviceWait \in BOOLEAN /\ MaxBytes \in Nat

VARIABLES
    registered,  \* the session is in the registry
    session,     \* "none", "up" or "down"
    srv,         \* where the SOCKS5 handler is
    up,          \* its Proxy user -> stream
    down,        \* its Proxy stream -> user
    s2d, sFin,   \* stream, server to device
    d2s, dFin,   \* stream, device to server
    srvBuf,      \* bytes left in DialThroughDevice's bufio.Reader
    dvc,         \* where handleConnectStream is
    cup,         \* its copy stream -> target
    cdown,       \* its copy target -> stream
    devBuf,      \* bytes left in handleConnectStream's bufio.Reader
    user,        \* the user's connection
    usent,       \* bytes the user has sent
    ucopied,     \* of which Proxy has read
    toUser,      \* what the user has received
    target,      \* the device's connection to the target
    tsent, tcopied, toTarget

link == <<registered, session>>
stream == <<s2d, sFin, d2s, dFin>>
server == <<srv, up, down, srvBuf>>
device == <<dvc, cup, cdown, devBuf>>
uside == <<user, usent, ucopied, toUser>>
tside == <<target, tsent, tcopied, toTarget>>
vars == <<link, stream, server, device, uside, tside>>

\* A line of the protocol, and the n-th byte of the relay.
Line(type) == [line |-> type, n |-> 0]
Byte(n) == [line |-> "raw", n |-> n]

\* A copy that has not begun, runs, or has ended at an end of file or an error.
CopyState == {"off", "run", "ok", "err"}

Init ==
    /\ registered = FALSE /\ session = "none"
    /\ srv = "wait" /\ up = "off" /\ down = "off" /\ srvBuf = <<>>
    /\ s2d = <<>> /\ sFin = FALSE /\ d2s = <<>> /\ dFin = FALSE
    /\ dvc = "accept" /\ cup = "off" /\ cdown = "off" /\ devBuf = <<>>
    /\ user = "open" /\ usent = 0 /\ ucopied = 0 /\ toUser = <<>>
    /\ target = "none" /\ tsent = 0 /\ tcopied = 0 /\ toTarget = <<>>

-----------------------------------------------------------------------------
(* The session *)

DeviceRegisters ==
    /\ session = "none"
    /\ session' = "up" /\ registered' = TRUE
    /\ UNCHANGED <<stream, server, device, uside, tside>>

\* The session dies; of what was on its way only a prefix has arrived.
SessionLost ==
    /\ session = "up"
    /\ session' = "down"
    /\ \E i \in 0..Len(s2d) : s2d' = SubSeq(s2d, 1, i)
    /\ \E i \in 0..Len(d2s) : d2s' = SubSeq(d2s, 1, i)
    /\ UNCHANGED <<registered, sFin, dFin, server, device, uside, tside>>

\* ServeDevice removes it from the registry some time later.
Deregister ==
    /\ registered /\ session = "down"
    /\ registered' = FALSE
    /\ UNCHANGED <<session, stream, server, device, uside, tside>>

\* A read of the stream finds its end.
AtEnd(data, fin) == data = <<>> /\ (fin \/ session = "down")

-----------------------------------------------------------------------------
(* DialThroughDevice *)

Fail ==
    /\ srv' = "failed"
    /\ sFin' = TRUE

\* WaitSession polls the registry; OpenStream fails on a dead session.
WaitSession ==
    /\ srv = "wait" /\ registered
    /\ srv' = IF session = "up" THEN "connect" ELSE "failed"
    /\ UNCHANGED <<link, stream, up, down, srvBuf, device, uside, tside>>

\* Mutant of WaitTimeout: the deadline is not put on the context.
WaitTimeout_Never == FALSE /\ UNCHANGED vars

\* Without a device_wait_timeout the context never ends.
WaitTimeout ==
    /\ srv = "wait" /\ DeviceWait
    /\ srv' = "failed"
    /\ UNCHANGED <<link, stream, up, down, srvBuf, device, uside, tside>>

\* Mutant of WriteConnect: the relay starts without waiting for the result.
WriteConnect_Optimistic ==
    /\ srv = "connect" /\ session = "up"
    /\ s2d' = Append(s2d, Line("connect")) /\ srv' = "relay" /\ up' = "run" /\ down' = "run"
    /\ UNCHANGED <<link, sFin, d2s, dFin, srvBuf, device, uside, tside>>

WriteConnect ==
    /\ srv = "connect"
    /\ \/ /\ session = "up"
          /\ s2d' = Append(s2d, Line("connect")) /\ srv' = "result" /\ UNCHANGED sFin
       \/ /\ session = "down"
          /\ Fail /\ UNCHANGED s2d
    /\ UNCHANGED <<link, d2s, dFin, up, down, srvBuf, device, uside, tside>>

\* ReadLine through a bufio.Reader takes the line and whatever arrived with
\* it; on success the raw stream is returned and the buffer is dropped.
ReadResult ==
    /\ srv = "result" /\ d2s # <<>>
    /\ \E k \in 1..Len(d2s) :
          /\ d2s' = SubSeq(d2s, k + 1, Len(d2s))
          /\ srvBuf' = SubSeq(d2s, 2, k)
    /\ \/ Head(d2s) = Line("ok") /\ srv' = "reply" /\ UNCHANGED sFin
       \/ Head(d2s) = Line("refused") /\ Fail
    /\ UNCHANGED <<link, s2d, dFin, up, down, device, uside, tside>>

\* Mutant of ResultFails: the error path forgets stream.Close.
ResultFails_Leak ==
    /\ srv = "result"
    /\ srv' = "failed"
    /\ UNCHANGED <<link, stream, up, down, srvBuf, device, uside, tside>>

\* The read fails, or connect_result_timeout (never 0 after validation) runs
\* out first.
ResultFails ==
    /\ srv = "result"
    /\ Fail
    /\ UNCHANGED <<link, s2d, d2s, dFin, up, down, srvBuf, device, uside, tside>>

-----------------------------------------------------------------------------
(* handleConnect *)

SendReply ==
    /\ srv = "reply"
    /\ \/ srv' = "relay" /\ up' = "run" /\ down' = "run" /\ UNCHANGED sFin
       \/ user # "open" /\ srv' = "closed" /\ sFin' = TRUE /\ UNCHANGED <<up, down>>
    /\ UNCHANGED <<link, s2d, d2s, dFin, srvBuf, device, uside, tside>>

\* Mutant of ProxyUp: the loop writes its buffer before it looks at the error of
\* the read, at the end of file too.
ProxyUp_PastEOF ==
    /\ srv = "relay" /\ up = "run"
    /\ ucopied < usent \/ user = "eof"
    /\ ucopied' = ucopied + 1
    /\ \/ session = "up" /\ s2d' = Append(s2d, Byte(ucopied + 1)) /\ UNCHANGED up
       \/ session = "down" /\ up' = "err" /\ UNCHANGED s2d
    /\ UNCHANGED <<link, sFin, d2s, dFin, srv, down, srvBuf, device, user, usent, toUser, tside>>

\* Proxy(target, request.Reader) copies a byte; the write fails on a dead
\* session.
ProxyUp ==
    /\ srv = "relay" /\ up = "run"
    /\ ucopied < usent
    /\ ucopied' = ucopied + 1
    /\ \/ session = "up" /\ s2d' = Append(s2d, Byte(ucopied + 1)) /\ UNCHANGED up
       \/ session = "down" /\ up' = "err" /\ UNCHANGED s2d
    /\ UNCHANGED <<link, sFin, d2s, dFin, srv, down, srvBuf, device, user, usent, toUser, tside>>

\* The user's end of file ends the copy; the stream has no CloseWrite, so the
\* device does not hear of it.  A reset is an error.
ProxyUpEnds ==
    /\ srv = "relay" /\ up = "run" /\ ucopied = usent
    /\ \/ user = "eof" /\ up' = "ok"
       \/ user = "reset" /\ up' = "err"
    /\ UNCHANGED <<link, stream, srv, down, srvBuf, device, uside, tside>>

\* Proxy(writer, target): the write fails if the user has gone.
ProxyDown ==
    /\ srv = "relay" /\ down = "run" /\ d2s # <<>>
    /\ d2s' = Tail(d2s)
    /\ \/ toUser' = Append(toUser, Head(d2s)) /\ UNCHANGED down
       \/ user # "open" /\ down' = "err" /\ UNCHANGED toUser
    /\ UNCHANGED <<link, s2d, sFin, dFin, srv, up, srvBuf, device, user, usent, ucopied, tside>>

ProxyDownEnds ==
    /\ srv = "relay" /\ down = "run" /\ AtEnd(d2s, dFin)
    /\ down' = "ok"
    /\ UNCHANGED <<link, stream, srv, up, srvBuf, device, uside, tside>>

\* handleConnect returns at the first error or when both copies have ended;
\* the deferred Close releases the lease handle and sends the FIN.
HandlerReturns ==
    /\ srv = "relay"
    /\ up = "err" \/ down = "err" \/ (up = "ok" /\ down = "ok")
    /\ srv' = "closed" /\ sFin' = TRUE
    /\ UNCHANGED <<link, s2d, d2s, dFin, up, down, srvBuf, device, uside, tside>>

-----------------------------------------------------------------------------
(* handleConnectStream *)

\* ReadLine of the connect request, again through a bufio.Reader.
ReadConnect ==
    /\ dvc = "accept" /\ s2d # <<>>
    /\ \E k \in 1..Len(s2d) :
          /\ s2d' = SubSeq(s2d, k + 1, Len(s2d))
          /\ devBuf' = SubSeq(s2d, 2, k)
    /\ dvc' = "dial"
    /\ UNCHANGED <<link, sFin, d2s, dFin, server, cup, cdown, uside, tside>>

ReadConnectFails ==
    /\ dvc = "accept" /\ session # "none" /\ AtEnd(s2d, sFin)
    /\ dvc' = "done" /\ dFin' = TRUE
    /\ UNCHANGED <<link, s2d, sFin, d2s, server, cup, cdown, devBuf, uside, tside>>

\* dialConnectTarget, then connect_result; the reply fails on a dead session.
DialTarget ==
    /\ dvc = "dial"
    /\ \/ /\ session = "up"
          /\ target' = "open" /\ d2s' = Append(d2s, Line("ok"))
          /\ dvc' = "relay" /\ cup' = "run" /\ cdown' = "run" /\ UNCHANGED dFin
       \/ /\ session = "down"
          /\ target' = "closed" /\ dvc' = "done" /\ dFin' = TRUE
          /\ UNCHANGED <<d2s, cup, cdown>>
       \/ /\ d2s' = IF session = "up" THEN Append(d2s, Line("refused")) ELSE d2s
          /\ dvc' = "done" /\ dFin' = TRUE
          /\ UNCHANGED <<target, cup, cdown>>
    /\ UNCHANGED <<link, s2d, sFin, server, devBuf, uside, tsent, tcopied, toTarget>>

\* io.Copy(target, stream): a byte, or a write error once the target has gone.
CopyUp ==
    /\ cup = "run" /\ s2d # <<>>
    /\ s2d' = Tail(s2d)
    /\ \/ /\ target \in {"open", "eof"}
          /\ toTarget' = Append(toTarget, Head(s2d)) /\ UNCHANGED <<cup, target>>
       \/ /\ target = "eof"
          /\ cup' = "err" /\ target' = "closed" /\ UNCHANGED toTarget
    /\ UNCHANGED <<link, sFin, d2s, dFin, server, dvc, cdown, devBuf, uside, tsent, tcopied>>

\* Mutant of CopyUpEnds: the target is left open.
CopyUpEnds_NoClose ==
    /\ cup = "run" /\ AtEnd(s2d, sFin)
    /\ cup' = "ok"
    /\ UNCHANGED <<link, stream, server, dvc, cdown, devBuf, uside, tside>>

\* The end of the stream closes the target.
CopyUpEnds ==
    /\ cup = "run" /\ AtEnd(s2d, sFin)
    /\ cup' = "ok" /\ target' = "closed"
    /\ UNCHANGED <<link, stream, server, dvc, cdown, devBuf, uside, tsent, tcopied, toTarget>>

\* io.Copy(stream, target)
CopyDown ==
    /\ cdown = "run" /\ target \in {"open", "eof"} /\ tcopied < tsent
    /\ tcopied' = tcopied + 1
    /\ \/ session = "up" /\ d2s' = Append(d2s, Byte(tcopied + 1)) /\ UNCHANGED cdown
       \/ session = "down" /\ cdown' = "err" /\ UNCHANGED d2s
    /\ UNCHANGED <<link, s2d, sFin, dFin, server, dvc, cup, devBuf, uside, target, tsent, toTarget>>

\* The target's end of file ends this copy only: nothing is closed.
CopyDownEnds ==
    /\ cdown = "run"
    /\ target = "closed" \/ (target = "eof" /\ tcopied = tsent)
    /\ cdown' = "ok"
    /\ UNCHANGED <<link, stream, server, dvc, cup, devBuf, uside, tside>>

\* wg.Wait returns and the deferred Close sends the FIN.
StreamDone ==
    /\ dvc = "relay" /\ cup \in {"ok", "err"} /\ cdown \in {"ok", "err"}
    /\ dvc' = "done" /\ dFin' = TRUE
    /\ UNCHANGED <<link, s2d, sFin, d2s, server, cup, cdown, devBuf, uside, tside>>

-----------------------------------------------------------------------------
(* The two ends *)

UserSends ==
    /\ user = "open" /\ usent < MaxBytes /\ srv \notin {"failed", "closed"}
    /\ usent' = usent + 1
    /\ UNCHANGED <<link, stream, server, device, user, ucopied, toUser, tside>>

UserCloses ==
    /\ user = "open"
    /\ user' \in {"eof", "reset"}
    /\ UNCHANGED <<link, stream, server, device, usent, ucopied, toUser, tside>>

TargetSends ==
    /\ target = "open" /\ tsent < MaxBytes
    /\ tsent' = tsent + 1
    /\ UNCHANGED <<link, stream, server, device, uside, target, tcopied, toTarget>>

TargetCloses ==
    /\ target = "open"
    /\ target' = "eof"
    /\ UNCHANGED <<link, stream, server, device, uside, tsent, tcopied, toTarget>>

ServerStep ==
    \/ WaitSession \/ WaitTimeout \/ WriteConnect \/ ReadResult \/ ResultFails
    \/ SendReply \/ HandlerReturns

DeviceStep ==
    \/ ReadConnect \/ ReadConnectFails \/ DialTarget \/ StreamDone

Next ==
    \/ DeviceRegisters \/ SessionLost \/ Deregister
    \/ ServerStep \/ ProxyUp \/ ProxyUpEnds \/ ProxyDown \/ ProxyDownEnds
    \/ DeviceStep \/ CopyUp \/ CopyUpEnds \/ CopyDown \/ CopyDownEnds
    \/ UserSends \/ UserCloses \/ TargetSends \/ TargetCloses

Spec == Init /\ [][Next]_vars

\* Every goroutine that can run does, and timers fire.  Nothing is assumed of
\* the user, the target or the network.
FairSpec ==
    /\ Spec
    /\ WF_vars(ServerStep) /\ WF_vars(DeviceStep)
    /\ WF_vars(ProxyUp \/ ProxyUpEnds) /\ WF_vars(ProxyDown \/ ProxyDownEnds)
    /\ WF_vars(CopyUp \/ CopyUpEnds) /\ WF_vars(CopyDown \/ CopyDownEnds)

-----------------------------------------------------------------------------
(* Properties *)

Messages == [line : {"raw", "connect", "ok", "refused"}, n : 0..MaxBytes]

\* The type invariant: no copy passes on a byte that was not sent (handle.go, run.go).
TypeOK ==
    /\ registered \in BOOLEAN /\ session \in {"none", "up", "down"}
    /\ srv \in {"wait", "connect", "result", "reply", "relay", "failed", "closed"}
    /\ up \in CopyState /\ down \in CopyState /\ cup \in CopyState /\ cdown \in CopyState
    /\ dvc \in {"accept", "dial", "relay", "done"}
    /\ \A s \in {s2d, d2s, srvBuf, devBuf, toUser, toTarget} : s \in Seq(Messages)
    /\ sFin \in BOOLEAN /\ dFin \in BOOLEAN
    /\ user \in {"open", "eof", "reset"}
    /\ target \in {"none", "open", "eof", "closed"}
    /\ usent \in 0..MaxBytes /\ ucopied \in 0..usent
    /\ tsent \in 0..MaxBytes /\ tcopied \in 0..tsent

FirstBytes(n) == [i \in 1..n |-> Byte(i)]

\* Nothing the user sends is lost or reordered on the way to the target, and
\* no protocol line leaks into it: handleConnectStream drops its
\* bufio.Reader, which is safe because the server relays only after the
\* connect_result.
UserBytesArriveInOrder ==
    /\ devBuf = <<>>
    /\ \E n \in 0..usent : toTarget = FirstBytes(n)

\* With a positive device_wait_timeout (DeviceWait) DialThroughDevice ends, in a
\* relay or in an error, whatever the device does and whenever the session dies
\* between the wait, the connect line and its result.
DialSettles == srv = "wait" ~> srv \in {"reply", "relay", "closed", "failed"}

\* "Wait for a device to register before failing SOCKS5 dial (0 = no wait)."
\* (server.example.yaml:28): with a device_wait_timeout of 0, which the
\* configuration keeps, a dial does not stay in WaitSession.
ZeroMeansNoWait == ~DeviceWait /\ srv = "wait" ~> srv # "wait"

\* The device has heard of the stream or is about to.
Opened == dvc # "accept" \/ s2d # <<>>

TargetReleased == dvc = "done" /\ target \in {"none", "closed"}

\* A handler that has given up or ended frees the device: on every error path
\* the stream is closed, the device's goroutine ends and its target connection
\* is closed, whatever was on its way, the connect_result included.
DeviceCleansUp == srv \in {"failed", "closed"} /\ Opened ~> TargetReleased

\* What the loss of a session ends: the device always lets the target go, and
\* the handler returns (handle.go, run.go) -- unless its user stays connected
\* and sends nothing.  Such a handler waits in its read of the user with its
\* lease handle open, so "in-flight SOCKS streams unblock once their underlying
\* yamux session goes away" (main.go:254-255) is not true of every stream.
SessionLossEndsRelay ==
    session = "down" /\ srv = "relay" ~>
        /\ TargetReleased
        /\ \/ srv = "closed"
           \/ down # "run" /\ user = "open" /\ usent = ucopied

\* "connect_result, then raw TCP relay" (README.md): the user receives the
\* target's bytes from the first on.
TargetBytesArriveInOrder == \E n \in 0..tsent : toUser = FirstBytes(n)

\* "handle.Close() runs when the SOCKS5 stream ends" (main.go:313-315): once
\* both the user and the target have closed, the handler ends.
RelayEnds ==
    srv = "relay" /\ user # "open" /\ target = "eof" ~> srv = "closed"
=============================================================================

---------------------------- MODULE TunnelProofs ----------------------------
(***************************************************************************)
(* Proofs about the tunnel, for any number of bytes: the user's bytes      *)
(* reach the target in order, none is lost in a buffer, and no protocol    *)
(* line is among them.                                                     *)
(***************************************************************************)
EXTENDS Tunnel, SequenceTheorems, TLAPS

\* The types, by kind.
FlagsOK == registered \in BOOLEAN /\ sFin \in BOOLEAN /\ dFin \in BOOLEAN

StatesOK ==
    /\ session \in {"none", "up", "down"}
    /\ srv \in {"wait", "connect", "result", "reply", "relay", "failed", "closed"}
    /\ up \in CopyState /\ down \in CopyState /\ cup \in CopyState /\ cdown \in CopyState
    /\ dvc \in {"accept", "dial", "relay", "done"}
    /\ user \in {"open", "eof", "reset"}
    /\ target \in {"none", "open", "eof", "closed"}

CountersOK ==
    /\ usent \in 0..MaxBytes /\ ucopied \in 0..usent
    /\ tsent \in 0..MaxBytes /\ tcopied \in 0..tsent

SequencesOK ==
    /\ s2d \in Seq(Messages) /\ d2s \in Seq(Messages)
    /\ srvBuf \in Seq(Messages) /\ devBuf \in Seq(Messages)
    /\ toUser \in Seq(Messages) /\ toTarget \in Seq(Messages)

\* The handshake: the connect line is alone on the stream until the device has
\* read it, and until the device has dialled, nothing comes back and nothing of
\* the user is relayed.
Handshake ==
    /\ session = "none" => s2d = <<>> /\ dvc = "accept"
    /\ srv \in {"wait", "connect"} => s2d = <<>>
    /\ dvc = "accept" => Len(s2d) <= 1
    /\ dvc = "dial" => s2d = <<>>
    /\ dvc \in {"accept", "dial"} =>
          /\ d2s = <<>> /\ ucopied = 0 /\ toTarget = <<>>
          /\ srv \in {"wait", "connect", "result", "failed"}
          /\ cup = "off" /\ cdown = "off"
    /\ dvc \in {"dial", "relay"} => srv \notin {"wait", "connect"}
    /\ cup = "run" => dvc = "relay"
    /\ devBuf = <<>>

\* What the target has received are the user's first bytes, and what is on the
\* stream of a running copy are the next ones, up to the last one that Proxy has
\* read unless the session was lost.
BytesInOrder ==
    /\ \A j \in 1..Len(toTarget) : toTarget[j] = Byte(j)
    /\ Len(toTarget) <= ucopied
    /\ cup = "run" =>
          /\ \A j \in 1..Len(s2d) : s2d[j] = Byte(Len(toTarget) + j)
          /\ Len(toTarget) + Len(s2d) <= ucopied
          /\ session = "up" => Len(toTarget) + Len(s2d) = ucopied

\* The inductive invariant.
TunnelInv ==
    /\ FlagsOK
    /\ StatesOK
    /\ CountersOK
    /\ SequencesOK
    /\ Handshake
    /\ BytesInOrder

-----------------------------------------------------------------------------
(* Messages and sequences of them *)

\* The bound on the bytes is a number.
LEMMA BoundIsNat == MaxBytes \in Nat
BY TunnelAssumption, Zenon

\* Lines and the bytes that an end may send are messages.
LEMMA MessagesAre ==
    /\ Line("connect") \in Messages /\ Line("ok") \in Messages /\ Line("refused") \in Messages
    /\ \A n \in 0..MaxBytes : Byte(n) \in Messages
BY BoundIsNat DEF Line, Byte, Messages

\* What a write appends.
LEMMA Appends ==
    ASSUME NEW s \in Seq(Messages), NEW m \in Messages
    PROVE  /\ Append(s, m) \in Seq(Messages) /\ Len(Append(s, m)) = Len(s) + 1
           /\ Append(s, m)[Len(s) + 1] = m /\ \A j \in 1..Len(s) : Append(s, m)[j] = s[j]
           /\ Len(s) \in Nat
BY AppendProperties, LenProperties

\* What a read takes off.
LEMMA HeadsAndTails ==
    ASSUME NEW s \in Seq(Messages), s # <<>>
    PROVE  /\ Head(s) \in Messages /\ Head(s) = s[1]
           /\ Tail(s) \in Seq(Messages) /\ Len(Tail(s)) = Len(s) - 1
           /\ \A j \in 1..(Len(s) - 1) : Tail(s)[j] = s[j + 1]
           /\ Len(s) \in Nat /\ Len(s) > 0
BY HeadTailProperties, LenProperties, EmptySeq

\* What is left of a sequence when a session is lost.
LEMMA Prefixes ==
    ASSUME NEW s \in Seq(Messages), NEW i \in 0..Len(s)
    PROVE  /\ SubSeq(s, 1, i) \in Seq(Messages) /\ Len(SubSeq(s, 1, i)) = i
           /\ \A j \in 1..i : SubSeq(s, 1, i)[j] = s[j]
<1>1. Len(s) \in Nat /\ \A j \in 1..i : s[j] \in Messages
  BY LenProperties, ElementOfSeq
<1> QED BY <1>1, SubSeqProperties

\* What a bufio.Reader takes, and what it leaves.
LEMMA Splits ==
    ASSUME NEW s \in Seq(Messages), NEW k \in 1..Len(s)
    PROVE  /\ SubSeq(s, k + 1, Len(s)) \in Seq(Messages) /\ SubSeq(s, 2, k) \in Seq(Messages)
           /\ Len(s) = 1 => SubSeq(s, k + 1, Len(s)) = <<>> /\ SubSeq(s, 2, k) = <<>>
<1>1. Len(s) \in Nat /\ k \in Int /\ \A j \in 1..Len(s) : s[j] \in Messages
  BY LenProperties, ElementOfSeq
<1>2. SubSeq(s, k + 1, Len(s)) \in Seq(Messages)
  <2>1. \A j \in (k + 1)..Len(s) : s[j] \in Messages
    BY <1>1
  <2> QED BY <1>1, <2>1, SubSeqProperties
<1>3. SubSeq(s, 2, k) \in Seq(Messages)
  <2>1. \A j \in 2..k : s[j] \in Messages
    BY <1>1
  <2> QED BY <1>1, <2>1, SubSeqProperties
<1>4. Len(s) = 1 => SubSeq(s, k + 1, Len(s)) = <<>> /\ SubSeq(s, 2, k) = <<>>
  BY <1>1, SubSeqEmpty
<1> QED BY <1>2, <1>3, <1>4

-----------------------------------------------------------------------------
(* Steps *)

\* The initial state satisfies the invariant.
LEMMA TunnelInit == Init => TunnelInv
<1> SUFFICES ASSUME Init PROVE TunnelInv
  OBVIOUS
<1> USE BoundIsNat DEF Init
<1>0. FlagsOK
  BY DEF FlagsOK
<1>1. StatesOK
  BY DEF StatesOK, CopyState
<1>2. CountersOK
  BY DEF CountersOK
<1>3. SequencesOK
  BY DEF SequencesOK
<1>4. Handshake
  BY EmptySeq DEF Handshake
<1>5. BytesInOrder
  BY EmptySeq DEF BytesInOrder
<1> QED BY <1>0, <1>1, <1>2, <1>3, <1>4, <1>5 DEF TunnelInv

\* Every step keeps the flags.
LEMMA FlagsStep == TunnelInv /\ [Next]_vars => FlagsOK'
<1> SUFFICES ASSUME FlagsOK, [Next]_vars PROVE FlagsOK'
  BY DEF TunnelInv
<1>1. /\ registered' \in {registered, TRUE, FALSE}
      /\ sFin' \in {sFin, TRUE} /\ dFin' \in {dFin, TRUE}
  BY DEF Next, ServerStep, DeviceStep, vars, link, stream, Fail,
         DeviceRegisters, SessionLost, Deregister, WaitSession, WaitTimeout, WriteConnect,
         ReadResult, ResultFails, SendReply, HandlerReturns, ProxyUp, ProxyUpEnds, ProxyDown,
         ProxyDownEnds, ReadConnect, ReadConnectFails, DialTarget, StreamDone, CopyUp,
         CopyUpEnds, CopyDown, CopyDownEnds, UserSends, UserCloses, TargetSends, TargetCloses
<1> QED BY <1>1, Zenon DEF FlagsOK

\* Every step keeps the control states.
LEMMA StatesStep == TunnelInv /\ [Next]_vars => StatesOK'
<1> SUFFICES ASSUME StatesOK, [Next]_vars PROVE StatesOK'
  BY DEF TunnelInv
<1> USE DEF StatesOK, CopyState, link, stream, server, device, uside, tside
<1>1. CASE DeviceRegisters
  BY <1>1 DEF DeviceRegisters
<1>2. CASE SessionLost
  BY <1>2 DEF SessionLost
<1>3. CASE Deregister
  BY <1>3 DEF Deregister
<1>4. CASE WaitSession
  BY <1>4 DEF WaitSession
<1>5. CASE WaitTimeout
  BY <1>5 DEF WaitTimeout
<1>6. CASE WriteConnect
  BY <1>6 DEF WriteConnect, Fail
<1>7. CASE ReadResult
  BY <1>7 DEF ReadResult, Fail
<1>8. CASE ResultFails
  BY <1>8 DEF ResultFails, Fail
<1>9. CASE SendReply
  BY <1>9 DEF SendReply
<1>10. CASE HandlerReturns
  BY <1>10 DEF HandlerReturns
<1>11. CASE ProxyUp
  BY <1>11 DEF ProxyUp
<1>12. CASE ProxyUpEnds
  BY <1>12 DEF ProxyUpEnds
<1>13. CASE ProxyDown
  BY <1>13 DEF ProxyDown
<1>14. CASE ProxyDownEnds
  BY <1>14 DEF ProxyDownEnds
<1>15. CASE ReadConnect
  BY <1>15 DEF ReadConnect
<1>16. CASE ReadConnectFails
  BY <1>16 DEF ReadConnectFails
<1>17. CASE DialTarget
  BY <1>17 DEF DialTarget
<1>18. CASE StreamDone
  BY <1>18 DEF StreamDone
<1>19. CASE CopyUp
  BY <1>19 DEF CopyUp
<1>20. CASE CopyUpEnds
  BY <1>20 DEF CopyUpEnds
<1>21. CASE CopyDown
  BY <1>21 DEF CopyDown
<1>22. CASE CopyDownEnds
  BY <1>22 DEF CopyDownEnds
<1>23. CASE UserSends
  BY <1>23 DEF UserSends
<1>24. CASE UserCloses
  BY <1>24 DEF UserCloses
<1>25. CASE TargetSends
  BY <1>25 DEF TargetSends
<1>26. CASE TargetCloses
  BY <1>26 DEF TargetCloses
<1>27. CASE UNCHANGED vars
  BY <1>27 DEF vars
<1> QED BY <1>1, <1>2, <1>3, <1>4, <1>5, <1>6, <1>7, <1>8, <1>9, <1>10, <1>11, <1>12, <1>13,
           <1>14, <1>15, <1>16, <1>17, <1>18, <1>19, <1>20, <1>21, <1>22, <1>23, <1>24, <1>25,
           <1>26, <1>27 DEF Next, ServerStep, DeviceStep

\* Every step keeps the counters: no copy passes on a byte that was not sent.
LEMMA CountersStep == TunnelInv /\ [Next]_vars => CountersOK'
<1> SUFFICES ASSUME CountersOK, [Next]_vars PROVE CountersOK'
  BY DEF TunnelInv
<1> USE BoundIsNat DEF CountersOK
<1>1. CASE UserSends
  BY <1>1 DEF UserSends, uside, tside
<1>2. CASE ProxyUp
  BY <1>2 DEF ProxyUp, uside, tside
<1>3. CASE TargetSends
  BY <1>3 DEF TargetSends, uside, tside
<1>4. CASE CopyDown
  BY <1>4 DEF CopyDown, uside, tside
<1>5. CASE UNCHANGED <<usent, ucopied, tsent, tcopied>>
  BY <1>5
<1> QED BY <1>1, <1>2, <1>3, <1>4, <1>5 DEF Next, ServerStep, DeviceStep, vars, uside, tside,
         DeviceRegisters, SessionLost, Deregister, WaitSession, WaitTimeout, WriteConnect,
         ReadResult, ResultFails, SendReply, HandlerReturns, ProxyUpEnds, ProxyDown,
         ProxyDownEnds, ReadConnect, ReadConnectFails, DialTarget, StreamDone, CopyUp,
         CopyUpEnds, CopyDownEnds, UserCloses, TargetCloses

\* Every step leaves sequences of messages.
LEMMA SequencesStep == TunnelInv /\ [Next]_vars => SequencesOK'
<1> SUFFICES ASSUME SequencesOK, CountersOK, [Next]_vars PROVE SequencesOK'
  BY DEF TunnelInv
<1> USE BoundIsNat DEF SequencesOK
<1>1. CASE SessionLost
  <2>1. PICK i \in 0..Len(s2d) : s2d' = SubSeq(s2d, 1, i)
    BY <1>1 DEF SessionLost
  <2>2. PICK j \in 0..Len(d2s) : d2s' = SubSeq(d2s, 1, j)
    BY <1>1 DEF SessionLost
  <2>3. s2d' \in Seq(Messages) /\ d2s' \in Seq(Messages)
    BY <2>1, <2>2, Prefixes
  <2> QED BY <1>1, <2>3 DEF SessionLost, server, device, uside, tside
<1>2. CASE WriteConnect
  <2>1. s2d' \in Seq(Messages)
    <3>1. PICK m \in Messages : m = Line("connect")
      BY MessagesAre
    <3>2. Append(s2d, m) \in Seq(Messages)
      BY Appends, Zenon
    <3> QED BY <1>2, <3>1, <3>2 DEF WriteConnect
  <2> QED BY <1>2, <2>1 DEF WriteConnect, device, uside, tside
<1>3. CASE ReadResult
  <2>1. PICK k \in 1..Len(d2s) : d2s' = SubSeq(d2s, k + 1, Len(d2s)) /\ srvBuf' = SubSeq(d2s, 2, k)
    BY <1>3 DEF ReadResult
  <2>2. d2s' \in Seq(Messages) /\ srvBuf' \in Seq(Messages)
    BY <2>1, Splits
  <2> QED BY <1>3, <2>2 DEF ReadResult, device, uside, tside
<1>4. CASE ProxyUp
  <2>1. Byte(ucopied + 1) \in Messages
    <3>1. ucopied + 1 \in 0..MaxBytes
      BY <1>4 DEF ProxyUp, CountersOK
    <3> QED BY <3>1, MessagesAre
  <2>2. s2d' \in Seq(Messages)
    <3>1. PICK m \in Messages : m = Byte(ucopied + 1)
      BY <2>1
    <3>2. Append(s2d, m) \in Seq(Messages)
      BY Appends, Zenon
    <3> QED BY <1>4, <3>1, <3>2 DEF ProxyUp
  <2> QED BY <1>4, <2>2 DEF ProxyUp, device, tside
<1>5. CASE ProxyDown
  <2>1. d2s' \in Seq(Messages) /\ toUser' \in Seq(Messages)
    <3>1. d2s # <<>> /\ d2s' = Tail(d2s) /\ (toUser' = toUser \/ toUser' = Append(toUser, Head(d2s)))
      BY <1>5 DEF ProxyDown
    <3>2. PICK m \in Messages : m = Head(d2s)
      BY <3>1, HeadsAndTails
    <3>3. Append(toUser, m) \in Seq(Messages) /\ Tail(d2s) \in Seq(Messages)
      BY <3>1, Appends, HeadsAndTails, Zenon
    <3> QED BY <3>1, <3>2, <3>3
  <2> QED BY <1>5, <2>1 DEF ProxyDown, device, tside
<1>6. CASE ReadConnect
  <2>1. PICK k \in 1..Len(s2d) : s2d' = SubSeq(s2d, k + 1, Len(s2d)) /\ devBuf' = SubSeq(s2d, 2, k)
    BY <1>6 DEF ReadConnect
  <2>2. s2d' \in Seq(Messages) /\ devBuf' \in Seq(Messages)
    BY <2>1, Splits
  <2> QED BY <1>6, <2>2 DEF ReadConnect, server, uside, tside
<1>7. CASE DialTarget
  <2>1. d2s' \in Seq(Messages)
    <3>1. PICK m \in Messages, r \in Messages : m = Line("ok") /\ r = Line("refused")
      BY MessagesAre
    <3>2. d2s' \in {d2s, Append(d2s, m), Append(d2s, r)}
      BY <1>7, <3>1 DEF DialTarget
    <3>3. Append(d2s, m) \in Seq(Messages) /\ Append(d2s, r) \in Seq(Messages)
      BY Appends, Zenon
    <3> QED BY <3>2, <3>3
  <2> QED BY <1>7, <2>1 DEF DialTarget, server, uside
<1>8. CASE CopyUp
  <2>1. s2d' \in Seq(Messages) /\ toTarget' \in Seq(Messages)
    <3>1. s2d # <<>> /\ s2d' = Tail(s2d) /\ (toTarget' = toTarget \/ toTarget' = Append(toTarget, Head(s2d)))
      BY <1>8 DEF CopyUp
    <3>2. PICK m \in Messages : m = Head(s2d)
      BY <3>1, HeadsAndTails
    <3>3. Append(toTarget, m) \in Seq(Messages) /\ Tail(s2d) \in Seq(Messages)
      BY <3>1, Appends, HeadsAndTails, Zenon
    <3> QED BY <3>1, <3>2, <3>3
  <2> QED BY <1>8, <2>1 DEF CopyUp, server, uside
<1>9. CASE CopyDown
  <2>1. Byte(tcopied + 1) \in Messages
    <3>1. tcopied + 1 \in 0..MaxBytes
      BY <1>9 DEF CopyDown, CountersOK
    <3> QED BY <3>1, MessagesAre
  <2>2. d2s' \in Seq(Messages)
    <3>1. PICK m \in Messages : m = Byte(tcopied + 1)
      BY <2>1
    <3>2. Append(d2s, m) \in Seq(Messages)
      BY Appends, Zenon
    <3> QED BY <1>9, <3>1, <3>2 DEF CopyDown
  <2> QED BY <1>9, <2>2 DEF CopyDown, server, uside
<1>10. CASE UNCHANGED <<s2d, d2s, srvBuf, devBuf, toUser, toTarget>>
  BY <1>10
<1> QED BY <1>1, <1>2, <1>3, <1>4, <1>5, <1>6, <1>7, <1>8, <1>9, <1>10
    DEF Next, ServerStep, DeviceStep, vars, stream, server, device, uside, tside,
        DeviceRegisters, Deregister, WaitSession, WaitTimeout, ResultFails, SendReply,
        HandlerReturns, ProxyUpEnds, ProxyDownEnds, ReadConnectFails, StreamDone, CopyUpEnds,
        CopyDownEnds, UserSends, UserCloses, TargetSends, TargetCloses

\* Every step keeps the handshake.
LEMMA HandshakeStep == TunnelInv /\ [Next]_vars => Handshake'
<1> SUFFICES ASSUME StatesOK, CountersOK, SequencesOK, Handshake, [Next]_vars PROVE Handshake'
  BY DEF TunnelInv
<1>0. /\ s2d \in Seq(Messages) /\ d2s \in Seq(Messages)
      /\ Len(s2d) \in Nat /\ Len(<<>>) = 0 /\ (s2d # <<>> => Len(s2d) > 0)
  BY LenProperties, EmptySeq DEF SequencesOK
<1>1. CASE DeviceRegisters
  BY <1>1 DEF DeviceRegisters, Handshake, link, stream, server, device, uside, tside
<1>2. CASE SessionLost
  <2>1. PICK i \in 0..Len(s2d) : s2d' = SubSeq(s2d, 1, i)
    BY <1>2 DEF SessionLost
  <2>2. PICK j \in 0..Len(d2s) : d2s' = SubSeq(d2s, 1, j)
    BY <1>2 DEF SessionLost
  <2>3. Len(s2d') = i /\ (s2d = <<>> => s2d' = <<>>)
    BY <1>0, <2>1, Prefixes, SubSeqEmpty
  <2>4. d2s = <<>> => d2s' = <<>>
    BY <1>0, <2>2, SubSeqEmpty
  <2>5. /\ session' = "down"
        /\ UNCHANGED <<srv, dvc, cup, cdown, devBuf, ucopied, toTarget>>
    BY <1>2 DEF SessionLost, server, device, uside, tside
  <2> QED BY <1>0, <2>1, <2>3, <2>4, <2>5 DEF Handshake
<1>3. CASE Deregister
  BY <1>3 DEF Deregister, Handshake, link, stream, server, device, uside, tside
<1>4. CASE WaitSession
  BY <1>4 DEF WaitSession, Handshake, link, stream, server, device, uside, tside
<1>5. CASE WaitTimeout
  BY <1>5 DEF WaitTimeout, Handshake, link, stream, server, device, uside, tside
<1>6. CASE WriteConnect
  <2>1. srv = "connect" /\ s2d = <<>> /\ dvc \in {"accept", "done"} /\ session # "none"
    BY <1>6 DEF WriteConnect, Handshake, StatesOK
  <2>2. /\ srv' \in {"result", "failed"}
        /\ UNCHANGED <<session, d2s, dvc, cup, cdown, devBuf, ucopied, toTarget>>
    BY <1>6 DEF WriteConnect, Fail, link, device, uside, tside
  <2>3. Len(s2d') <= 1
    <3>1. PICK m \in Messages : m = Line("connect")
      BY MessagesAre
    <3>2. Len(Append(s2d, m)) = Len(s2d) + 1
      BY <1>0, Appends, Zenon
    <3>3. s2d' = s2d \/ s2d' = Append(s2d, m)
      BY <1>6, <3>1 DEF WriteConnect
    <3>4. Len(s2d) = 0
      BY <1>0, <2>1, Zenon
    <3>5. Len(s2d') = Len(s2d) \/ Len(s2d') = Len(s2d) + 1
      BY <3>2, <3>3, Zenon
    <3>6. CASE Len(s2d') = Len(s2d)
      BY <3>4, <3>6
    <3>7. CASE Len(s2d') = Len(s2d) + 1
      BY <3>4, <3>7
    <3> QED BY <3>5, <3>6, <3>7
  <2> QED BY <2>1, <2>2, <2>3 DEF Handshake
<1>7. CASE ReadResult
  <2>1. /\ srv = "result" /\ d2s # <<>> /\ srv' \in {"reply", "failed"}
        /\ UNCHANGED <<session, s2d, dvc, cup, cdown, devBuf, ucopied, toTarget>>
    BY <1>7 DEF ReadResult, Fail, link, device, uside, tside
  <2> QED BY <2>1 DEF Handshake
<1>8. CASE ResultFails
  BY <1>8 DEF ResultFails, Fail, Handshake, link, stream, server, device, uside, tside
<1>9. CASE SendReply
  BY <1>9 DEF SendReply, Handshake, link, stream, server, device, uside, tside
<1>10. CASE HandlerReturns
  BY <1>10 DEF HandlerReturns, Handshake, link, stream, server, device, uside, tside
<1>11. CASE ProxyUp
  <2>1. /\ srv = "relay" /\ dvc \notin {"accept", "dial"} /\ session # "none"
        /\ UNCHANGED <<session, srv, d2s, dvc, cup, cdown, devBuf, toTarget>>
    BY <1>11 DEF ProxyUp, Handshake, link, device, tside
  <2> QED BY <2>1 DEF Handshake
<1>12. CASE ProxyUpEnds
  BY <1>12 DEF ProxyUpEnds, Handshake, link, stream, server, device, uside, tside
<1>13. CASE ProxyDown
  <2>1. /\ srv = "relay"
        /\ UNCHANGED <<session, srv, s2d, dvc, cup, cdown, devBuf, ucopied, toTarget>>
    BY <1>13 DEF ProxyDown, link, device, tside
  <2> QED BY <2>1 DEF Handshake
<1>14. CASE ProxyDownEnds
  BY <1>14 DEF ProxyDownEnds, Handshake, link, stream, server, device, uside, tside
<1>15. CASE ReadConnect
  <2>1. PICK k \in 1..Len(s2d) : s2d' = SubSeq(s2d, k + 1, Len(s2d)) /\ devBuf' = SubSeq(s2d, 2, k)
    BY <1>15 DEF ReadConnect
  <2>2. Len(s2d) = 1
    <3>1. dvc = "accept" /\ s2d # <<>>
      BY <1>15 DEF ReadConnect
    <3>2. Len(s2d) <= 1
      BY <3>1 DEF Handshake
    <3>3. Len(s2d) \in Nat /\ Len(s2d) > 0
      BY <1>0, <3>1, Zenon
    <3> QED BY <3>2, <3>3
  <2>3. s2d' = <<>> /\ devBuf' = <<>>
    BY <1>0, <2>1, <2>2, Splits
  <2>4. /\ dvc = "accept" /\ dvc' = "dial" /\ s2d # <<>>
        /\ UNCHANGED <<session, srv, d2s, cup, cdown, ucopied, toTarget>>
    BY <1>15 DEF ReadConnect, link, server, uside, tside
  <2> QED BY <2>3, <2>4 DEF Handshake
<1>16. CASE ReadConnectFails
  BY <1>16 DEF ReadConnectFails, Handshake, link, stream, server, device, uside, tside
<1>17. CASE DialTarget
  <2>1. /\ dvc = "dial" /\ dvc' \in {"relay", "done"}
        /\ UNCHANGED <<session, srv, s2d, devBuf, ucopied, toTarget>>
        /\ cup' = "run" => cup = "run" \/ dvc' = "relay"
    BY <1>17 DEF DialTarget, link, server, uside
  <2> QED BY <2>1 DEF Handshake
<1>18. CASE StreamDone
  BY <1>18 DEF StreamDone, Handshake, link, stream, server, device, uside, tside
<1>19. CASE CopyUp
  <2>1. /\ cup = "run" /\ cup' \in {"run", "err"}
        /\ UNCHANGED <<session, srv, d2s, dvc, cdown, devBuf, ucopied>>
    BY <1>19 DEF CopyUp, link, server, uside
  <2> QED BY <2>1 DEF Handshake
<1>20. CASE CopyUpEnds
  BY <1>20 DEF CopyUpEnds, Handshake, link, stream, server, device, uside, tside
<1>21. CASE CopyDown
  <2>1. /\ cdown = "run"
        /\ UNCHANGED <<session, srv, s2d, dvc, cup, devBuf, ucopied, toTarget>>
    BY <1>21 DEF CopyDown, link, server, uside
  <2> QED BY <2>1 DEF Handshake
<1>22. CASE CopyDownEnds
  BY <1>22 DEF CopyDownEnds, Handshake, link, stream, server, device, uside, tside
<1>23. CASE UserSends
  BY <1>23 DEF UserSends, Handshake, link, stream, server, device, uside, tside
<1>24. CASE UserCloses
  BY <1>24 DEF UserCloses, Handshake, link, stream, server, device, uside, tside
<1>25. CASE TargetSends
  BY <1>25 DEF TargetSends, Handshake, link, stream, server, device, uside, tside
<1>26. CASE TargetCloses
  BY <1>26 DEF TargetCloses, Handshake, link, stream, server, device, uside, tside
<1>27. CASE UNCHANGED vars
  BY <1>27 DEF vars, Handshake, link, stream, server, device, uside, tside
<1> QED BY <1>1, <1>2, <1>3, <1>4, <1>5, <1>6, <1>7, <1>8, <1>9, <1>10, <1>11, <1>12,
           <1>13, <1>14, <1>15, <1>16, <1>17, <1>18, <1>19, <1>20, <1>21, <1>22, <1>23,
           <1>24, <1>25, <1>26, <1>27
       DEF Next, ServerStep, DeviceStep

\* Every step keeps the user's bytes in order.
LEMMA BytesStep == TunnelInv /\ [Next]_vars => BytesInOrder'
<1> SUFFICES ASSUME TunnelInv, [Next]_vars PROVE BytesInOrder'
  OBVIOUS
<1> USE BoundIsNat
<1>0. /\ s2d \in Seq(Messages) /\ toTarget \in Seq(Messages)
      /\ Len(s2d) \in Nat /\ Len(toTarget) \in Nat /\ Len(<<>>) = 0
      /\ ucopied \in Nat
  BY LenProperties, EmptySeq DEF TunnelInv, SequencesOK, CountersOK
<1>h. Handshake /\ BytesInOrder
  BY DEF TunnelInv
<1>1. CASE SessionLost
  <2>1. PICK i \in 0..Len(s2d) : s2d' = SubSeq(s2d, 1, i)
    BY <1>1 DEF SessionLost
  <2>2. session' = "down" /\ UNCHANGED <<cup, ucopied, toTarget>>
    BY <1>1 DEF SessionLost, device, uside, tside
  <2>3. Len(s2d') = i /\ \A j \in 1..i : s2d'[j] = s2d[j]
    BY <1>0, <2>1, Prefixes
  <2> QED BY <1>0, <1>h, <2>1, <2>2, <2>3 DEF BytesInOrder
<1>2. CASE WriteConnect \/ ReadConnect \/ DeviceRegisters
  <2>1. cup # "run"
    BY <1>2, <1>h DEF WriteConnect, ReadConnect, DeviceRegisters, Handshake
  <2>2. UNCHANGED <<cup, ucopied, toTarget>>
    BY <1>2 DEF WriteConnect, ReadConnect, DeviceRegisters, device, uside, tside
  <2> QED BY <1>h, <2>1, <2>2 DEF BytesInOrder
<1>3. CASE DialTarget
  <2>1. dvc = "dial" /\ UNCHANGED <<s2d, ucopied, toTarget>>
    BY <1>3 DEF DialTarget, uside
  <2>2. s2d = <<>> /\ toTarget = <<>> /\ ucopied = 0
    BY <1>h, <2>1 DEF Handshake
  <2> QED BY <1>0, <2>1, <2>2 DEF BytesInOrder
<1>4. CASE CopyUp
  <2>1. /\ cup = "run" /\ s2d # <<>> /\ s2d' = Tail(s2d) /\ UNCHANGED <<session, ucopied>>
        /\ \/ toTarget' = Append(toTarget, Head(s2d)) /\ cup' = cup
           \/ toTarget' = toTarget /\ cup' = "err"
    BY <1>4 DEF CopyUp, link, uside
  <2>2. /\ Head(s2d) \in Messages /\ Head(s2d) = s2d[1] /\ Len(s2d) > 0
        /\ Len(s2d') = Len(s2d) - 1 /\ \A j \in 1..(Len(s2d) - 1) : s2d'[j] = s2d[j + 1]
    BY <1>0, <2>1, HeadsAndTails
  <2>3. CASE toTarget' = toTarget /\ cup' = "err"
    BY <1>h, <2>1, <2>3 DEF BytesInOrder
  <2>4. CASE toTarget' = Append(toTarget, Head(s2d)) /\ cup' = cup
    <3>1. PICK m \in Messages : m = Head(s2d)
      BY <2>2
    <3>2. /\ Len(Append(toTarget, m)) = Len(toTarget) + 1
          /\ Append(toTarget, m)[Len(toTarget) + 1] = m
          /\ \A j \in 1..Len(toTarget) : Append(toTarget, m)[j] = toTarget[j]
      BY <1>0, Appends, Zenon
    <3>3. /\ Len(toTarget') = Len(toTarget) + 1 /\ toTarget'[Len(toTarget) + 1] = m
          /\ \A j \in 1..Len(toTarget) : toTarget'[j] = toTarget[j]
      BY <2>4, <3>1, <3>2, Zenon
    <3>4. m = Byte(Len(toTarget) + 1)
      BY <1>0, <1>h, <2>1, <2>2, <3>1 DEF BytesInOrder
    <3>5. \A j \in 1..Len(toTarget') : toTarget'[j] = Byte(j)
      BY <1>0, <1>h, <3>3, <3>4 DEF BytesInOrder
    <3>6. /\ Len(toTarget') + Len(s2d') = Len(toTarget) + Len(s2d)
          /\ Len(toTarget') <= Len(toTarget) + Len(s2d)
      BY <1>0, <2>2, <3>3
    <3>7. \A j \in 1..Len(s2d') : s2d'[j] = Byte(Len(toTarget') + j)
      <4> SUFFICES ASSUME NEW j \in 1..Len(s2d') PROVE s2d'[j] = Byte(Len(toTarget') + j)
        OBVIOUS
      <4>1. j + 1 \in 1..Len(s2d) /\ j \in 1..(Len(s2d) - 1)
        BY <1>0, <2>2
      <4>2. s2d'[j] = Byte(Len(toTarget) + (j + 1))
        BY <1>h, <2>1, <2>2, <4>1 DEF BytesInOrder
      <4>3. Len(toTarget) + (j + 1) = Len(toTarget') + j
        BY <1>0, <3>3, <4>1
      <4> QED BY <4>2, <4>3
    <3>8. /\ Len(toTarget) + Len(s2d) <= ucopied
          /\ session = "up" => Len(toTarget) + Len(s2d) = ucopied
      BY <1>h, <2>1 DEF BytesInOrder
    <3>9. Len(toTarget') <= ucopied'
      BY <1>0, <2>1, <2>2, <3>3, <3>8
    <3> QED BY <2>1, <3>5, <3>6, <3>7, <3>8, <3>9 DEF BytesInOrder
  <2> QED BY <2>1, <2>3, <2>4
<1>5. CASE ProxyUp
  <2>1. /\ ucopied' = ucopied + 1 /\ ucopied + 1 \in 0..MaxBytes
        /\ UNCHANGED <<session, cup, toTarget>>
        /\ \/ session = "up" /\ s2d' = Append(s2d, Byte(ucopied + 1))
           \/ session = "down" /\ s2d' = s2d
    BY <1>5 DEF ProxyUp, TunnelInv, CountersOK, link, device, tside
  <2>2. CASE session = "down" /\ s2d' = s2d
    BY <1>0, <1>h, <2>1, <2>2 DEF BytesInOrder
  <2>3. CASE session = "up" /\ s2d' = Append(s2d, Byte(ucopied + 1))
    <3>1. PICK m \in Messages : m = Byte(ucopied + 1)
      BY <2>1, MessagesAre
    <3>2. /\ Len(Append(s2d, m)) = Len(s2d) + 1 /\ Append(s2d, m)[Len(s2d) + 1] = m
          /\ \A j \in 1..Len(s2d) : Append(s2d, m)[j] = s2d[j]
      BY <1>0, Appends, Zenon
    <3>3. /\ Len(s2d') = Len(s2d) + 1 /\ s2d'[Len(s2d) + 1] = m
          /\ \A j \in 1..Len(s2d) : s2d'[j] = s2d[j]
      BY <2>3, <3>1, <3>2, Zenon
    <3>4. CASE cup # "run"
      <4>1. cup' # "run" /\ Len(toTarget) <= ucopied
        BY <1>h, <2>1, <3>4 DEF BytesInOrder
      <4>2. Len(toTarget') <= ucopied'
        BY <1>0, <2>1, <4>1
      <4>3. \A j \in 1..Len(toTarget') : toTarget'[j] = Byte(j)
        BY <1>h, <2>1 DEF BytesInOrder
      <4> QED BY <4>1, <4>2, <4>3 DEF BytesInOrder
    <3>5. CASE cup = "run"
      <4>1. Len(toTarget) + Len(s2d) = ucopied /\ Len(toTarget) <= ucopied
        BY <1>h, <2>3, <3>5 DEF BytesInOrder
      <4>2. /\ Len(toTarget') + Len(s2d') = ucopied'
            /\ Len(toTarget') + Len(s2d') <= ucopied' /\ Len(toTarget') <= ucopied'
        BY <1>0, <2>1, <3>3, <4>1
      <4>3. \A j \in 1..Len(toTarget') : toTarget'[j] = Byte(j)
        BY <1>h, <2>1 DEF BytesInOrder
      <4>4. \A j \in 1..Len(s2d') : s2d'[j] = Byte(Len(toTarget') + j)
        <5> SUFFICES ASSUME NEW j \in 1..Len(s2d') PROVE s2d'[j] = Byte(Len(toTarget') + j)
          OBVIOUS
        <5>1. toTarget' = toTarget
          BY <2>1
        <5>2. CASE j = Len(s2d) + 1
          <6>1. Len(toTarget) + j = ucopied + 1
            BY <1>0, <4>1, <5>2
          <6> QED BY <3>1, <3>3, <5>1, <5>2, <6>1
        <5>3. CASE j # Len(s2d) + 1
          <6>1. j \in 1..Len(s2d)
            BY <1>0, <3>3, <5>3
          <6> QED BY <1>h, <3>3, <3>5, <5>1, <6>1 DEF BytesInOrder
        <5> QED BY <5>2, <5>3
      <4> QED BY <4>2, <4>3, <4>4 DEF BytesInOrder
    <3> QED BY <3>4, <3>5
  <2> QED BY <2>1, <2>2, <2>3
<1>6. CASE CopyUpEnds
  <2>1. cup' = "ok" /\ UNCHANGED <<ucopied, toTarget>>
    BY <1>6 DEF CopyUpEnds, uside
  <2> QED BY <1>h, <2>1 DEF BytesInOrder
<1>7. CASE UNCHANGED <<session, s2d, cup, ucopied, toTarget>>
  BY <1>7, <1>h DEF BytesInOrder
<1>8. \/ SessionLost \/ WriteConnect \/ ReadConnect \/ DeviceRegisters \/ DialTarget
      \/ CopyUp \/ ProxyUp \/ CopyUpEnds
      \/ UNCHANGED <<session, s2d, cup, ucopied, toTarget>>
  BY DEF Next, ServerStep, DeviceStep, vars, link, stream, server, device, uside, tside,
         Deregister, WaitSession, WaitTimeout, ReadResult, ResultFails, SendReply,
         HandlerReturns, ProxyUpEnds, ProxyDown, ProxyDownEnds, ReadConnectFails, StreamDone,
         CopyDown, CopyDownEnds, UserSends, UserCloses, TargetSends, TargetCloses
<1> QED BY <1>1, <1>2, <1>3, <1>4, <1>5, <1>6, <1>7, <1>8

\* Every step keeps the invariant.
LEMMA TunnelStep == TunnelInv /\ [Next]_vars => TunnelInv'
BY FlagsStep, StatesStep, CountersStep, SequencesStep, HandshakeStep, BytesStep DEF TunnelInv

-----------------------------------------------------------------------------
(* Theorems *)

\* The invariant holds in every reachable state.
THEOREM TunnelInvHolds == Spec => []TunnelInv
BY TunnelInit, TunnelStep, PTL DEF Spec

\* The types hold: no copy passes on a byte that was not sent (handle.go, run.go).
THEOREM TunnelTypeCorrect == Spec => []TypeOK
<1>1. TunnelInv => TypeOK
  <2> SUFFICES ASSUME TunnelInv PROVE TypeOK
    OBVIOUS
  <2>1. \A s \in {s2d, d2s, srvBuf, devBuf, toUser, toTarget} : s \in Seq(Messages)
    BY DEF TunnelInv, SequencesOK
  <2> QED BY <2>1, Zenon DEF TunnelInv, FlagsOK, StatesOK, CountersOK, TypeOK
<1> QED BY <1>1, TunnelInvHolds, PTL

\* Nothing the user sends is lost, reordered or mixed with a protocol line on
\* the way to the target, although handleConnectStream drops its bufio.Reader:
\* the server relays only after the connect_result.
THEOREM UserBytesAlwaysInOrder == Spec => []UserBytesArriveInOrder
<1>1. TunnelInv => UserBytesArriveInOrder
  <2> SUFFICES ASSUME TunnelInv PROVE UserBytesArriveInOrder
    OBVIOUS
  <2>1. devBuf = <<>>
    BY DEF TunnelInv, Handshake
  <2>2. /\ toTarget \in [1..Len(toTarget) -> Messages] /\ Len(toTarget) \in Nat
    BY LenProperties DEF TunnelInv, SequencesOK
  <2>3. toTarget = [j \in 1..Len(toTarget) |-> Byte(j)]
    BY <2>2 DEF TunnelInv, BytesInOrder
  <2>4. Len(toTarget) \in 0..usent
    BY <2>2, BoundIsNat DEF TunnelInv, BytesInOrder, CountersOK
  <2>5. toTarget = FirstBytes(Len(toTarget))
    BY <2>3, Zenon DEF FirstBytes
  <2> QED BY <2>1, <2>4, <2>5, Zenon DEF UserBytesArriveInOrder
<1> QED BY <1>1, TunnelInvHolds, PTL
=============================================================================

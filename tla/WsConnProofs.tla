---------------------------- MODULE WsConnProofs ----------------------------
(***************************************************************************)
(* Theorems about WsConn, for every queue size, buffer limit, timeout and  *)
(* bound: type correctness; that a dropped process() loses fragments and   *)
(* nothing else of what the peer sent; that on_open waits for the          *)
(* handshake; that a drained connection has said Close; that there is a    *)
(* Pong for every Ping, one head, and at most one Close; that the          *)
(* application's messages go out in order; and that the connection         *)
(* implements Handler.                                                     *)
(***************************************************************************)
EXTENDS WsConn, SeqLemmas, FiniteSetTheorems, TLAPS

States == {"Wait", "WaitRet", "Open", "Closing", "Closed"}

-----------------------------------------------------------------------------
(* Type correctness.                                                       *)

\* What the ends of a turn do to the variables they set.
LEMMA LoopTopTypes ==
  ASSUME NEW s \in States, NEW w \in Seq(Frames), LoopTop(s, w)
  PROVE  /\ pc' \in {"open", "select"}
         /\ state' \in States
         /\ timer' \in Nat /\ deadline' \in Nat
         /\ armed' \in BOOLEAN
         /\ vec' \in Seq(Items)
         /\ write' \in Seq(Frames)
PROOF
<1>1. vec' \in Seq(Items)
  BY EmptySeq DEF LoopTop
<1>2. armed' \in BOOLEAN
  BY DEF LoopTop
<1> QED
  BY <1>1, <1>2 DEF LoopTop

LEMMA ExitTypes ==
  ASSUME TypeOK, NEW e \in Ends, Leave(e) \/ Fails(e)
  PROVE  /\ pc' \in {"failed", "done"}
         /\ end' \in Ends
         /\ timer' \in Nat /\ deadline' \in Nat
         /\ armed' \in BOOLEAN
         /\ write' \in Seq(Frames)
BY DEF TypeOK, Leave, Fails

\* The parts of TypeOK that process() may change while it decodes.
DecodeTypes ==
  /\ pc \in {"accept", "open", "select", "failed", "done"}
  /\ state \in States
  /\ timer \in Nat /\ deadline \in Nat
  /\ armed \in BOOLEAN
  /\ vec \in Seq(Items)
  /\ write \in Seq(Frames)
  /\ consumed \in Seq(Items)
  /\ onClose \in Seq({"peer", "Error"})
  /\ end \in Ends

LEMMA MessageTypes ==
  ASSUME TypeOK, NEW v \in Seq(Items), HandleMessage(v)
  PROVE  DecodeTypes'
PROOF
<1> USE DEF States
<1>1. consumed \o v \in Seq(Items) /\ <<>> \in Seq(Items)
  BY EmptySeq, ConcatProperties DEF TypeOK
<1>2. Answer(v) \in Seq(Frames)
  <2>1. "Pong" \in Frames
    BY DEF Frames
  <2>2. <<"Pong">> \in Seq(Frames) /\ <<>> \in Seq(Frames)
    BY <2>1, EmptySeq
  <2> QED
    BY <2>2 DEF Answer
<1>3. write \o Answer(v) \in Seq(Frames)
  BY <1>2, ConcatProperties DEF TypeOK
<1>4. Append(onClose, "peer") \in Seq({"peer", "Error"})
  BY AppendProperties DEF TypeOK
<1>5. CASE Callback(v)
  <2>1. CASE LoopTop(state, write \o Answer(v)) /\ UNCHANGED end
    BY <1>1, <1>3, <1>5, <2>1, LoopTopTypes DEF Callback, DecodeTypes, TypeOK
  <2>2. CASE Fails("error") /\ vec' = <<>> /\ UNCHANGED state
    BY <1>1, <1>5, <2>2, ExitTypes DEF Callback, DecodeTypes, TypeOK, Ends
  <2> QED
    BY <1>5, <2>1, <2>2 DEF Callback
<1>6. CASE OnClose(v)
  BY <1>1, <1>4, <1>6, ExitTypes DEF OnClose, DecodeTypes, TypeOK, Ends
<1>7. CASE NoMessage(v)
  BY <1>7 DEF NoMessage, DecodeTypes, TypeOK, Ends
<1> QED
  BY <1>5, <1>6, <1>7 DEF HandleMessage

LEMMA DecodeFramesTypes ==
  ASSUME TypeOK, NEW b \in Seq(Items), DecodeFrames(b)
  PROVE  DecodeTypes' /\ read' \in Seq(Items)
PROOF
<1>1. CASE ReadOn(b)
  BY <1>1, EmptySeq, ConcatProperties DEF ReadOn, DecodeTypes, TypeOK, States, endVars
<1>2. ASSUME NEW n \in 1 .. Len(b), read' = Behind(b, n),
             HandleMessage(vec \o SubSeq(b, 1, n))
      PROVE  DecodeTypes' /\ read' \in Seq(Items)
  <2>1. SubSeq(b, 1, n) \in Seq(Items) /\ SubSeq(b, n + 1, Len(b)) \in Seq(Items)
    BY ReadSplits
  <2>2. vec \o SubSeq(b, 1, n) \in Seq(Items)
    BY <2>1, ConcatProperties DEF TypeOK
  <2> QED
    BY <1>2, <2>1, <2>2, MessageTypes DEF Behind
<1> QED
  BY <1>1, <1>2 DEF DecodeFrames

LEMMA ReadHeadTypes ==
  ASSUME TypeOK, NEW b \in Seq(Items), b # <<>>, Response(b) \/ Request(b),
         UNCHANGED onClose
  PROVE  DecodeTypes' /\ read' \in Seq(Items)
PROOF
<1> USE DEF States
<1>1. Tail(b) \in Seq(Items)
  BY HeadTailProperties
<1>2. "Head" \in Items
  BY DEF Items, Heads
<1>3. <<"Head">> \in Seq(Items)
  BY <1>2
<1>4. \A f \in Frames : Append(write, f) \in Seq(Frames)
  BY AppendProperties DEF TypeOK
<1>5. Append(write, "Head") \in Seq(Frames)
  BY <1>4 DEF Frames
<1>6. write \o <<"Refusal", "Close">> \in Seq(Frames)
  <2>1. "Refusal" \in Frames /\ "Close" \in Frames
    BY DEF Frames
  <2>2. <<"Refusal", "Close">> \in Seq(Frames)
    BY <2>1
  <2> QED
    BY <2>2, ConcatProperties DEF TypeOK
<1>7. CASE Response(b)
  BY <1>1, <1>3, <1>7, LoopTopTypes, ExitTypes DEF Response, DecodeTypes, TypeOK, Ends
<1>8. CASE Request(b)
  BY <1>1, <1>3, <1>5, <1>6, <1>8, LoopTopTypes, ExitTypes
     DEF Request, DecodeTypes, TypeOK, Ends
<1> QED
  BY <1>7, <1>8

\* Whatever the peer, the application, the timers and the socket do, the
\* variables of the connection hold what the code can put there.
THEOREM TypeCorrect == Spec => []TypeOK
PROOF
<1> USE DEF States
<1>1. Init => TypeOK
  <2>1. /\ <<>> \in Seq(Commands)
        /\ <<>> \in Seq(Frames)
        /\ <<>> \in Seq(Items)
        /\ <<>> \in Seq({"peer", "Error"})
    BY EmptySeq
  <2>2. 0 \in Nat /\ "none" \in Ends
    BY DEF Ends
  <2> QED
    BY <2>1, <2>2, Zenon DEF Init, TypeOK
<1>2. TypeOK /\ [Next]_vars => TypeOK'
  <2> SUFFICES ASSUME TypeOK, [Next]_vars
               PROVE  TypeOK'
    OBVIOUS
  <2> USE DEF taskVars, turnVars, appVars, outVars, peerVars, inVars, endVars
  <2>1. CASE PeerSend
    <3>1. \E m \in Items : peerSent' = Append(peerSent, m) /\ wireIn' = Append(wireIn, m)
      BY <2>1 DEF PeerSend, Items, Heads
    <3> QED
      BY <2>1, <3>1, AppendProperties DEF TypeOK, PeerSend
  <2>2. CASE PeerShutdown
    BY <2>2 DEF TypeOK, PeerShutdown
  <2>3. CASE AppSend
    BY <2>3, AppendProperties DEF TypeOK, AppSend
  <2>4. CASE AppDrop
    BY <2>4 DEF TypeOK, AppDrop
  <2>5. CASE TryAccept
    BY <2>5, LoopTopTypes DEF TypeOK, TryAccept
  <2>6. CASE AcceptFails
    BY <2>6, ExitTypes DEF TypeOK, AcceptFails, Ends
  <2>7. CASE OnOpen
    <3>1. (Len(write) < OutBufferMax) \in BOOLEAN
      OBVIOUS
    <3>2. CASE ready' = TRUE /\ pc' = "select" /\ armed' = (Len(write) < OutBufferMax)
               /\ UNCHANGED <<timer, deadline, vec, write, end>>
      <4>1. armed' \in BOOLEAN /\ ready' \in BOOLEAN
        BY <3>1, <3>2, Zenon
      <4> QED
        BY <2>7, <3>2, <4>1 DEF TypeOK, OnOpen
    <3>3. CASE Fails("error") /\ UNCHANGED <<ready, vec>>
      BY <2>7, <3>3, ExitTypes DEF TypeOK, OnOpen, Ends
    <3> QED
      BY <2>7, <3>2, <3>3 DEF OnOpen
  <2>8. CASE BuildRequest
    <3>1. Append(write, "Head") \in Seq(Frames)
      BY AppendProperties DEF TypeOK, Frames
    <3> QED
      BY <2>8, <3>1 DEF TypeOK, BuildRequest
  <2>9. CASE ShakeTimesOut
    BY <2>9, ExitTypes DEF TypeOK, ShakeTimesOut, Ends
  <2>10. CASE Decode
    BY <2>10, DecodeFramesTypes DEF TypeOK, Decode, DecodeTypes
  <2>11. CASE ReadTimesOut
    BY <2>11, ExitTypes DEF TypeOK, ReadTimesOut, Ends
  <2>12. CASE ReadEof
    BY <2>12, ExitTypes DEF TypeOK, ReadEof, Ends
  <2>13. CASE SocketError
    BY <2>13, ExitTypes DEF TypeOK, SocketError, Ends
  <2>14. CASE CloseAnyway
    BY <2>14, ExitTypes DEF TypeOK, CloseAnyway, Ends
  <2>15. CASE Recv
    <3>1. queue' \in Seq(Commands) /\ Head(queue) \in Commands
      BY <2>15, HeadTailProperties DEF TypeOK, Recv
    <3>2. Framed(Head(queue)) \in Seq(Frames)
      <4>1. \A f \in Frames : <<f>> \in Seq(Frames)
        OBVIOUS
      <4> QED
        BY <3>1, <4>1, EmptySeq DEF Framed, Commands, Frames
    <3>3. write \o Framed(Head(queue)) \in Seq(Frames)
      BY <3>2, ConcatProperties DEF TypeOK
    <3>4. torn' \in BOOLEAN
      BY <2>15 DEF Recv, TypeOK
    <3> QED
      BY <2>15, <3>1, <3>3, <3>4, LoopTopTypes DEF TypeOK, Recv
  <2>16. CASE RecvNone
    BY <2>16, ExitTypes DEF TypeOK, RecvNone, Ends
  <2>17. CASE OnLogic
    <3>1. torn' \in BOOLEAN
      BY <2>17 DEF OnLogic, TypeOK
    <3> QED
      BY <2>17, <3>1, LoopTopTypes, ExitTypes DEF TypeOK, OnLogic, Ends
  <2>18. CASE ReportError
    BY <2>18, AppendProperties DEF TypeOK, ReportError
  <2>19. CASE Tick
    BY <2>19 DEF TypeOK, Tick
  <2>20. ASSUME NEW k \in 1 .. Len(wireIn), ReadHead(k)
         PROVE  TypeOK'
    <3>1. /\ SubSeq(wireIn, 1, k) \in Seq(Items)
          /\ SubSeq(wireIn, 1, k) # <<>>
          /\ wireIn' \in Seq(Items)
      BY <2>20, ReadSplits DEF TypeOK, ReadHead
    <3> QED
      BY <2>20, <3>1, ReadHeadTypes DEF TypeOK, ReadHead, DecodeTypes
  <2>21. ASSUME NEW k \in 1 .. Len(wireIn), Read(k)
         PROVE  TypeOK'
    <3>1. SubSeq(wireIn, 1, k) \in Seq(Items) /\ wireIn' \in Seq(Items)
      BY <2>21, ReadSplits DEF TypeOK, Read
    <3> QED
      BY <2>21, <3>1, DecodeFramesTypes DEF TypeOK, Read, DecodeTypes
  <2>22. ASSUME NEW k \in 1 .. Len(write), WriteSome(k) \/ DrainWrite(k)
         PROVE  TypeOK'
    <3>1. /\ wireOut \o SubSeq(write, 1, k) \in Seq(Frames)
          /\ SubSeq(write, k + 1, Len(write)) \in Seq(Frames)
      BY ReadSplits, ConcatProperties DEF TypeOK
    <3>2. CASE WriteSome(k)
      BY <3>1, <3>2 DEF TypeOK, WriteSome, Unwritten
    <3>3. CASE DrainWrite(k)
      BY <3>1, <3>3 DEF TypeOK, DrainWrite, Unwritten, Ends
    <3> QED
      BY <2>22, <3>2, <3>3
  <2>23. CASE UNCHANGED vars
    BY <2>23 DEF TypeOK, vars
  <2> QED
    BY <2>1, <2>2, <2>3, <2>4, <2>5, <2>6, <2>7, <2>8, <2>9, <2>10, <2>11, <2>12, <2>13, <2>14, <2>15, <2>16, <2>17, <2>18, <2>19, <2>20, <2>21, <2>22, <2>23
       DEF Next, Peer, App, Outside, Task, Finished
<1> QED
  BY <1>1, <1>2, PTL DEF Spec

-----------------------------------------------------------------------------
(* What a dropped process() loses.                                         *)

LEMMA ItemsAssociative ==
  \A s, t, u \in Seq(Items) : (s \o t) \o u = s \o (t \o u)
PROOF
<1> TAKE s, t, u \in Seq(Items)
<1> QED
  BY ConcatAssociative

LEMMA FramesAssociative ==
  \A s, t, u \in Seq(Frames) : (s \o t) \o u = s \o (t \o u)
PROOF
<1> TAKE s, t, u \in Seq(Frames)
<1> QED
  BY ConcatAssociative

\* Nothing is read of the peer's frames before its head is handled: there is
\* no fragment yet that the end of a turn could lose.
ShakeClean ==
  /\ pc = "accept" => state = "Wait"
  /\ (state \in {"Wait", "WaitRet"} /\ pc \in {"accept", "open", "select"})
       => vec = <<>> /\ read = <<>> /\ consumed = <<>>

InboundInv == ShakeClean /\ InboundExact

\* A message is handed over, or left in vec, whole.
LEMMA MessageMoves ==
  ASSUME TypeOK, NEW v \in Seq(Items), HandleMessage(v)
  PROVE  consumed' \o vec' = consumed \o v
PROOF
<1>1. CASE Callback(v) \/ OnClose(v)
  <2>1. consumed' = consumed \o v /\ vec' = <<>>
    BY <1>1 DEF Callback, OnClose, LoopTop
  <2>2. consumed \o v \in Seq(Items)
    BY ConcatProperties DEF TypeOK
  <2> QED
    BY <2>1, <2>2, ConcatEmptySeq
<1>2. CASE NoMessage(v)
  BY <1>2 DEF NoMessage
<1> QED
  BY <1>1, <1>2 DEF HandleMessage

\* Decoding moves frames from the front of the buffer to vec, and from there
\* to the callbacks.
LEMMA DecodeMoves ==
  ASSUME TypeOK, NEW b \in Seq(Items), DecodeFrames(b)
  PROVE  (consumed' \o vec') \o read' = (consumed \o vec) \o b
PROOF
<1>0. /\ consumed \in Seq(Items) /\ vec \in Seq(Items)
      /\ consumed \o vec \in Seq(Items)
      /\ vec \o b \in Seq(Items)
  BY ConcatProperties DEF TypeOK
<1>1. CASE ReadOn(b)
  <2>1. consumed' = consumed /\ vec' = vec \o b /\ read' = <<>>
    BY <1>1 DEF ReadOn
  <2>2. consumed \o (vec \o b) = (consumed \o vec) \o b
    BY <1>0, ItemsAssociative
  <2>3. consumed \o (vec \o b) \in Seq(Items)
    BY <1>0, ConcatProperties
  <2> QED
    BY <2>1, <2>2, <2>3, ConcatEmptySeq
<1>2. ASSUME NEW n \in 1 .. Len(b), read' = Behind(b, n),
             HandleMessage(vec \o SubSeq(b, 1, n))
      PROVE  (consumed' \o vec') \o read' = (consumed \o vec) \o b
  <2> DEFINE f == SubSeq(b, 1, n)
             r == SubSeq(b, n + 1, Len(b))
  <2>1. f \in Seq(Items) /\ r \in Seq(Items) /\ f \o r = b
    BY ReadSplits
  <2> HIDE DEF f, r
  <2>2. vec \o f \in Seq(Items)
    BY <1>0, <2>1, ConcatProperties
  <2>3. consumed' \o vec' = consumed \o (vec \o f)
    BY <1>2, <2>2, MessageMoves DEF f
  <2>4. consumed \o (vec \o f) = (consumed \o vec) \o f
    <3>1. \A t, u \in Seq(Items) : (consumed \o t) \o u = consumed \o (t \o u)
      BY <1>0, ItemsAssociative
    <3> QED
      BY <1>0, <2>1, <3>1
  <2>5. ((consumed \o vec) \o f) \o r = (consumed \o vec) \o (f \o r)
    <3> DEFINE got == consumed \o vec
    <3>1. \A t, u \in Seq(Items) : (got \o t) \o u = got \o (t \o u)
      BY <1>0, ItemsAssociative
    <3> QED
      BY <2>1, <3>1
  <2>6. read' = r
    BY <1>2 DEF Behind, r
  <2> QED
    BY <2>1, <2>3, <2>4, <2>5, <2>6
<1> QED
  BY <1>1, <1>2 DEF DecodeFrames

LEMMA ShakeCleanStep ==
  ASSUME ShakeClean, [Next]_vars
  PROVE  ShakeClean'
PROOF
<1> USE DEF ShakeClean, taskVars, turnVars, appVars, outVars, peerVars, inVars, endVars
<1>1. CASE PeerSend \/ PeerShutdown \/ AppSend \/ AppDrop \/ Tick \/ UNCHANGED vars
  BY <1>1 DEF PeerSend, PeerShutdown, AppSend, AppDrop, Tick, vars
<1>2. CASE TryAccept \/ AcceptFails \/ OnOpen \/ BuildRequest
  BY <1>2 DEF TryAccept, AcceptFails, OnOpen, BuildRequest, LoopTop, Leave, Fails
<1>3. CASE ShakeTimesOut \/ ReadTimesOut \/ ReadEof \/ SocketError \/ CloseAnyway
  BY <1>3 DEF ShakeTimesOut, ReadTimesOut, ReadEof, SocketError, CloseAnyway, Leave, Fails
<1>4. CASE Recv \/ RecvNone \/ OnLogic \/ ReportError
  BY <1>4 DEF Recv, RecvNone, OnLogic, ReportError, LoopTop, Leave, Fails
<1>5. ASSUME NEW k \in 1 .. Len(wireIn), ReadHead(k)
      PROVE  ShakeClean'
  BY <1>5 DEF ReadHead, Shaking, Response, Request, LoopTop, Fails
<1>6. ASSUME NEW b, DecodeFrames(b), Opened
      PROVE  ShakeClean'
  BY <1>6 DEF DecodeFrames, Opened, ReadOn, HandleMessage, Callback, OnClose,
              NoMessage, LoopTop, Leave, Fails
<1>7. ASSUME NEW k \in 1 .. Len(write), WriteSome(k) \/ DrainWrite(k)
      PROVE  ShakeClean'
  BY <1>7 DEF WriteSome, DrainWrite, Closing
<1> QED
  BY <1>1, <1>2, <1>3, <1>4, <1>5, <1>6, <1>7
     DEF Next, Peer, App, Outside, Task, Finished, Decode, Read

\* Where everything is that the peer sent.
Inbound == ((consumed \o vec) \o read) \o wireIn

Kept == UNCHANGED peerSent /\ Inbound' = Inbound

Arrives(m) ==
  /\ peerSent' = peerSent \o <<m>>
  /\ Inbound' = Inbound \o <<m>>

Lost ==
  /\ UNCHANGED <<peerSent, consumed, read, wireIn>>
  /\ pc = "select" /\ vec' = <<>> /\ (vec = <<>> \/ torn')

\* A step moves what the peer sent along, or adds to it, or loses vec.
LEMMA InboundMoves ==
  ASSUME TypeOK, ShakeClean, [Next]_vars
  PROVE  Kept \/ Lost \/ \E m \in Items : Arrives(m)
PROOF
<1> DEFINE got == (consumed \o vec) \o read
<1>0. /\ got \in Seq(Items) /\ consumed \o vec \in Seq(Items)
      /\ consumed \in Seq(Items) /\ wireIn \in Seq(Items)
  BY ConcatProperties DEF TypeOK
<1> USE DEF taskVars, turnVars, appVars, outVars, peerVars, inVars, endVars
<1>1. CASE PeerSend
  <2>1. PICK m \in Items : /\ peerSent' = Append(peerSent, m)
                           /\ wireIn' = Append(wireIn, m)
    BY <1>1 DEF PeerSend, Items, Heads
  <2>2. UNCHANGED <<torn, consumed, vec, read>>
    BY <1>1 DEF PeerSend
  <2>3. <<m>> \in Seq(Items)
    OBVIOUS
  <2>4. (got \o wireIn) \o <<m>> = got \o (wireIn \o <<m>>)
    BY <1>0, <2>3, ItemsAssociative
  <2>5. /\ Append(wireIn, m) = wireIn \o <<m>>
        /\ Append(peerSent, m) = peerSent \o <<m>>
    BY AppendIsConcat DEF TypeOK
  <2> QED
    BY <2>1, <2>2, <2>4, <2>5 DEF Arrives, Inbound
<1>2. CASE Decode
  <2>1. UNCHANGED <<torn, peerSent, wireIn>>
    BY <1>2 DEF Decode
  <2>2. (consumed' \o vec') \o read' = got
    BY <1>2, DecodeMoves DEF Decode, TypeOK
  <2> QED
    BY <2>1, <2>2 DEF Kept, Inbound
<1>3. ASSUME NEW k \in 1 .. Len(wireIn), Read(k)
      PROVE  Kept
  <2> DEFINE b == SubSeq(wireIn, 1, k)
  <2>1. b \in Seq(Items) /\ wireIn' \in Seq(Items) /\ b \o wireIn' = wireIn
    BY <1>0, <1>3, ReadSplits DEF Read
  <2>2. DecodeFrames(b) /\ read = <<>> /\ UNCHANGED <<torn, peerSent>>
    BY <1>3 DEF Read
  <2> HIDE DEF b
  <2>3. (consumed' \o vec') \o read' = (consumed \o vec) \o b
    BY <2>1, <2>2, DecodeMoves
  <2>4. ((consumed \o vec) \o b) \o wireIn' = (consumed \o vec) \o wireIn
    <3> DEFINE taken == consumed \o vec
    <3>1. \A t, u \in Seq(Items) : (taken \o t) \o u = taken \o (t \o u)
      BY <1>0, ItemsAssociative
    <3>2. (taken \o b) \o wireIn' = taken \o (b \o wireIn')
      BY <2>1, <3>1
    <3> QED
      BY <2>1, <3>2
  <2>5. got = consumed \o vec
    BY <1>0, <2>2, ConcatEmptySeq
  <2> QED
    BY <2>2, <2>3, <2>4, <2>5 DEF Kept, Inbound
<1>4. ASSUME NEW k \in 1 .. Len(wireIn), ReadHead(k)
      PROVE  Kept
  <2> DEFINE b == SubSeq(wireIn, 1, k)
  <2>1. b \in Seq(Items) /\ b # <<>> /\ wireIn' \in Seq(Items) /\ b \o wireIn' = wireIn
    BY <1>0, <1>4, ReadSplits DEF ReadHead
  <2>2. Response(b) \/ Request(b)
    BY <1>4 DEF ReadHead
  <2>3. UNCHANGED <<torn, peerSent>>
    BY <1>4 DEF ReadHead
  <2>4. vec = <<>> /\ read = <<>> /\ consumed = <<>>
    BY <1>4 DEF ReadHead, Shaking, ShakeClean
  <2> HIDE DEF b
  <2>5. got \o wireIn = wireIn
    <3>1. got = <<>>
      BY <2>4, ConcatEmptySeq, EmptySeq
    <3> QED
      BY <1>0, <3>1, ConcatEmptySeq
  <2>6. vec' = <<>>
    BY <2>2, <2>4 DEF Response, Request, LoopTop
  <2>7. consumed' \o read' = b /\ consumed' \in Seq(Items)
    <3>1. CASE Head(b) = "Head" /\ read' = Tail(b) /\ consumed' = <<"Head">>
      <4>1. Head(b) \in Items /\ Tail(b) \in Seq(Items) /\ b = <<Head(b)>> \o Tail(b)
        BY <2>1, HeadTailProperties, SMT
      <4> QED
        BY <3>1, <4>1
    <3>2. CASE read' = b /\ consumed' = <<>>
      BY <2>1, <3>2, ConcatEmptySeq, EmptySeq
    <3> QED
      BY <2>2, <2>4, <3>1, <3>2 DEF Response, Request
  <2>8. consumed' \o vec' = consumed'
    BY <2>6, <2>7, ConcatEmptySeq
  <2> QED
    BY <2>1, <2>3, <2>5, <2>7, <2>8 DEF Kept, Inbound
<1>5. CASE Recv \/ (OnLogic /\ pc' # "failed")
  <2>1. UNCHANGED <<peerSent, wireIn, read, consumed>> /\ pc = "select"
    BY <1>5 DEF Recv, OnLogic
  <2>2. vec' = <<>> /\ torn' = (torn \/ vec # <<>>)
    BY <1>5 DEF Recv, OnLogic, LoopTop, Fails
  <2>3. vec = <<>> \/ torn'
    BY <2>2
  <2> QED
    BY <2>1, <2>2, <2>3 DEF Lost
<1>6. CASE TryAccept
  <2>1. UNCHANGED <<peerSent, wireIn, read, consumed, torn>>
    BY <1>6 DEF TryAccept
  <2>2. vec' = vec
    BY <1>6 DEF TryAccept, LoopTop, ShakeClean
  <2> QED
    BY <2>1, <2>2 DEF Kept, Inbound
<1> DEFINE Same == UNCHANGED <<peerSent, wireIn, read, consumed, vec>>
<1>7. Same => Kept
  BY DEF Kept, Inbound
<1>8. CASE PeerShutdown \/ AppSend \/ AppDrop \/ Tick \/ UNCHANGED vars
  BY <1>7, <1>8 DEF PeerShutdown, AppSend, AppDrop, Tick, vars
<1>9. CASE AcceptFails \/ OnOpen \/ BuildRequest \/ RecvNone \/ ReportError
           \/ (OnLogic /\ pc' = "failed")
  BY <1>7, <1>9 DEF OnLogic, LoopTop, AcceptFails, OnOpen, BuildRequest, RecvNone, ReportError
<1>10. CASE ShakeTimesOut \/ ReadTimesOut \/ ReadEof \/ SocketError \/ CloseAnyway
  BY <1>7, <1>10 DEF ShakeTimesOut, ReadTimesOut, ReadEof, SocketError, CloseAnyway
<1>11. ASSUME NEW k, WriteSome(k) \/ DrainWrite(k)
       PROVE  Kept
  BY <1>7, <1>11 DEF WriteSome, DrainWrite
<1> QED
  BY <1>1, <1>2, <1>3, <1>4, <1>5, <1>6, <1>8, <1>9, <1>10, <1>11
     DEF Next, Peer, App, Outside, Task, Finished

\* That fragments were lost is not forgotten.
LEMMA TornStep == [Next]_vars => (torn => torn')
PROOF
<1> USE DEF taskVars, turnVars, appVars, outVars, peerVars, inVars, endVars
<1> SUFFICES ASSUME [Next]_vars, torn PROVE torn'
  OBVIOUS
<1>1. CASE \/ PeerSend \/ PeerShutdown \/ AppSend \/ AppDrop \/ Tick \/ UNCHANGED vars
           \/ TryAccept \/ AcceptFails \/ OnOpen \/ BuildRequest \/ ShakeTimesOut
  BY <1>1 DEF PeerSend, PeerShutdown, AppSend, AppDrop, Tick, vars, TryAccept,
              AcceptFails, OnOpen, BuildRequest, ShakeTimesOut
<1>2. CASE \/ Decode \/ ReadTimesOut \/ ReadEof \/ SocketError \/ CloseAnyway
           \/ Recv \/ RecvNone \/ OnLogic \/ ReportError
  BY <1>2 DEF Decode, ReadTimesOut, ReadEof, SocketError, CloseAnyway, Recv, RecvNone,
              OnLogic, ReportError
<1>3. CASE \/ \E k \in 1 .. Len(wireIn) : ReadHead(k) \/ Read(k)
           \/ \E k \in 1 .. Len(write) : WriteSome(k) \/ DrainWrite(k)
  BY <1>3 DEF ReadHead, Read, WriteSome, DrainWrite
<1> QED
  BY <1>1, <1>2, <1>3 DEF Next, Peer, App, Outside, Task, Finished

LEMMA InboundStep ==
  ASSUME TypeOK, InboundInv, [Next]_vars
  PROVE  InboundExact'
PROOF
<1>1. SUFFICES ASSUME ~torn'
               PROVE  Inbound' = peerSent'
  BY DEF InboundExact, Inbound
<1>2. ~torn
  BY <1>1, TornStep
<1>3. Inbound = peerSent
  BY <1>2 DEF InboundInv, InboundExact, Inbound
<1>4. CASE Kept
  BY <1>3, <1>4 DEF Kept
<1>5. CASE Lost
  <2>1. UNCHANGED <<peerSent, consumed, vec, read, wireIn>>
    BY <1>1, <1>5 DEF Lost
  <2> QED
    BY <1>3, <2>1 DEF Inbound
<1>6. CASE \E m \in Items : Arrives(m)
  BY <1>3, <1>6 DEF Arrives
<1> QED
  BY <1>4, <1>5, <1>6, InboundMoves DEF InboundInv

\* As long as no turn of the loop ended between two fragments, every frame
\* of the peer is handled, held or still in the socket, in order: a dropped
\* process(), in whichever state, loses vec and nothing else.
THEOREM InboundCorrect == Spec => []InboundExact
PROOF
<1>1. Init => InboundInv
  <2>1. <<>> \in Seq(Items)
    BY EmptySeq
  <2>2. ((<<>> \o <<>>) \o <<>>) \o <<>> = <<>>
    BY <2>1, ConcatEmptySeq
  <2> QED
    BY <2>2 DEF Init, InboundInv, ShakeClean, InboundExact
<1>2. TypeOK /\ InboundInv /\ [Next]_vars => InboundInv'
  BY ShakeCleanStep, InboundStep DEF InboundInv
<1>3. InboundInv => InboundExact
  BY DEF InboundInv
<1> QED
  BY <1>1, <1>2, <1>3, TypeCorrect, PTL DEF Spec

-----------------------------------------------------------------------------
(* The handshake goes first and the Close goes out.                        *)

\* What was and will be sent tells how far the connection has come.
HeadOut == Has("Head", Out)
CloseOut == Has("Close", Out)
RefusalOut == Has("Refusal", Out)

SameOut ==
  /\ HeadOut' <=> HeadOut
  /\ CloseOut' <=> CloseOut
  /\ RefusalOut' <=> RefusalOut

GreetInv ==
  /\ pc = "accept" => state = "Wait"
  /\ pc = "open" => state = "Open"
  /\ state \in {"Wait", "WaitRet"} => ~ready
  /\ (state = "WaitRet" /\ pc = "select") => HeadOut
  /\ (state = "Open" \/ ready)
       => consumed # <<>> /\ Head(consumed) = "Head" /\ HeadOut

FarewellInv ==
  /\ (ready /\ state \in {"Closing", "Closed"}) => CloseOut
  /\ RefusalOut => CloseOut
  /\ end = "drained" => pc = "done" /\ write = <<>> /\ state = "Closed"

OutInv == GreetInv /\ FarewellInv

\* Encoding a frame adds it to Out, and nothing else.
LEMMA OutGrows ==
  ASSUME TypeOK, NEW w \in Seq(Frames), wireOut' = wireOut, write' = write \o w
  PROVE  /\ HeadOut' <=> HeadOut \/ Has("Head", w)
         /\ CloseOut' <=> CloseOut \/ Has("Close", w)
         /\ RefusalOut' <=> RefusalOut \/ Has("Refusal", w)
PROOF
<1>1. wireOut \in Seq(Frames) /\ write \in Seq(Frames) /\ Out \in Seq(Frames)
  BY ConcatProperties DEF TypeOK, Out
<1>2. wireOut \o (write \o w) = Out \o w
  BY <1>1, FramesAssociative DEF Out
<1>3. Out' = Out \o w
  BY <1>2 DEF Out
<1>4. \A f : Has(f, Out \o w) <=> Has(f, Out) \/ Has(f, w)
  BY <1>1, HasSplit
<1> QED
  BY <1>3, <1>4 DEF SameOut, HeadOut, CloseOut, RefusalOut

\* Writing moves frames, and neither adds nor loses one.
LEMMA OutMoves ==
  ASSUME TypeOK, NEW k \in 1 .. Len(write),
         wireOut' = wireOut \o SubSeq(write, 1, k), write' = Unwritten(k)
  PROVE  /\ Out' = Out
         /\ k = Len(write) => write' = <<>>
PROOF
<1> DEFINE f == SubSeq(write, 1, k)
           r == SubSeq(write, k + 1, Len(write))
<1>1. f \in Seq(Frames) /\ r \in Seq(Frames) /\ f \o r = write
  BY ReadSplits DEF TypeOK
<1>2. write' = r
  BY DEF Unwritten
<1>3. (wireOut \o f) \o r = wireOut \o (f \o r)
  <2> HIDE DEF f, r
  <2>1. wireOut \in Seq(Frames)
    BY DEF TypeOK
  <2> QED
    BY <1>1, <2>1, FramesAssociative
<1>4. Out' = Out
  BY <1>1, <1>2, <1>3 DEF Out
<1>5. k = Len(write) => r = <<>>
  BY LenProperties, SubSeqEmpty DEF TypeOK
<1> QED
  BY <1>2, <1>4, <1>5

LEMMA OutWritten ==
  ASSUME TypeOK, NEW k \in 1 .. Len(write),
         wireOut' = wireOut \o SubSeq(write, 1, k), write' = Unwritten(k)
  PROVE  /\ SameOut
         /\ k = Len(write) => write' = <<>>
BY OutMoves DEF SameOut, HeadOut, CloseOut, RefusalOut

LEMMA OutSame ==
  ASSUME UNCHANGED <<wireOut, write>>
  PROVE  SameOut
BY DEF SameOut, HeadOut, CloseOut, RefusalOut, Out

\* A message is handled from Open; what was consumed stays consumed, and the
\* answer is neither a head nor a Close.
LEMMA MessageOut ==
  ASSUME TypeOK, NEW v \in Seq(Items), HandleMessage(v), UNCHANGED wireOut
  PROVE  /\ SameOut
         /\ UNCHANGED state
         /\ pc' \in {"open", "select", "failed", "done"}
         /\ pc' = "open" => state = "Open"
         /\ end' = "drained" => end = "drained" /\ pc' # "failed" /\ pc' # "done"
         /\ (consumed # <<>> /\ Head(consumed) = "Head")
              => consumed' # <<>> /\ Head(consumed') = "Head"
PROOF
<1>1. \/ UNCHANGED write
      \/ write' = write \o <<>>
      \/ write' = write \o <<"Pong">>
  BY DEF HandleMessage, Callback, OnClose, NoMessage, LoopTop, Leave, Fails, Answer
<1>2. SameOut
  <2>1. <<"Pong">> \in Seq(Frames) /\ <<>> \in Seq(Frames)
    <3>1. "Pong" \in Frames
      BY DEF Frames
    <3> QED
      BY <3>1, EmptySeq
  <2>2. /\ ~Has("Head", <<"Pong">>) /\ ~Has("Head", <<>>)
        /\ ~Has("Close", <<"Pong">>) /\ ~Has("Close", <<>>)
        /\ ~Has("Refusal", <<"Pong">>) /\ ~Has("Refusal", <<>>)
    BY DEF Has
  <2>3. CASE UNCHANGED write
    BY <2>3, OutSame
  <2>4. CASE write' = write \o <<>>
    BY <2>1, <2>2, <2>4, OutGrows DEF SameOut
  <2>5. CASE write' = write \o <<"Pong">>
    BY <2>1, <2>2, <2>5, OutGrows DEF SameOut
  <2> QED
    BY <1>1, <2>3, <2>4, <2>5
<1>3. consumed' = consumed \/ consumed' = consumed \o v
  BY DEF HandleMessage, Callback, OnClose, NoMessage
<1>4. (consumed # <<>> /\ Head(consumed) = "Head")
        => consumed' # <<>> /\ Head(consumed') = "Head"
  <2> SUFFICES ASSUME consumed # <<>>, Head(consumed) = "Head", consumed' = consumed \o v
               PROVE  consumed' # <<>> /\ Head(consumed') = "Head"
    BY <1>3
  <2>1. /\ Len(consumed) \in Nat /\ Len(consumed) > 0 /\ Len(v) \in Nat
        /\ consumed \o v \in Seq(Items)
        /\ Len(consumed \o v) = Len(consumed) + Len(v)
        /\ (consumed \o v)[1] = consumed[1]
    BY EmptySeq, LenProperties, ConcatProperties DEF TypeOK
  <2> QED
    BY <2>1, EmptySeq, HeadTailProperties DEF TypeOK
<1>5. /\ UNCHANGED state
      /\ pc' \in {"open", "select", "failed", "done"}
      /\ pc' = "open" => state = "Open"
      /\ end' = "drained" => end = "drained" /\ pc' # "failed" /\ pc' # "done"
  BY DEF HandleMessage, Callback, OnClose, NoMessage, LoopTop, Leave, Fails, IsReady
<1> QED
  BY <1>2, <1>4, <1>5

LEMMA ShortSeqs ==
  /\ <<"Head">> \in Seq(Frames) /\ <<"Close">> \in Seq(Frames)
  /\ <<"Refusal", "Close">> \in Seq(Frames)
  /\ Has("Head", <<"Head">>)
  /\ ~Has("Refusal", <<"Head">>)
  /\ Has("Close", <<"Refusal", "Close">>)
PROOF
<1>1. "Head" \in Frames /\ "Close" \in Frames /\ "Refusal" \in Frames
  BY DEF Frames
<1>2. <<"Head">> \in Seq(Frames) /\ <<"Close">> \in Seq(Frames)
  BY <1>1
<1>3. <<"Refusal", "Close">> \in Seq(Frames)
  BY <1>1
<1>4. Has("Head", <<"Head">>) /\ ~Has("Refusal", <<"Head">>)
  BY DEF Has
<1>5. Has("Close", <<"Refusal", "Close">>)
  <2>1. 2 \in 1 .. Len(<<"Refusal", "Close">>) /\ <<"Refusal", "Close">>[2] = "Close"
    OBVIOUS
  <2> QED
    BY <2>1 DEF Has
<1> QED
  BY <1>2, <1>3, <1>4, <1>5

\* The heads: a response, or a request and what on_request says to it.
LEMMA HeadStep ==
  ASSUME TypeOK, OutInv, NEW k \in 1 .. Len(wireIn), ReadHead(k)
  PROVE  OutInv'
PROOF
<1> DEFINE b == SubSeq(wireIn, 1, k)
<1>1. /\ Response(b) \/ Request(b)
      /\ UNCHANGED <<conf, ready, wireOut>>
      /\ pc = "select" /\ state = IF conf.client THEN "WaitRet" ELSE "Wait"
      /\ conf.client => Response(b)
      /\ ~conf.client => Request(b)
  BY DEF ReadHead, Shaking
<1>2. ~ready /\ end # "drained" /\ (conf.client => HeadOut)
  BY <1>1 DEF OutInv, GreetInv, FarewellInv
<1> HIDE DEF b
<1>3. <<"Head">> # <<>> /\ Head(<<"Head">>) = "Head"
  OBVIOUS
<1>4. CASE Response(b) /\ conf.client
  <2>1. UNCHANGED write
    BY <1>4 DEF Response, LoopTop, Fails
  <2>2. SameOut
    BY <1>1, <2>1, OutSame
  <2>3. CASE consumed' = <<"Head">> /\ LoopTop("Open", write) /\ UNCHANGED end
    BY <1>1, <1>2, <1>3, <1>4, <2>2, <2>3
       DEF OutInv, GreetInv, FarewellInv, SameOut, LoopTop
  <2>4. CASE Fails("error") /\ UNCHANGED <<state, consumed>>
    BY <1>1, <1>2, <1>4, <2>2, <2>4 DEF OutInv, GreetInv, FarewellInv, SameOut, Fails
  <2> QED
    BY <1>4, <2>3, <2>4 DEF Response
<1>5. CASE Request(b) /\ ~conf.client
  <2>1. CASE consumed' = <<"Head">> /\ LoopTop("Open", Append(write, "Head"))
             /\ UNCHANGED end
    <3>1. write' = write \o <<"Head">>
      BY <2>1, ShortSeqs, AppendIsConcat DEF LoopTop, TypeOK, Frames
    <3>2. HeadOut' /\ (CloseOut => CloseOut') /\ (RefusalOut' => RefusalOut)
      BY <1>1, <3>1, ShortSeqs, OutGrows
    <3> QED
      BY <1>1, <1>2, <1>3, <2>1, <3>2 DEF OutInv, GreetInv, FarewellInv, LoopTop
  <2>2. CASE LoopTop("Closing", write \o <<"Refusal", "Close">>) /\ UNCHANGED end
    <3>1. write' = write \o <<"Refusal", "Close">>
      BY <2>2 DEF LoopTop
    <3>2. CloseOut'
      BY <1>1, <3>1, ShortSeqs, OutGrows
    <3> QED
      BY <1>1, <1>2, <2>2, <3>2 DEF OutInv, GreetInv, FarewellInv, LoopTop, IsReady
  <2>3. CASE Fails("error") /\ state' \in {"WaitRet", "Wait"}
    <3>1. SameOut
      BY <1>1, <2>3, OutSame DEF Fails
    <3> QED
      BY <1>1, <1>2, <2>3, <3>1 DEF OutInv, GreetInv, FarewellInv, SameOut, Fails
  <2> QED
    BY <1>1, <1>5, <2>1, <2>2, <2>3 DEF Request
<1> QED
  BY <1>1, <1>4, <1>5

\* The commands: close() sends its frame from Open, and no command is a head.
LEMMA RecvStep ==
  ASSUME TypeOK, OutInv, Recv
  PROVE  OutInv'
PROOF
<1> DEFINE c == Head(queue)
<1>1. c \in Commands
  BY HeadTailProperties DEF TypeOK, Recv
<1>2. /\ LoopTop(IF c = "Close" THEN "Closing" ELSE state, write \o Framed(c))
      /\ pc = "select" /\ UNCHANGED <<ready, wireOut, consumed, end>>
  BY DEF Recv, inVars, endVars
<1> HIDE DEF c
<1>3. Framed(c) \in Seq(Frames)
  <2>1. \A f \in Frames : <<f>> \in Seq(Frames)
    OBVIOUS
  <2> QED
    BY <1>1, <2>1, EmptySeq DEF Framed, Commands, Frames
<1>4. ~Has("Refusal", Framed(c))
  BY <1>1 DEF Has, Framed, Commands
<1>5. (c = "Close" /\ state = "Open") => Has("Close", Framed(c))
  BY DEF Has, Framed
<1>6. /\ HeadOut => HeadOut'
      /\ CloseOut => CloseOut'
      /\ RefusalOut' => RefusalOut
      /\ (c = "Close" /\ state = "Open") => CloseOut'
  <2>1. write' = write \o Framed(c)
    BY <1>2 DEF LoopTop
  <2> QED
    BY <1>2, <1>3, <1>4, <1>5, <2>1, OutGrows
<1>7. end # "drained"
  BY <1>2 DEF OutInv, FarewellInv
<1>8. ready => state \in {"Open", "Closing", "Closed"}
  BY DEF OutInv, GreetInv, TypeOK
<1> QED
  BY <1>2, <1>6, <1>7, <1>8 DEF OutInv, GreetInv, FarewellInv, LoopTop, IsReady

LEMMA OutStep ==
  ASSUME TypeOK, OutInv, [Next]_vars
  PROVE  OutInv'
PROOF
<1> USE DEF taskVars, turnVars, appVars, outVars, peerVars, inVars, endVars
<1>1. CASE PeerSend \/ PeerShutdown \/ AppSend \/ AppDrop \/ Tick \/ UNCHANGED vars
  <2>1. UNCHANGED <<pc, state, ready, write, wireOut, consumed, end>>
    BY <1>1 DEF PeerSend, PeerShutdown, AppSend, AppDrop, Tick, vars
  <2> QED
    BY <2>1, OutSame DEF OutInv, GreetInv, FarewellInv, SameOut
<1>2. CASE TryAccept \/ OnLogic
  <2>1. /\ UNCHANGED <<state, ready, write, wireOut, consumed>>
        /\ \/ pc' = (IF IsReady(state) /\ ~ready THEN "open" ELSE "select") /\ UNCHANGED end
           \/ pc' = "failed" /\ end' = "error"
        /\ pc \in {"accept", "select"}
    BY <1>2 DEF TryAccept, OnLogic, LoopTop, Fails
  <2>2. SameOut
    BY <2>1, OutSame
  <2> QED
    BY <2>1, <2>2 DEF OutInv, GreetInv, FarewellInv, SameOut, IsReady
<1>3. CASE OnOpen
  <2>1. /\ UNCHANGED <<state, write, wireOut, consumed>>
        /\ pc = "open" /\ ready' \in {ready, TRUE}
        /\ \/ pc' = "select" /\ UNCHANGED end
           \/ pc' = "failed" /\ end' = "error"
    BY <1>3 DEF OnOpen, Fails
  <2>2. SameOut
    BY <2>1, OutSame
  <2> QED
    BY <2>1, <2>2 DEF OutInv, GreetInv, FarewellInv, SameOut
<1>4. CASE BuildRequest
  <2>1. /\ state = "Wait" /\ state' = "WaitRet" /\ pc = "select"
        /\ UNCHANGED <<pc, ready, wireOut, end>>
        /\ write' = write \o <<"Head">>
    BY <1>4, ShortSeqs, AppendIsConcat DEF BuildRequest, TypeOK, Frames
  <2>2. HeadOut' /\ (CloseOut => CloseOut') /\ (RefusalOut' => RefusalOut)
    BY <2>1, ShortSeqs, OutGrows
  <2> QED
    BY <2>1, <2>2 DEF OutInv, GreetInv, FarewellInv
<1>5. CASE AcceptFails \/ ShakeTimesOut \/ ReadTimesOut \/ ReadEof \/ SocketError \/ RecvNone
  <2>1. /\ UNCHANGED <<state, ready, write, wireOut, consumed>>
        /\ pc' \in {"failed", "done"} /\ pc \in {"accept", "select"}
        /\ end' # "drained"
    BY <1>5 DEF AcceptFails, ShakeTimesOut, ReadTimesOut, ReadEof, SocketError,
                RecvNone, Reading, Shaking, Opened, Leave, Fails
  <2>2. SameOut
    BY <2>1, OutSame
  <2> QED
    BY <2>1, <2>2 DEF OutInv, GreetInv, FarewellInv, SameOut
<1>6. CASE CloseAnyway
  <2>1. /\ UNCHANGED <<ready, write, wireOut, consumed>>
        /\ state = "Closing" /\ state' = "Closed"
        /\ pc' = "done" /\ end' # "drained"
    BY <1>6 DEF CloseAnyway, Closing, Leave
  <2>2. SameOut
    BY <2>1, OutSame
  <2> QED
    BY <2>1, <2>2 DEF OutInv, GreetInv, FarewellInv, SameOut
<1>7. CASE ReportError
  <2>1. /\ UNCHANGED <<state, ready, write, wireOut, consumed, end>>
        /\ pc = "failed" /\ pc' = "done"
    BY <1>7 DEF ReportError
  <2>2. SameOut
    BY <2>1, OutSame
  <2> QED
    BY <2>1, <2>2 DEF OutInv, GreetInv, FarewellInv, SameOut
<1>8. ASSUME NEW v \in Seq(Items), HandleMessage(v), UNCHANGED <<ready, wireOut>>,
             Opened
      PROVE  OutInv'
  BY <1>8, MessageOut DEF OutInv, GreetInv, FarewellInv, SameOut, Opened
<1>9. ASSUME NEW b \in Seq(Items), DecodeFrames(b), UNCHANGED <<ready, wireOut>>,
             Opened
      PROVE  OutInv'
  <2>1. CASE ReadOn(b)
    <3>1. UNCHANGED <<pc, state, ready, write, wireOut, consumed, end>>
      BY <1>9, <2>1 DEF ReadOn
    <3> QED
      BY <3>1, OutSame DEF OutInv, GreetInv, FarewellInv, SameOut
  <2>2. ASSUME NEW n \in 1 .. Len(b), HandleMessage(vec \o SubSeq(b, 1, n))
        PROVE  OutInv'
    <3>1. SubSeq(b, 1, n) \in Seq(Items)
      BY ReadSplits
    <3>2. vec \o SubSeq(b, 1, n) \in Seq(Items)
      BY <3>1, ConcatProperties DEF TypeOK
    <3> QED
      BY <1>8, <1>9, <2>2, <3>2
  <2> QED
    BY <1>9, <2>1, <2>2 DEF DecodeFrames
<1>10. CASE Decode
  BY <1>9, <1>10 DEF Decode, TypeOK
<1>11. ASSUME NEW k \in 1 .. Len(wireIn), Read(k)
       PROVE  OutInv'
  <2>1. SubSeq(wireIn, 1, k) \in Seq(Items)
    BY ReadSplits DEF TypeOK
  <2> QED
    BY <1>9, <1>11, <2>1 DEF Read
<1>12. ASSUME NEW k \in 1 .. Len(write), WriteSome(k)
       PROVE  OutInv'
  <2>1. UNCHANGED <<pc, state, ready, consumed, end>> /\ SameOut
    BY <1>12, OutWritten DEF WriteSome
  <2>2. end # "drained"
    BY <1>12 DEF WriteSome, Reading, Shaking, Opened, OutInv, FarewellInv
  <2> QED
    BY <2>1, <2>2 DEF OutInv, GreetInv, FarewellInv, SameOut
<1>13. ASSUME NEW k \in 1 .. Len(write), DrainWrite(k)
       PROVE  OutInv'
  <2>1. /\ UNCHANGED <<ready, consumed>>
        /\ state = "Closing" /\ pc = "select"
        /\ SameOut
        /\ \/ k = Len(write) /\ state' = "Closed" /\ pc' = "done" /\ end' = "drained"
           \/ UNCHANGED <<state, pc, end>>
        /\ k = Len(write) => write' = <<>>
    BY <1>13, OutWritten DEF DrainWrite, Closing, DrainedBy
  <2>2. end # "drained"
    BY <2>1 DEF OutInv, FarewellInv
  <2> QED
    BY <2>1, <2>2 DEF OutInv, GreetInv, FarewellInv, SameOut
<1> QED
  BY <1>1, <1>2, <1>3, <1>4, <1>5, <1>6, <1>7, <1>10, <1>11, <1>12, <1>13, HeadStep, RecvStep
     DEF Next, Peer, App, Outside, Task, Finished

LEMMA OutInvariant == Spec => []OutInv
PROOF
<1>1. Init => OutInv
  BY DEF Init, OutInv, GreetInv, FarewellInv, HeadOut, CloseOut, RefusalOut, Has, Out
<1> QED
  BY <1>1, OutStep, TypeCorrect, PTL DEF Spec

\* on_open waits for the handshake, whoever of the peer, the timers and the
\* application comes first: the head of the peer is the first thing handled,
\* and the head of hcnet is encoded, before the application hears of it.
THEOREM OpenWaits == Spec => []OpenAfterHandshake
PROOF
<1>1. OutInv => OpenAfterHandshake
  BY DEF OutInv, GreetInv, OpenAfterHandshake, HeadOut
<1> QED
  BY <1>1, OutInvariant, PTL

\* A connection that was open, or refused its peer, and ends because all is
\* written, has told the peer: in whatever pieces the socket takes the write
\* buffer, the Close is on the wire.
THEOREM DrainCorrect == Spec => []DrainedAll
PROOF
<1>1. TypeOK /\ OutInv => DrainedAll
  <2> SUFFICES ASSUME TypeOK, OutInv, end = "drained", ready \/ Has("Refusal", wireOut)
               PROVE  Has("Close", wireOut)
    BY DEF DrainedAll
  <2>1. write = <<>> /\ state = "Closed"
    BY DEF OutInv, FarewellInv
  <2>2. Out = wireOut
    BY <2>1, ConcatEmptySeq DEF TypeOK, Out
  <2> QED
    BY <2>1, <2>2 DEF OutInv, FarewellInv, CloseOut, RefusalOut
<1> QED
  BY <1>1, OutInvariant, TypeCorrect, PTL

-----------------------------------------------------------------------------
(* What is said, counted: Pongs, heads and Closes.                         *)

HeadCount(f) == Count("Head", f) + Count("Refusal", f)

\* What a step adds to what is said: as many Pongs as it handles Pings, if
\* the loop survives it; one head, and that from Wait; one Close, and that
\* on the way to Closing, but for Unvaid.
Says(f) ==
  /\ f \in Seq(Frames)
  /\ Out' = Out \o f
  /\ Alive' => Alive /\ Count("Ping", consumed') = Count("Ping", consumed) + Count("Pong", f)
  /\ \/ HeadCount(f) = 0
     \/ HeadCount(f) = 1 /\ state = "Wait" /\ state' # "Wait"
  /\ \/ Count("Close", f) = 0
     \/ Count("Close", f) = 1 /\ state \in {"Wait", "Open"} /\ state' = "Closing"
     \/ Recv /\ Head(queue) = "Unvaid"
  /\ f = <<>> \/ Head(f) \in {"Head", "Refusal"} \/ Recv \/ state = "Open"

LEMMA OutTypes ==
  ASSUME TypeOK
  PROVE  /\ Out \in Seq(Frames) /\ wireOut \in Seq(Frames) /\ write \in Seq(Frames)
         /\ consumed \in Seq(Items)
         /\ Count("Ping", consumed) \in Nat
PROOF
<1>1. /\ Out \in Seq(Frames) /\ wireOut \in Seq(Frames) /\ write \in Seq(Frames)
      /\ consumed \in Seq(Items)
  BY ConcatProperties DEF TypeOK, Out
<1> QED
  BY <1>1, CountConcat

\* Encoding says what is encoded.
LEMMA Encoded ==
  ASSUME TypeOK, NEW w \in Seq(Frames), wireOut' = wireOut, write' = write \o w
  PROVE  Out' = Out \o w
PROOF
<1>1. wireOut \o (write \o w) = (wireOut \o write) \o w
  BY OutTypes, FramesAssociative
<1> QED
  BY <1>1 DEF Out

\* A step that says nothing and handles no Ping.
LEMMA Silent ==
  ASSUME TypeOK, Out' = Out, Alive' => Alive /\ consumed' = consumed
  PROVE  Says(<<>>)
PROOF
<1>1. <<>> \in Seq(Frames) /\ Out \o <<>> = Out
  BY OutTypes, EmptySeq, ConcatEmptySeq
<1>2. \A f : Count(f, <<>>) = 0
  BY CountShort
<1>3. Count("Ping", consumed) \in Nat
  BY OutTypes
<1> QED
  BY <1>1, <1>2, <1>3 DEF Says, HeadCount

\* The head of the peer, the first item handled, and the answer to it.
LEMMA SaysHead ==
  ASSUME TypeOK, ShakeClean, NEW k \in 1 .. Len(wireIn), ReadHead(k)
  PROVE  \E f : Says(f)
PROOF
<1> DEFINE b == SubSeq(wireIn, 1, k)
<1>1. /\ (Response(b) /\ conf.client) \/ (Request(b) /\ ~conf.client)
      /\ UNCHANGED <<conf, wireOut>>
      /\ pc = "select" /\ state = IF conf.client THEN "WaitRet" ELSE "Wait"
      /\ Alive
  BY DEF ReadHead, Shaking, Alive
<1> HIDE DEF b
<1>2. consumed = <<>>
  BY <1>1 DEF ShakeClean
<1>3. Count("Ping", consumed) = 0 /\ Count("Ping", <<"Head">>) = 0
  BY <1>2, CountShort
<1>4. ASSUME NEW f \in Seq(Frames), write' = write \o f,
             Count("Pong", f) = 0,
             consumed' = <<"Head">>,
             HeadCount(f) = 0 \/ (HeadCount(f) = 1 /\ state = "Wait" /\ state' # "Wait"),
             Count("Close", f) = 0
               \/ (Count("Close", f) = 1 /\ state = "Wait" /\ state' = "Closing"),
             f = <<>> \/ Head(f) \in {"Head", "Refusal"}
      PROVE  Says(f)
  <2>1. Out' = Out \o f
    BY <1>1, <1>4, Encoded
  <2> QED
    BY <1>1, <1>3, <1>4, <2>1 DEF Says
<1>5. CASE Fails("error")
  <2>1. Out' = Out /\ ~Alive'
    BY <1>1, <1>5 DEF Fails, Alive, Out
  <2> QED
    BY <2>1, Silent
<1>6. CASE consumed' = <<"Head">> /\ LoopTop("Open", write)
  <2>1. write' = write \o <<>> /\ <<>> \in Seq(Frames)
    BY <1>6, OutTypes, EmptySeq, ConcatEmptySeq DEF LoopTop
  <2>2. HeadCount(<<>>) = 0 /\ Count("Close", <<>>) = 0 /\ Count("Pong", <<>>) = 0
    BY CountShort DEF HeadCount
  <2>3. Says(<<>>)
    BY <1>4, <1>6, <2>1, <2>2
  <2> QED
    BY <2>3
<1>7. CASE consumed' = <<"Head">> /\ LoopTop("Open", Append(write, "Head")) /\ ~conf.client
  <2>1. write' = write \o <<"Head">> /\ state' = "Open"
    BY <1>7, OutTypes, AppendIsConcat DEF LoopTop, Frames
  <2>2. /\ HeadCount(<<"Head">>) = 1 /\ Count("Close", <<"Head">>) = 0
        /\ Count("Pong", <<"Head">>) = 0
    BY CountShort DEF HeadCount
  <2>3. Head(<<"Head">>) = "Head"
    OBVIOUS
  <2> QED
    BY <1>1, <1>4, <1>7, <2>1, <2>2, <2>3, ShortSeqs
<1>8. CASE /\ consumed' = <<"Head">> /\ ~conf.client
           /\ LoopTop("Closing", write \o <<"Refusal", "Close">>)
  <2> DEFINE f == <<"Refusal", "Close">>
  <2>1. write' = write \o f /\ state' = "Closing"
    BY <1>8 DEF LoopTop
  <2>2. HeadCount(f) = 1 /\ Count("Close", f) = 1 /\ Count("Pong", f) = 0
    BY CountShort DEF HeadCount
  <2>3. Head(f) = "Refusal" /\ f \in Seq(Frames)
    BY ShortSeqs
  <2> HIDE DEF f
  <2> QED
    BY <1>1, <1>4, <1>8, <2>1, <2>2, <2>3
<1> QED
  BY <1>1, <1>5, <1>6, <1>7, <1>8 DEF Response, Request

\* Commands: no command is a head or a Pong; close() is heard once.
LEMMA SaysRecv ==
  ASSUME TypeOK, Recv
  PROVE  \E f : Says(f)
PROOF
<1> DEFINE c == Head(queue)
           f == Framed(c)
<1>1. c \in Commands
  BY HeadTailProperties DEF TypeOK, Recv
<1>2. /\ LoopTop(IF c = "Close" THEN "Closing" ELSE state, write \o f)
      /\ Alive /\ UNCHANGED <<wireOut, consumed>>
      /\ c = Head(queue)
  BY DEF Recv, inVars, Alive
<1>3. /\ f \in {<<>>, <<"Text">>, <<"Ping">>, <<"Close">>}
      /\ f = <<"Close">> => c = "Unvaid" \/ (c = "Close" /\ state = "Open")
  BY <1>1 DEF Framed, Commands
<1> HIDE DEF c, f
<1>4. /\ f \in Seq(Frames) /\ Count("Pong", f) = 0 /\ HeadCount(f) = 0
      /\ Count("Close", f) = IF f = <<"Close">> THEN 1 ELSE 0
  <2>1. "Text" \in Frames /\ "Ping" \in Frames /\ "Close" \in Frames
    BY DEF Frames
  <2>2. f \in Seq(Frames)
    <3>1. \A x \in Frames : <<x>> \in Seq(Frames)
      OBVIOUS
    <3> QED
      BY <1>3, <2>1, <3>1, EmptySeq
  <2>3. CASE f = <<>>
    BY <2>2, <2>3, CountShort DEF HeadCount
  <2>4. CASE f = <<"Text">>
    BY <2>2, <2>4, CountShort DEF HeadCount
  <2>5. CASE f = <<"Ping">>
    BY <2>2, <2>5, CountShort DEF HeadCount
  <2>6. CASE f = <<"Close">>
    BY <2>2, <2>6, CountShort DEF HeadCount
  <2> QED
    BY <1>3, <2>3, <2>4, <2>5, <2>6
<1>5. Out' = Out \o f
  BY <1>2, <1>4, Encoded DEF LoopTop
<1>6. state' = IF c = "Close" THEN "Closing" ELSE state
  BY <1>2 DEF LoopTop
<1>7. Count("Ping", consumed) \in Nat
  BY OutTypes
<1>8. Says(f)
  BY <1>2, <1>3, <1>4, <1>5, <1>6, <1>7 DEF Says
<1> QED
  BY <1>8

\* A message: a Ping is answered by a Pong, if its callback does not fail.
LEMMA SaysMessage ==
  ASSUME TypeOK, NEW v \in Seq(Items), HandleMessage(v), Opened, UNCHANGED wireOut
  PROVE  \E f : Says(f)
PROOF
<1>1. Alive /\ state = "Open"
  BY DEF Opened, Alive
<1>2. CASE ~Alive'
  <2>1. UNCHANGED write
    BY <1>2 DEF HandleMessage, Callback, OnClose, NoMessage, LoopTop, Leave, Fails, Alive
  <2>2. Out' = Out
    BY <2>1 DEF Out
  <2> QED
    BY <1>2, <2>2, Silent
<1>3. CASE Alive'
  <2> DEFINE f == Answer(v)
  <2>1. /\ Whole(v) /\ v # <<"Close">>
        /\ consumed' = consumed \o v
        /\ LoopTop(state, write \o f)
    BY <1>3 DEF HandleMessage, Callback, OnClose, NoMessage, Leave, Fails, Alive
  <2>2. f \in {<<>>, <<"Pong">>}
    BY DEF Answer
  <2>3. f \in Seq(Frames)
    <3>1. "Pong" \in Frames
      BY DEF Frames
    <3>2. \A x \in Frames : <<x>> \in Seq(Frames)
      OBVIOUS
    <3> QED
      BY <2>2, <3>1, <3>2, EmptySeq
  <2>4. Count("Ping", v) = Count("Pong", f)
    <3>1. v \in {<<"Text">>, <<"Ping">>, <<"Part", "Last">>}
      BY <2>1 DEF Whole
    <3>2. CASE v = <<"Text">>
      BY <3>2, CountShort DEF Answer
    <3>3. CASE v = <<"Ping">>
      BY <3>3, CountShort DEF Answer
    <3>4. CASE v = <<"Part", "Last">>
      BY <3>4, CountShort DEF Answer
    <3> QED
      BY <3>1, <3>2, <3>3, <3>4
  <2>5. HeadCount(f) = 0 /\ Count("Close", f) = 0
    <3>1. CASE f = <<>>
      BY <3>1, CountShort DEF HeadCount
    <3>2. CASE f = <<"Pong">>
      BY <3>2, CountShort DEF HeadCount
    <3> QED
      BY <2>2, <3>1, <3>2
  <2> HIDE DEF f
  <2>6. Out' = Out \o f
    BY <2>1, <2>3, Encoded DEF LoopTop
  <2>7. Count("Ping", consumed \o v) = Count("Ping", consumed) + Count("Ping", v)
    BY OutTypes, CountConcat
  <2>8. Says(f)
    BY <1>1, <2>1, <2>3, <2>4, <2>5, <2>6, <2>7 DEF Says
  <2> QED
    BY <2>8
<1> QED
  BY <1>2, <1>3

LEMMA SaysStep ==
  ASSUME TypeOK, ShakeClean, [Next]_vars
  PROVE  \E f : Says(f)
PROOF
<1> USE DEF taskVars, turnVars, appVars, outVars, peerVars, inVars, endVars, Alive
<1>1. ASSUME UNCHANGED <<wireOut, write>>, Alive' => Alive /\ consumed' = consumed
      PROVE  \E f : Says(f)
  <2>1. Out' = Out
    BY <1>1 DEF Out
  <2> QED
    BY <1>1, <2>1, Silent
<1>2. CASE PeerSend \/ PeerShutdown \/ AppSend \/ AppDrop \/ Tick \/ UNCHANGED vars
  BY <1>1, <1>2 DEF PeerSend, PeerShutdown, AppSend, AppDrop, Tick, Sleeping,
                    Shaking, Opened, Closing, vars
<1>3. CASE TryAccept \/ OnLogic \/ OnOpen
  BY <1>1, <1>3 DEF TryAccept, OnLogic, OnOpen, LoopTop, Fails
<1>4. CASE \/ AcceptFails \/ ShakeTimesOut \/ ReadTimesOut \/ ReadEof \/ SocketError
           \/ RecvNone \/ CloseAnyway \/ ReportError
  BY <1>1, <1>4 DEF AcceptFails, ShakeTimesOut, ReadTimesOut, ReadEof, SocketError,
                    RecvNone, CloseAnyway, ReportError, Leave, Fails
<1>5. CASE BuildRequest
  <2>1. /\ state = "Wait" /\ state' = "WaitRet" /\ Alive /\ UNCHANGED <<wireOut, consumed>>
        /\ write' = write \o <<"Head">>
    BY <1>5, ShortSeqs, AppendIsConcat DEF BuildRequest, TypeOK, Frames
  <2>2. /\ HeadCount(<<"Head">>) = 1 /\ Count("Close", <<"Head">>) = 0
        /\ Count("Pong", <<"Head">>) = 0
    BY CountShort DEF HeadCount
  <2>3. Out' = Out \o <<"Head">>
    BY <2>1, ShortSeqs, Encoded
  <2>4. Head(<<"Head">>) = "Head"
    OBVIOUS
  <2>5. Says(<<"Head">>)
    BY <2>1, <2>2, <2>3, <2>4, ShortSeqs, OutTypes DEF Says
  <2> QED
    BY <2>5
<1>6. ASSUME NEW b \in Seq(Items), DecodeFrames(b), Opened, UNCHANGED wireOut
      PROVE  \E f : Says(f)
  <2>1. CASE ReadOn(b)
    BY <1>1, <1>6, <2>1 DEF ReadOn, Opened
  <2>2. ASSUME NEW n \in 1 .. Len(b), HandleMessage(vec \o SubSeq(b, 1, n))
        PROVE  \E f : Says(f)
    <3>1. SubSeq(b, 1, n) \in Seq(Items)
      BY ReadSplits
    <3>2. vec \o SubSeq(b, 1, n) \in Seq(Items)
      BY <3>1, ConcatProperties DEF TypeOK
    <3> QED
      BY <1>6, <2>2, <3>2, SaysMessage
  <2> QED
    BY <1>6, <2>1, <2>2 DEF DecodeFrames
<1>7. CASE Decode
  BY <1>6, <1>7 DEF Decode, TypeOK
<1>8. ASSUME NEW k \in 1 .. Len(wireIn), Read(k)
      PROVE  \E f : Says(f)
  <2>1. SubSeq(wireIn, 1, k) \in Seq(Items)
    BY ReadSplits DEF TypeOK
  <2> QED
    BY <1>6, <1>8, <2>1 DEF Read
<1>9. ASSUME NEW k \in 1 .. Len(write), WriteSome(k) \/ DrainWrite(k)
      PROVE  \E f : Says(f)
  <2>1. Out' = Out
    BY <1>9, OutMoves DEF WriteSome, DrainWrite
  <2>2. Alive /\ consumed' = consumed
    BY <1>9 DEF WriteSome, DrainWrite, Reading, Shaking, Opened, Closing
  <2> QED
    BY <2>1, <2>2, Silent
<1> QED
  BY <1>2, <1>3, <1>4, <1>5, <1>7, <1>8, <1>9, SaysHead, SaysRecv
     DEF Next, Peer, App, Outside, Task, Finished

\* Wait is left for good, and so is everything before Closing.
LEMMA StateStep ==
  ASSUME [Next]_vars
  PROVE  /\ state' = "Wait" => state = "Wait"
         /\ state \in {"Closing", "Closed"} => state' \in {"Closing", "Closed"}
PROOF
<1> USE DEF taskVars, turnVars, appVars, outVars, peerVars, inVars, endVars
<1>1. CASE \/ PeerSend \/ PeerShutdown \/ AppSend \/ AppDrop \/ Tick \/ UNCHANGED vars
           \/ TryAccept \/ OnLogic \/ OnOpen \/ Recv
  BY <1>1 DEF PeerSend, PeerShutdown, AppSend, AppDrop, Tick, vars, TryAccept,
              OnLogic, OnOpen, Recv, LoopTop
<1>2. CASE \/ AcceptFails \/ ShakeTimesOut \/ ReadTimesOut \/ ReadEof \/ SocketError
           \/ RecvNone \/ CloseAnyway \/ ReportError \/ BuildRequest
  BY <1>2 DEF AcceptFails, ShakeTimesOut, ReadTimesOut, ReadEof, SocketError,
              RecvNone, CloseAnyway, ReportError, BuildRequest
<1>3. ASSUME NEW b, DecodeFrames(b), Opened
      PROVE  state = "Open" /\ state' = "Open"
  BY <1>3 DEF DecodeFrames, ReadOn, HandleMessage, Callback, OnClose, NoMessage,
              LoopTop, Opened
<1>4. CASE Decode \/ \E k \in 1 .. Len(wireIn) : Read(k) \/ ReadHead(k)
  BY <1>3, <1>4 DEF Decode, Read, ReadHead, Shaking, Response, Request, LoopTop
<1>5. CASE \E k \in 1 .. Len(write) : WriteSome(k) \/ DrainWrite(k)
  BY <1>5 DEF WriteSome, DrainWrite, Closing
<1> QED
  BY <1>1, <1>2, <1>3, <1>4, <1>5 DEF Next, Peer, App, Outside, Task, Finished

PongInv == Alive => Count("Pong", Out) = Count("Ping", consumed)

OneHeadInv == HeadCount(Out) <= 1 /\ (state = "Wait" => HeadCount(Out) = 0)

OneCloseInv ==
  ~Has("Unvaid", accepted) =>
    /\ ~Has("Unvaid", queue)
    /\ Count("Close", Out) <= 1
    /\ state \notin {"Closing", "Closed"} => Count("Close", Out) = 0

SaidInv == PongInv /\ OneHeadInv /\ OneCloseInv

\* A command is in the queue only if it was accepted.
LEMMA QueueStep ==
  ASSUME TypeOK, [Next]_vars
  PROVE  /\ Has("Unvaid", accepted) => Has("Unvaid", accepted)'
         /\ Has("Unvaid", queue)' => Has("Unvaid", queue) \/ Has("Unvaid", accepted)'
PROOF
<1> USE DEF taskVars, turnVars, appVars, outVars, peerVars, inVars, endVars
<1>1. CASE AppSend
  <2>1. PICK c \in Commands : queue' = Append(queue, c) /\ accepted' = Append(accepted, c)
    BY <1>1 DEF AppSend
  <2>2. /\ Len(queue') = Len(queue) + 1 /\ Len(queue) \in Nat
        /\ \A i \in 1 .. Len(queue) : queue'[i] = queue[i]
        /\ queue'[Len(queue) + 1] = c
    BY <2>1, AppendProperties DEF TypeOK
  <2>3. /\ Len(accepted') = Len(accepted) + 1 /\ Len(accepted) \in Nat
        /\ \A i \in 1 .. Len(accepted) : accepted'[i] = accepted[i]
        /\ accepted'[Len(accepted) + 1] = c
    BY <2>1, AppendProperties DEF TypeOK
  <2>4. Has("Unvaid", accepted) => Has("Unvaid", accepted)'
    BY <2>3 DEF Has
  <2>5. c = "Unvaid" => Has("Unvaid", accepted)'
    BY <2>3 DEF Has
  <2>6. Has("Unvaid", queue)' => Has("Unvaid", queue) \/ c = "Unvaid"
    BY <2>2 DEF Has
  <2> QED
    BY <2>4, <2>5, <2>6
<1>2. CASE Recv
  <2>1. /\ queue # <<>> /\ queue' = Tail(queue) /\ accepted' = accepted
        /\ queue \in Seq(Commands)
    BY <1>2 DEF Recv, TypeOK
  <2>2. /\ Len(queue) \in Nat /\ Len(Tail(queue)) = Len(queue) - 1
        /\ \A i \in 1 .. Len(Tail(queue)) : Tail(queue)[i] = queue[i + 1]
    BY <2>1, HeadTailProperties, LenProperties
  <2>3. ASSUME Has("Unvaid", Tail(queue)) PROVE Has("Unvaid", queue)
    <3>1. PICK i \in 1 .. Len(Tail(queue)) : Tail(queue)[i] = "Unvaid"
      BY <2>3 DEF Has
    <3>2. i + 1 \in 1 .. Len(queue) /\ queue[i + 1] = "Unvaid"
      BY <2>2, <3>1
    <3> QED
      BY <3>2 DEF Has
  <2> QED
    BY <2>1, <2>3 DEF Has
<1>3. CASE ~AppSend /\ ~Recv
  <2>1. UNCHANGED <<queue, accepted>>
    BY <1>3 DEF Next, Peer, App, Outside, Task, Finished, vars, PeerSend, PeerShutdown,
         AppDrop, Tick, TryAccept, AcceptFails, OnOpen, SocketError, OnLogic,
         ReadHead, Read, ReadEof, WriteSome, DrainWrite, BuildRequest, ShakeTimesOut,
         Decode, ReadTimesOut, CloseAnyway, RecvNone, ReportError
  <2> QED
    BY <2>1 DEF Has
<1> QED
  BY <1>1, <1>2, <1>3

LEMMA SaidStep ==
  ASSUME TypeOK, ShakeClean, SaidInv, [Next]_vars
  PROVE  SaidInv'
PROOF
<1>1. PICK f : Says(f)
  BY SaysStep
<1>2. /\ f \in Seq(Frames) /\ Out' = Out \o f
      /\ Alive' => Alive /\ Count("Ping", consumed') = Count("Ping", consumed) + Count("Pong", f)
      /\ \/ HeadCount(f) = 0
         \/ HeadCount(f) = 1 /\ state = "Wait" /\ state' # "Wait"
      /\ \/ Count("Close", f) = 0
         \/ Count("Close", f) = 1 /\ state \in {"Wait", "Open"} /\ state' = "Closing"
         \/ Recv /\ Head(queue) = "Unvaid"
  BY <1>1 DEF Says
<1>3. \A x : /\ Count(x, Out') = Count(x, Out) + Count(x, f)
             /\ Count(x, Out) \in Nat /\ Count(x, f) \in Nat
  BY <1>2, OutTypes, CountConcat
<1>4. PongInv'
  BY <1>2, <1>3 DEF PongInv, SaidInv
<1>5. OneHeadInv'
  <2>1. HeadCount(Out') = HeadCount(Out) + HeadCount(f) /\ HeadCount(Out) \in Nat
    BY <1>3 DEF HeadCount
  <2> QED
    BY <1>2, <2>1, StateStep DEF OneHeadInv, SaidInv
<1>6. OneCloseInv'
  <2> SUFFICES ASSUME ~Has("Unvaid", accepted)'
               PROVE  /\ ~Has("Unvaid", queue)'
                      /\ Count("Close", Out') <= 1
                      /\ state' \notin {"Closing", "Closed"} => Count("Close", Out') = 0
    BY DEF OneCloseInv
  <2>1. /\ ~Has("Unvaid", queue) /\ ~Has("Unvaid", queue)'
        /\ Count("Close", Out) <= 1
        /\ state \notin {"Closing", "Closed"} => Count("Close", Out) = 0
    BY QueueStep DEF SaidInv, OneCloseInv
  <2>2. ~(Recv /\ Head(queue) = "Unvaid")
    <3> SUFFICES ASSUME Recv, Head(queue) = "Unvaid" PROVE FALSE
      OBVIOUS
    <3>1. queue \in Seq(Commands) /\ queue # <<>>
      BY DEF Recv, TypeOK
    <3>2. 1 \in 1 .. Len(queue) /\ queue[1] = "Unvaid"
      BY <3>1, HeadTailProperties, LenProperties, EmptySeq
    <3> QED
      BY <2>1, <3>2 DEF Has
  <2> QED
    BY <1>2, <1>3, <2>1, <2>2, StateStep
<1> QED
  BY <1>4, <1>5, <1>6 DEF SaidInv

\* Nothing is queued before on_open unless the application did not wait.
FirstInv ==
  ~early =>
    /\ (Alive /\ ~ready /\ pc # "open") => queue = <<>>
    /\ Out # <<>> => Head(Out) \in {"Head", "Refusal"}

LEMMA EarlyStep ==
  ASSUME FirstInv, [Next]_vars, ~early'
  PROVE  /\ ~early
         /\ (Alive' /\ ~ready' /\ pc' # "open") => queue' = <<>>
PROOF
<1> USE DEF taskVars, turnVars, appVars, outVars, peerVars, inVars, endVars, Alive, FirstInv
<1>1. CASE AppSend
  BY <1>1 DEF AppSend
<1>2. CASE \/ PeerSend \/ PeerShutdown \/ AppDrop \/ Tick \/ UNCHANGED vars
           \/ TryAccept \/ OnLogic \/ OnOpen \/ Recv
  <2>1. early' = early
    BY <1>2 DEF PeerSend, PeerShutdown, AppDrop, Tick, vars, TryAccept, OnLogic,
                OnOpen, Recv
  <2>2. CASE Recv
    BY <2>1, <2>2 DEF Recv
  <2>3. CASE OnOpen
    BY <2>1, <2>3 DEF OnOpen, Fails
  <2>4. CASE TryAccept \/ OnLogic
    BY <2>1, <2>4 DEF TryAccept, OnLogic, LoopTop, Fails
  <2>5. CASE PeerSend \/ PeerShutdown \/ AppDrop \/ Tick \/ UNCHANGED vars
    BY <2>1, <2>5 DEF PeerSend, PeerShutdown, AppDrop, Tick, vars
  <2> QED
    BY <1>2, <2>2, <2>3, <2>4, <2>5
<1>3. CASE \/ AcceptFails \/ ShakeTimesOut \/ ReadTimesOut \/ ReadEof \/ SocketError
           \/ RecvNone \/ CloseAnyway \/ ReportError \/ BuildRequest
  BY <1>3 DEF AcceptFails, ShakeTimesOut, ReadTimesOut, ReadEof, SocketError,
              RecvNone, CloseAnyway, ReportError, BuildRequest, Leave, Fails
<1>4. CASE Decode \/ \E k \in 1 .. Len(wireIn) : Read(k) \/ ReadHead(k)
  <2>1. UNCHANGED <<early, queue, ready>> /\ pc = "select"
    BY <1>4 DEF Decode, Read, ReadHead, Shaking, Opened
  <2> QED
    BY <2>1
<1>5. CASE \E k \in 1 .. Len(write) : WriteSome(k) \/ DrainWrite(k)
  BY <1>5 DEF WriteSome, DrainWrite, Reading, Shaking, Opened, Closing
<1> QED
  BY <1>1, <1>2, <1>3, <1>4, <1>5 DEF Next, Peer, App, Outside, Task, Finished

LEMMA FirstStep ==
  ASSUME TypeOK, ShakeClean, OutInv, FirstInv, [Next]_vars
  PROVE  FirstInv'
PROOF
<1> SUFFICES ASSUME ~early'
             PROVE  /\ (Alive' /\ ~ready' /\ pc' # "open") => queue' = <<>>
                    /\ Out' # <<>> => Head(Out') \in {"Head", "Refusal"}
  BY DEF FirstInv
<1>1. ~early /\ ((Alive' /\ ~ready' /\ pc' # "open") => queue' = <<>>)
  BY EarlyStep
<1>2. PICK f : Says(f)
  BY SaysStep
<1>3. /\ f \in Seq(Frames) /\ Out' = Out \o f
      /\ f = <<>> \/ Head(f) \in {"Head", "Refusal"} \/ Recv \/ state = "Open"
  BY <1>2 DEF Says
<1>4. Out \in Seq(Frames)
  BY OutTypes
<1>5. CASE Out # <<>>
  <2>1. Head(Out \o f) = Head(Out)
    <3>1. /\ Len(Out) \in Nat /\ Len(Out) > 0 /\ Len(f) \in Nat
          /\ Out \o f \in Seq(Frames)
          /\ Len(Out \o f) = Len(Out) + Len(f)
          /\ (Out \o f)[1] = Out[1]
      BY <1>3, <1>4, <1>5, EmptySeq, LenProperties, ConcatProperties
    <3> QED
      BY <1>4, <1>5, <3>1, EmptySeq, HeadTailProperties
  <2> QED
    BY <1>1, <1>3, <1>5, <2>1 DEF FirstInv
<1>6. CASE Out = <<>>
  <2>1. Out' = f
    BY <1>3, <1>6, ConcatEmptySeq
  <2>2. ~HeadOut
    BY <1>6 DEF HeadOut, Has
  <2>3. state # "Open" /\ ~ready
    BY <2>2 DEF OutInv, GreetInv
  <2>4. ~Recv
    BY <1>1, <2>3 DEF FirstInv, Recv, Alive
  <2> QED
    BY <1>1, <1>3, <2>1, <2>3, <2>4
<1> QED
  BY <1>5, <1>6

LEMMA Said == Spec => [](SaidInv /\ FirstInv)
PROOF
<1>1. Init => ShakeClean /\ OutInv /\ SaidInv /\ FirstInv
  <2> SUFFICES ASSUME Init PROVE ShakeClean /\ OutInv /\ SaidInv /\ FirstInv
    OBVIOUS
  <2>1. Out = <<>> /\ consumed = <<>> /\ queue = <<>>
    BY EmptySeq, ConcatEmptySeq DEF Init, Out
  <2>2. \A f : Count(f, <<>>) = 0 /\ ~Has(f, <<>>)
    BY CountShort DEF Has
  <2>3. ShakeClean /\ OutInv
    BY <2>1, <2>2 DEF Init, ShakeClean, OutInv, GreetInv, FarewellInv, HeadOut,
                      CloseOut, RefusalOut
  <2>4. SaidInv
    BY <2>1, <2>2 DEF SaidInv, PongInv, OneHeadInv, OneCloseInv, HeadCount
  <2> QED
    BY <2>1, <2>3, <2>4 DEF FirstInv
<1>2. TypeOK /\ ShakeClean /\ OutInv /\ SaidInv /\ FirstInv /\ [Next]_vars
        => (ShakeClean /\ OutInv /\ SaidInv /\ FirstInv)'
  BY ShakeCleanStep, OutStep, SaidStep, FirstStep
<1> QED
  BY <1>1, <1>2, TypeCorrect, PTL DEF Spec

\* While the loop runs there is a Pong for every Ping handed over, however
\* often a dropped process() loses fragments around it.
THEOREM PongsCorrect == Spec => []PongsMatch
PROOF
<1>1. SaidInv => PongsMatch
  BY DEF SaidInv, PongInv, PongsMatch, Alive
<1> QED
  BY <1>1, Said, PTL

\* One head goes out, in front of everything else if the application waits
\* for on_open.
THEOREM HandshakeCorrect == Spec => []HandshakeFirst
PROOF
<1>1. SaidInv /\ FirstInv => HandshakeFirst
  BY DEF SaidInv, OneHeadInv, FirstInv, HandshakeFirst, HeadCount
<1> QED
  BY <1>1, Said, PTL

\* At most one Close goes out, whoever calls close(), how often, and in
\* whatever state of the connection.
THEOREM CloseCorrect == Spec => []CloseOnce
PROOF
<1>1. SaidInv => CloseOnce
  BY DEF SaidInv, OneCloseInv, CloseOnce
<1> QED
  BY <1>1, Said, PTL

-----------------------------------------------------------------------------
(* The application's messages, as the peer hears them.                     *)

Words == Frames \cup Commands
Datum == [f \in Words |-> IF f \in {"Text", "Ping"} THEN <<f>> ELSE <<>>]

LEMMA DataParts ==
  /\ \A s \in Seq(Words) : Data(s) \in Seq(Words)
  /\ \A s, t \in Seq(Words) : Data(s \o t) = Data(s) \o Data(t)
  /\ Data(<<>>) = <<>>
  /\ \A f \in Words : Data(<<f>>) = IF f \in {"Text", "Ping"} THEN <<f>> ELSE <<>>
PROOF
<1>1. Datum \in [Words -> Seq(Words)]
  <2>1. \A f \in Words : <<f>> \in Seq(Words) /\ <<>> \in Seq(Words)
    BY EmptySeq
  <2> QED
    BY <2>1 DEF Datum
<1>2. \A f \in Words : Datum[f] = IF f \in {"Text", "Ping"} THEN <<f>> ELSE <<>>
  BY DEF Datum
<1>3. \A s : Data(s) = Expand(Datum, s)
  BY DEF Data, Datum, Words
<1> HIDE DEF Datum
<1>4. \A s \in Seq(Words) : Expand(Datum, s) \in Seq(Words)
  BY <1>1, ExpandTypes
<1>5. \A s, t \in Seq(Words) : Expand(Datum, s \o t) = Expand(Datum, s) \o Expand(Datum, t)
  BY <1>1, ExpandConcat
<1>6. \A f \in Words : Expand(Datum, <<f>>) = Datum[f]
  BY <1>1, ExpandShort
<1>7. Expand(Datum, <<>>) = <<>>
  BY ExpandShort
<1> QED
  BY <1>2, <1>3, <1>4, <1>5, <1>6, <1>7

\* What is encoded beside commands: heads, the refusal of a peer with its
\* Close, and Pongs.
OwnWords == {<<>>, <<"Head">>, <<"Refusal", "Close">>, <<"Pong">>}

LEMMA NoData ==
  ASSUME NEW f \in OwnWords
  PROVE  f \in Seq(Frames) /\ Data(f) = <<>>
PROOF
<1>1. /\ "Head" \in Words /\ "Refusal" \in Words /\ "Close" \in Words /\ "Pong" \in Words
      /\ "Pong" \in Frames
  BY DEF Words, Frames
<1>2. <<"Refusal">> \in Seq(Words) /\ <<"Close">> \in Seq(Words) /\ <<>> \in Seq(Words)
  <2>1. \A x \in Words : <<x>> \in Seq(Words)
    OBVIOUS
  <2> QED
    BY <1>1, <2>1, EmptySeq
<1>3. <<"Refusal", "Close">> = <<"Refusal">> \o <<"Close">>
  OBVIOUS
<1>4. /\ Data(<<"Head">>) = <<>> /\ Data(<<"Refusal">>) = <<>>
      /\ Data(<<"Close">>) = <<>> /\ Data(<<"Pong">>) = <<>> /\ Data(<<>>) = <<>>
  BY <1>1, DataParts
<1>5. Data(<<"Refusal">> \o <<"Close">>) = Data(<<"Refusal">>) \o Data(<<"Close">>)
  BY <1>2, DataParts
<1>6. Data(<<"Refusal", "Close">>) = <<>>
  BY <1>2, <1>3, <1>4, <1>5, ConcatEmptySeq
<1>7. <<"Pong">> \in Seq(Frames) /\ <<>> \in Seq(Frames)
  BY <1>1, EmptySeq
<1> QED
  BY <1>4, <1>6, <1>7, ShortSeqs DEF OwnWords

\* A step takes a command and encodes its frame, or has a command accepted,
\* or encodes something of its own.
LEMMA TellStep ==
  ASSUME TypeOK, [Next]_vars
  PROVE  \/ /\ queue # <<>> /\ queue' = Tail(queue)
            /\ UNCHANGED <<accepted, wireOut>>
            /\ write' = write \o Framed(Head(queue))
         \/ /\ \E c \in Commands : /\ queue' = Append(queue, c)
                                  /\ accepted' = Append(accepted, c)
            /\ Out' = Out
         \/ /\ UNCHANGED <<queue, accepted>>
            /\ \E f \in OwnWords : Out' = Out \o f
PROOF
<1> USE DEF taskVars, turnVars, appVars, outVars, peerVars, inVars, endVars
<1> DEFINE Own == UNCHANGED <<queue, accepted>> /\ \E f \in OwnWords : Out' = Out \o f
<1>0. /\ \A f \in OwnWords : f \in Seq(Frames)
      /\ <<>> \in OwnWords
      /\ Out \in Seq(Frames) /\ Out \o <<>> = Out
      /\ write \in Seq(Frames) /\ write \o <<>> = write
  BY NoData, OutTypes, ConcatEmptySeq DEF OwnWords
<1>1. ASSUME UNCHANGED <<queue, accepted>>, Out' = Out
      PROVE  Own
  BY <1>0, <1>1
<1>2. ASSUME UNCHANGED <<queue, accepted, wireOut>>,
             NEW f \in OwnWords, write' = write \o f
      PROVE  Own
  <2>1. Out' = Out \o f
    BY <1>0, <1>2, Encoded
  <2> QED
    BY <1>2, <2>1
<1>3. ASSUME UNCHANGED <<queue, accepted, wireOut, write>>
      PROVE  Own
  BY <1>1, <1>3 DEF Out
<1> HIDE DEF Own
<1>4. CASE Recv
  BY <1>4 DEF Recv, LoopTop
<1>5. CASE AppSend
  BY <1>5 DEF AppSend, Out
<1>6. ASSUME PeerSend \/ PeerShutdown \/ AppDrop \/ Tick \/ UNCHANGED vars \/ ReportError
      PROVE  Own
  BY <1>3, <1>6 DEF PeerSend, PeerShutdown, AppDrop, Tick, vars, ReportError
<1>7. ASSUME TryAccept \/ OnLogic \/ OnOpen
      PROVE  Own
  BY <1>3, <1>7 DEF TryAccept, OnLogic, OnOpen, LoopTop, Fails
<1>8. ASSUME \/ AcceptFails \/ ShakeTimesOut \/ ReadTimesOut \/ ReadEof \/ SocketError
             \/ RecvNone \/ CloseAnyway
      PROVE  Own
  BY <1>3, <1>8 DEF AcceptFails, ShakeTimesOut, ReadTimesOut, ReadEof, SocketError,
                    RecvNone, CloseAnyway, Leave, Fails
<1>9. ASSUME BuildRequest
      PROVE  Own
  <2>1. /\ UNCHANGED <<queue, accepted, wireOut>> /\ write' = write \o <<"Head">>
        /\ <<"Head">> \in OwnWords
    BY <1>0, <1>9, AppendIsConcat DEF BuildRequest, OwnWords, Frames
  <2> QED
    BY <1>2, <2>1
<1>10. ASSUME NEW k \in 1 .. Len(wireIn), ReadHead(k)
       PROVE  Own
  <2>1. PICK b : Response(b) \/ Request(b)
    BY <1>10 DEF ReadHead
  <2>2. UNCHANGED <<queue, accepted, wireOut>>
    BY <1>10 DEF ReadHead
  <2>3. \/ UNCHANGED write
        \/ write' = Append(write, "Head")
        \/ write' = write \o <<"Refusal", "Close">>
    BY <2>1 DEF Response, Request, LoopTop, Fails
  <2>4. Append(write, "Head") = write \o <<"Head">>
    BY <1>0, AppendIsConcat DEF Frames
  <2>5. <<"Head">> \in OwnWords /\ <<"Refusal", "Close">> \in OwnWords
    BY DEF OwnWords
  <2> QED
    BY <1>2, <1>3, <2>2, <2>3, <2>4, <2>5
<1>11. ASSUME NEW b, DecodeFrames(b), UNCHANGED <<queue, accepted, wireOut>>
       PROVE  Own
  <2>1. CASE ReadOn(b)
    BY <1>3, <1>11, <2>1 DEF ReadOn
  <2>2. ASSUME NEW v, HandleMessage(v)
        PROVE  Own
    <3>1. UNCHANGED write \/ write' = write \o Answer(v)
      BY <2>2 DEF HandleMessage, Callback, OnClose, NoMessage, LoopTop, Leave, Fails
    <3>2. Answer(v) \in OwnWords
      BY DEF Answer, OwnWords
    <3> QED
      BY <1>2, <1>3, <1>11, <3>1, <3>2
  <2> QED
    BY <1>11, <2>1, <2>2 DEF DecodeFrames
<1>12. ASSUME Decode
       PROVE  Own
  BY <1>11, <1>12 DEF Decode
<1>13. ASSUME NEW k \in 1 .. Len(wireIn), Read(k)
       PROVE  Own
  BY <1>11, <1>13 DEF Read
<1>14. ASSUME NEW k \in 1 .. Len(write), WriteSome(k) \/ DrainWrite(k)
       PROVE  Own
  <2>1. Out' = Out
    BY <1>14, OutMoves DEF WriteSome, DrainWrite
  <2>2. UNCHANGED <<queue, accepted>>
    BY <1>14 DEF WriteSome, DrainWrite
  <2> QED
    BY <1>1, <2>1, <2>2
<1>15. CASE Own
  BY <1>15 DEF Own
<1> QED
  BY <1>4, <1>5, <1>6, <1>7, <1>8, <1>9, <1>10, <1>12, <1>13, <1>14, <1>15
     DEF Next, Peer, App, Outside, Task, Finished

\* What makes DataExact inductive: the commands taken and those in the
\* channel are the commands accepted.
DataInv == accepted = Taken \o queue /\ DataExact

LEMMA TakenType ==
  ASSUME TypeOK, DataInv
  PROVE  Taken \in Seq(Commands)
PROOF
<1> DEFINE n == Len(accepted) - Len(queue)
<1>1. accepted \in Seq(Commands) /\ queue \in Seq(Commands) /\ accepted = Taken \o queue
  BY DEF TypeOK, DataInv
<1>2. Len(accepted) \in Nat /\ Len(queue) \in Nat
  BY <1>1, LenProperties
<1>3. \A i \in 1 .. n : accepted[i] \in Commands
  <2>1. \A i \in 1 .. Len(accepted) : accepted[i] \in Commands
    BY <1>1, ElementOfSeq
  <2> QED
    BY <1>2, <2>1
<1> HIDE DEF n
<1>4. SubSeq(accepted, 1, n) \in Seq(Commands)
  BY <1>2, <1>3, SubSeqProperties DEF n
<1> QED
  BY <1>4 DEF Taken, n

LEMMA CommandsAssociative ==
  \A s, t, u \in Seq(Commands) : (s \o t) \o u = s \o (t \o u)
PROOF
<1> TAKE s, t, u \in Seq(Commands)
<1> QED
  BY ConcatAssociative

LEMMA DataStep ==
  ASSUME TypeOK, DataInv, [Next]_vars
  PROVE  DataInv'
PROOF
<1> DEFINE taken == Taken
<1>1. /\ queue \in Seq(Commands) /\ accepted \in Seq(Commands)
      /\ wireOut \in Seq(Frames) /\ write \in Seq(Frames) /\ Out \in Seq(Frames)
      /\ taken \in Seq(Commands)
      /\ accepted = taken \o queue /\ Data(Out) = Data(taken)
  BY TakenType, OutTypes DEF TypeOK, DataInv, DataExact
<1>2. \A s, r : accepted' = s \o r /\ queue' = r
                  /\ s \in Seq(Commands) /\ r \in Seq(Commands)
                 => Taken' = s
  BY TakenPart DEF Taken
<1>3. /\ \A s \in Seq(Frames) : s \in Seq(Words)
      /\ \A s \in Seq(Commands) : s \in Seq(Words)
  BY DEF Words
<1>4. ASSUME NEW s \in Seq(Commands), NEW r \in Seq(Commands), NEW f \in Seq(Frames),
             accepted' = s \o r, queue' = r,
             Out' = Out \o f, Data(s) = Data(taken) \o Data(f)
      PROVE  DataInv'
  <2>1. Taken' = s
    BY <1>2, <1>4
  <2>2. Data(Out \o f) = Data(Out) \o Data(f)
    BY <1>1, <1>3, <1>4, DataParts
  <2>3. Data(Out') = Data(s)
    BY <1>1, <1>4, <2>2
  <2> QED
    BY <1>4, <2>1, <2>3 DEF DataInv, DataExact, Data
<1> HIDE DEF taken
<1>5. CASE /\ queue # <<>> /\ queue' = Tail(queue)
           /\ UNCHANGED <<accepted, wireOut>>
           /\ write' = write \o Framed(Head(queue))
  <2> DEFINE c == Head(queue)
             f == Framed(c)
             s == taken \o <<c>>
  <2>1. /\ c \in Commands /\ <<c>> \in Seq(Commands)
        /\ queue' \in Seq(Commands) /\ queue = <<c>> \o queue'
    BY <1>1, <1>5, HeadSplits
  <2>2. f \in Seq(Frames) /\ Data(f) = Data(<<c>>)
    <3> HIDE DEF c
    <3>1. \A x \in Frames : <<x>> \in Seq(Frames)
      OBVIOUS
    <3>2. f \in {<<>>, <<"Close">>, <<c>>}
          /\ (f = <<c>> \/ c \in {"Close", "Unvaid"}) /\ (f = <<c>> => c \in Frames)
      BY <2>1 DEF Framed, Commands, Frames
    <3>3. c \in Words /\ "Close" \in Words /\ "Close" \in Frames
      BY <2>1 DEF Words, Frames
    <3>4. Data(<<"Close">>) = <<>> /\ Data(<<>>) = <<>>
          /\ (c \in {"Close", "Unvaid"} => Data(<<c>>) = <<>>)
      BY <3>3, DataParts
    <3>5. <<>> \in Seq(Frames)
      BY EmptySeq
    <3> HIDE DEF f
    <3> QED
      BY <3>1, <3>2, <3>3, <3>4, <3>5
  <2>3. Data(s) = Data(taken) \o Data(f)
    <3>1. Data(taken \o <<c>>) = Data(taken) \o Data(<<c>>)
      <4> HIDE DEF c
      <4> QED
        BY <1>1, <1>3, <2>1, DataParts
    <3> QED
      BY <2>2, <3>1
  <2> HIDE DEF c, f
  <2>4. s \in Seq(Commands) /\ accepted' = s \o queue'
    BY <1>1, <1>5, <2>1, ConcatProperties, CommandsAssociative
  <2>5. Out' = Out \o f
    BY <1>5, <2>2, Encoded DEF f, c
  <2> HIDE DEF s
  <2> QED
    BY <1>4, <2>1, <2>2, <2>3, <2>4, <2>5
<1>6. \A f : f \in OwnWords =>
        /\ f \in Seq(Frames)
        /\ Data(taken) = Data(taken) \o Data(f)
  <2> SUFFICES ASSUME NEW f \in OwnWords
               PROVE  f \in Seq(Frames) /\ Data(taken) = Data(taken) \o Data(f)
    OBVIOUS
  <2>1. f \in Seq(Frames) /\ Data(f) = <<>>
    BY NoData
  <2>2. Data(taken) \in Seq(Words)
    BY <1>1, <1>3, DataParts
  <2> QED
    BY <2>1, <2>2, ConcatEmptySeq
<1>7. CASE /\ \E c \in Commands : /\ queue' = Append(queue, c)
                                /\ accepted' = Append(accepted, c)
           /\ Out' = Out
  <2>1. PICK c \in Commands : queue' = Append(queue, c) /\ accepted' = Append(accepted, c)
    BY <1>7
  <2>2. /\ <<c>> \in Seq(Commands)
        /\ queue' = queue \o <<c>> /\ accepted' = accepted \o <<c>>
        /\ queue' \in Seq(Commands)
    BY <1>1, <2>1, AppendIsConcat, AppendProperties
  <2>3. accepted' = taken \o queue'
    BY <1>1, <2>2, CommandsAssociative
  <2>4. Out' = Out \o <<>> /\ <<>> \in OwnWords
    BY <1>1, <1>7, ConcatEmptySeq DEF OwnWords
  <2> QED
    BY <1>1, <1>4, <1>6, <2>2, <2>3, <2>4
<1>8. CASE /\ UNCHANGED <<queue, accepted>>
           /\ \E f \in OwnWords : Out' = Out \o f
  BY <1>1, <1>4, <1>6, <1>8
<1> QED
  BY <1>5, <1>7, <1>8, TellStep

\* Text and Ping go out for exactly the commands taken from the channel, in
\* the order they were accepted: whatever heads, Pongs and Closes the task
\* adds, and however often process() is dropped while it writes.
THEOREM DataCorrect == Spec => []DataExact
PROOF
<1>1. Init => DataInv
  <2> SUFFICES ASSUME Init PROVE DataInv
    OBVIOUS
  <2>1. <<>> \in Seq(Commands) /\ <<>> \o <<>> = <<>>
    BY EmptySeq, ConcatEmptySeq
  <2>2. Taken = <<>>
    BY <2>1, TakenPart DEF Init, Taken
  <2> QED
    BY <2>1, <2>2, DataParts DEF Init, DataInv, DataExact, Out
<1>2. DataInv => DataExact
  BY DEF DataInv
<1> QED
  BY <1>1, <1>2, TypeCorrect, DataStep, PTL DEF Spec

-----------------------------------------------------------------------------
(* WsConn implements Handler.                                              *)

Meaning ==
  [i \in Items |-> IF i = "Last" THEN <<"Text">>
                   ELSE IF i \in Msgs THEN <<i>> ELSE <<>>]

LEMMA MessagesParts ==
  /\ \A s \in Seq(Items) : Messages(s) \in Seq(Msgs)
  /\ \A s, t \in Seq(Items) : Messages(s \o t) = Messages(s) \o Messages(t)
  /\ Messages(<<>>) = <<>>
  /\ \A i \in Items :
       Messages(<<i>>) = IF i = "Last" THEN <<"Text">>
                         ELSE IF i \in Msgs THEN <<i>> ELSE <<>>
  /\ \A s \in Seq(Items) :
       (\A i \in 1 .. Len(s) : s[i] = "Part") => Messages(s) = <<>>
PROOF
<1>1. Meaning \in [Items -> Seq(Msgs)]
  <2>1. "Text" \in Msgs
    BY DEF Msgs
  <2>2. \A x \in Msgs : <<x>> \in Seq(Msgs)
    OBVIOUS
  <2>3. <<"Text">> \in Seq(Msgs) /\ <<>> \in Seq(Msgs)
    BY <2>1, <2>2, EmptySeq
  <2> QED
    BY <2>2, <2>3 DEF Meaning
<1>2. \A i \in Items : Meaning[i] = IF i = "Last" THEN <<"Text">>
                                    ELSE IF i \in Msgs THEN <<i>> ELSE <<>>
  BY DEF Meaning
<1>3. \A s : Messages(s) = Expand(Meaning, s)
  <2>1. Meaning = [i \in Items |-> CASE i = "Last" -> <<"Text">>
                                     [] i \in Msgs -> <<i>>
                                     [] OTHER -> <<>>]
    BY DEF Meaning, Msgs, Items
  <2> QED
    BY <2>1 DEF Messages
<1>4. Meaning["Part"] = <<>> /\ "Part" \in Items
  BY DEF Meaning, Items, Msgs
<1>5. \A s \in Seq(Items) : Expand(Meaning, s) \in Seq(Msgs)
  BY <1>1, ExpandTypes
<1>6. \A s, t \in Seq(Items) :
        Expand(Meaning, s \o t) = Expand(Meaning, s) \o Expand(Meaning, t)
  BY <1>1, ExpandConcat
<1>7. \A i \in Items : Expand(Meaning, <<i>>) = Meaning[i]
  BY <1>1, ExpandShort
<1>8. Expand(Meaning, <<>>) = <<>>
  BY ExpandShort
<1>9. ASSUME NEW s \in Seq(Items), \A i \in 1 .. Len(s) : s[i] = "Part"
      PROVE  Expand(Meaning, s) = <<>>
  <2>1. \A i \in 1 .. Len(s) : Meaning[s[i]] = <<>>
    BY <1>4, <1>9
  <2> QED
    BY <1>1, <2>1, ExpandNone
<1> QED
  BY <1>2, <1>3, <1>5, <1>6, <1>7, <1>8, <1>9

\* What the messages show of everything the peer sent, whatever was lost:
\* while the loop runs vec holds parts of one message that is not whole.
MessagesInv ==
  /\ Messages(Inbound) = Messages(peerSent)
  /\ Alive => Messages(vec) = <<>>

LEMMA VecStep ==
  ASSUME TypeOK, MessagesInv, [Next]_vars, Alive'
  PROVE  Messages(vec') = <<>>
PROOF
<1> USE DEF taskVars, turnVars, appVars, outVars, peerVars, inVars, endVars
<1>1. Messages(<<>>) = <<>>
  BY MessagesParts
<1>2. ASSUME Alive, vec' = vec \/ vec' = <<>>
      PROVE  Messages(vec') = <<>>
  BY <1>1, <1>2 DEF MessagesInv
<1>3. ASSUME NEW b \in Seq(Items), DecodeFrames(b), Opened
      PROVE  Messages(vec') = <<>>
  <2>1. ASSUME {i \in 1 .. Len(b) : b[i] # "Part"} = {}, ReadOn(b)
        PROVE  Messages(vec') = <<>>
    <3>1. \A i \in 1 .. Len(b) : b[i] = "Part"
      BY <2>1
    <3>2. Messages(b) = <<>> /\ Messages(vec) = <<>>
      BY <1>3, <3>1, MessagesParts DEF MessagesInv, Opened, Alive
    <3>3. Messages(vec \o b) = Messages(vec) \o Messages(b)
      BY MessagesParts DEF TypeOK
    <3>4. <<>> \o <<>> = <<>>
      BY EmptySeq, ConcatEmptySeq
    <3> QED
      BY <2>1, <3>2, <3>3, <3>4 DEF ReadOn
  <2>2. ASSUME NEW v, HandleMessage(v)
        PROVE  vec' = <<>>
    BY <2>2 DEF HandleMessage, Callback, OnClose, NoMessage, LoopTop, Alive
  <2> QED
    BY <1>1, <1>3, <2>1, <2>2 DEF DecodeFrames
<1>4. CASE Decode
  BY <1>3, <1>4 DEF Decode, TypeOK
<1>5. ASSUME NEW k \in 1 .. Len(wireIn), Read(k)
      PROVE  Messages(vec') = <<>>
  <2>1. SubSeq(wireIn, 1, k) \in Seq(Items)
    BY ReadSplits DEF TypeOK
  <2> QED
    BY <1>3, <1>5, <2>1 DEF Read
<1>6. ASSUME NEW k \in 1 .. Len(wireIn), ReadHead(k)
      PROVE  Messages(vec') = <<>>
  BY <1>2, <1>6 DEF ReadHead, Shaking, Alive, Response, Request, LoopTop
<1>7. CASE \/ PeerSend \/ PeerShutdown \/ AppSend \/ AppDrop \/ Tick \/ UNCHANGED vars
           \/ TryAccept \/ OnOpen \/ Recv \/ OnLogic
  BY <1>2, <1>7 DEF PeerSend, PeerShutdown, AppSend, AppDrop, Tick, vars, TryAccept, OnOpen,
                    Recv, OnLogic, LoopTop, Alive
<1>8. CASE \/ AcceptFails \/ BuildRequest \/ ShakeTimesOut \/ ReadTimesOut \/ ReadEof
           \/ SocketError \/ CloseAnyway \/ RecvNone \/ ReportError
  BY <1>2, <1>8 DEF AcceptFails, BuildRequest, ShakeTimesOut, ReadTimesOut, ReadEof,
                    SocketError, CloseAnyway, RecvNone, ReportError, Leave, Fails, Alive
<1>9. ASSUME NEW k \in 1 .. Len(write), WriteSome(k) \/ DrainWrite(k)
      PROVE  Messages(vec') = <<>>
  BY <1>2, <1>9 DEF WriteSome, DrainWrite, Reading, Shaking, Opened, Closing, Alive
<1> QED
  BY <1>4, <1>5, <1>6, <1>7, <1>8, <1>9 DEF Next, Peer, App, Outside, Task, Finished

LEMMA MessagesStep ==
  ASSUME TypeOK, ShakeClean, MessagesInv, [Next]_vars
  PROVE  MessagesInv'
PROOF
<1>0. /\ consumed \in Seq(Items) /\ vec \in Seq(Items) /\ read \in Seq(Items)
      /\ wireIn \in Seq(Items) /\ peerSent \in Seq(Items)
      /\ consumed \o vec \in Seq(Items)
      /\ (consumed \o vec) \o read \in Seq(Items)
      /\ Inbound \in Seq(Items)
  BY ConcatProperties DEF TypeOK, Inbound
<1>1. ASSUME Kept
      PROVE  Messages(Inbound') = Messages(peerSent')
  BY <1>1 DEF Kept, MessagesInv
<1>2. ASSUME NEW m \in Items, Arrives(m)
      PROVE  Messages(Inbound') = Messages(peerSent')
  <2>1. <<m>> \in Seq(Items)
    OBVIOUS
  <2>2. /\ Messages(Inbound \o <<m>>) = Messages(Inbound) \o Messages(<<m>>)
        /\ Messages(peerSent \o <<m>>) = Messages(peerSent) \o Messages(<<m>>)
    BY <1>0, <2>1, MessagesParts
  <2> QED
    BY <1>2, <2>2 DEF Arrives, MessagesInv
<1>3. ASSUME Lost
      PROVE  Messages(Inbound') = Messages(peerSent')
  <2>1. /\ Messages(consumed \o vec) = Messages(consumed) \o Messages(vec)
        /\ Messages((consumed \o vec) \o read) = Messages(consumed \o vec) \o Messages(read)
        /\ Messages(Inbound) = Messages((consumed \o vec) \o read) \o Messages(wireIn)
        /\ Messages(consumed \o read) = Messages(consumed) \o Messages(read)
    BY <1>0, MessagesParts DEF Inbound
  <2>2. Messages(vec) = <<>>
    BY <1>3 DEF Lost, MessagesInv, Alive
  <2>3. Messages(consumed) \o <<>> = Messages(consumed)
    BY <1>0, MessagesParts, ConcatEmptySeq
  <2>4. consumed' = consumed /\ vec' = <<>> /\ read' = read /\ wireIn' = wireIn
    BY <1>3 DEF Lost
  <2>5. consumed \o <<>> = consumed
    BY <1>0, ConcatEmptySeq
  <2>6. Inbound' = (consumed \o read) \o wireIn
    BY <2>4, <2>5 DEF Inbound
  <2>7. consumed \o read \in Seq(Items)
    BY <1>0, ConcatProperties
  <2>8. Messages((consumed \o read) \o wireIn) = Messages(consumed \o read) \o Messages(wireIn)
    BY <1>0, <2>7, MessagesParts
  <2>9. Messages(Inbound') = Messages(Inbound)
    BY <2>1, <2>2, <2>3, <2>6, <2>8
  <2> QED
    BY <1>3, <2>9 DEF Lost, MessagesInv
<1>4. Messages(Inbound') = Messages(peerSent')
  BY <1>1, <1>2, <1>3, InboundMoves
<1> QED
  BY <1>4, VecStep DEF MessagesInv, Messages

\* on_open is called when the handshake is done, before any frame is looked at.
ReadyInv ==
  /\ pc \in {"accept", "open"} => ~ready
  /\ (pc = "select" /\ state = "Open") => ready

LEMMA ReadyStep ==
  ASSUME ShakeClean, ReadyInv, [Next]_vars
  PROVE  ReadyInv'
PROOF
<1> USE DEF ReadyInv, taskVars, turnVars, appVars, outVars, peerVars, inVars, endVars
<1>1. CASE \/ PeerSend \/ PeerShutdown \/ AppSend \/ AppDrop \/ Tick \/ UNCHANGED vars
  BY <1>1 DEF PeerSend, PeerShutdown, AppSend, AppDrop, Tick, vars
<1>2. CASE TryAccept \/ AcceptFails \/ OnOpen \/ BuildRequest
  BY <1>2 DEF TryAccept, AcceptFails, OnOpen, BuildRequest, LoopTop, Leave, Fails,
              IsReady, ShakeClean
<1>3. CASE ShakeTimesOut \/ ReadTimesOut \/ ReadEof \/ SocketError \/ CloseAnyway
  BY <1>3 DEF ShakeTimesOut, ReadTimesOut, ReadEof, SocketError, CloseAnyway, Leave, Fails
<1>4. CASE Recv \/ RecvNone \/ OnLogic \/ ReportError
  BY <1>4 DEF Recv, RecvNone, OnLogic, ReportError, LoopTop, Leave, Fails, IsReady
<1>5. ASSUME NEW k \in 1 .. Len(wireIn), ReadHead(k)
      PROVE  ReadyInv'
  BY <1>5 DEF ReadHead, Shaking, Response, Request, LoopTop, Fails, IsReady
<1>6. ASSUME NEW b, DecodeFrames(b), Opened, UNCHANGED ready
      PROVE  ReadyInv'
  BY <1>6 DEF DecodeFrames, Opened, ReadOn, HandleMessage, Callback, OnClose,
              NoMessage, LoopTop, Leave, Fails, IsReady
<1>7. ASSUME NEW k \in 1 .. Len(write), WriteSome(k) \/ DrainWrite(k)
      PROVE  ReadyInv'
  BY <1>7 DEF WriteSome, DrainWrite, Closing
<1> QED
  BY <1>1, <1>2, <1>3, <1>4, <1>5, <1>6, <1>7
     DEF Next, Peer, App, Outside, Task, Finished, Decode, Read

LEMMA Stages ==
  /\ pc \in {"accept", "open"} => HandlerStage = "new"
  /\ pc = "select" => HandlerStage = IF ready THEN "open" ELSE "new"
  /\ pc = "failed" => HandlerStage = "failed"
  /\ pc = "done" => HandlerStage = "ended"
BY DEF HandlerStage

LEMMA StagesNext ==
  /\ pc' \in {"accept", "open"} => HandlerStage' = "new"
  /\ pc' = "select" => HandlerStage' = IF ready' THEN "open" ELSE "new"
  /\ pc' = "failed" => HandlerStage' = "failed"
  /\ pc' = "done" => HandlerStage' = "ended"
BY DEF HandlerStage

\* A whole message is one message of Handler's, a Close if it is a Close.
LEMMA WholeIsOne ==
  ASSUME NEW v, Whole(v)
  PROVE  /\ v \in Seq(Items)
         /\ \E m \in Msgs : Messages(v) = <<m>> /\ (v = <<"Close">> => m = "Close")
PROOF
<1>1. /\ "Text" \in Msgs /\ "Ping" \in Msgs /\ "Close" \in Msgs
      /\ "Part" \notin Msgs /\ "Last" \notin Msgs
      /\ \A i \in {"Text", "Ping", "Close", "Part", "Last"} : i \in Items
  BY DEF Msgs, Items
<1>2. \A i \in Items : <<i>> \in Seq(Items)
  OBVIOUS
<1>3. CASE v \in {<<"Text">>, <<"Ping">>, <<"Close">>}
  <2>1. PICK i \in {"Text", "Ping", "Close"} : v = <<i>>
    BY <1>3
  <2>2. Messages(<<i>>) = <<i>> /\ i \in Items /\ i \in Msgs
    BY <1>1, <2>1, MessagesParts
  <2>3. v = <<"Close">> => i = "Close"
    BY <2>1
  <2> QED
    BY <1>2, <2>1, <2>2, <2>3
<1>4. CASE v = <<"Part", "Last">>
  <2>1. v = <<"Part">> \o <<"Last">>
    BY <1>4
  <2>2. <<"Part">> \in Seq(Items) /\ <<"Last">> \in Seq(Items)
    BY <1>1, <1>2
  <2>3. Messages(v) = Messages(<<"Part">>) \o Messages(<<"Last">>)
    BY <2>1, <2>2, MessagesParts
  <2>4. Messages(<<"Part">>) = <<>> /\ Messages(<<"Last">>) = <<"Text">>
    BY <1>1, MessagesParts
  <2>5. <<>> \o <<"Text">> = <<"Text">>
    OBVIOUS
  <2>6. v # <<"Close">>
    BY <1>4
  <2> QED
    BY <1>1, <2>1, <2>2, <2>3, <2>4, <2>5, <2>6, ConcatProperties
<1> QED
  BY <1>3, <1>4 DEF Whole

\* The frames v, the first of the peer's that no callback has seen and that
\* were not lost, are handled as Handler allows.
LEMMA MessageImplements ==
  ASSUME TypeOK, NEW v \in Seq(Items), NEW r \in Seq(Items),
         Messages(peerSent) = Messages((consumed \o v) \o r),
         pc = "select", ready, UNCHANGED <<ready, peerSent>>,
         HandleMessage(v)
  PROVE  H!HNext
PROOF
<1> DEFINE P == Messages(peerSent)
           D == Messages(consumed)
           R == Messages(r)
           n == Len(D) + 1
<1>1. /\ HandlerStage = "open"
      /\ Messages(peerSent') = P
  BY Stages
<1>2. CASE NoMessage(v)
  <2>1. HandlerStage' = "failed" /\ UNCHANGED <<consumed, onClose>>
    BY <1>2, StagesNext DEF NoMessage, endVars
  <2>2. H!Fail
    BY <1>1, <2>1 DEF H!Fail, Messages
  <2> QED
    BY <2>2 DEF H!HNext
<1>3. ASSUME Whole(v), consumed' = consumed \o v,
             \/ HandlerStage' \in {"open", "failed"} /\ UNCHANGED onClose
             \/ /\ HandlerStage' = "ended" /\ v = <<"Close">>
                /\ onClose' = Append(onClose, "peer")
      PROVE  H!HNext
  <2>1. PICK m \in Msgs : Messages(v) = <<m>> /\ (v = <<"Close">> => m = "Close")
    BY <1>3, WholeIsOne
  <2>2. /\ consumed \in Seq(Items) /\ consumed \o v \in Seq(Items)
        /\ D \in Seq(Msgs) /\ R \in Seq(Msgs) /\ <<m>> \in Seq(Msgs)
    BY MessagesParts, ConcatProperties DEF TypeOK
  <2>3. /\ Messages(consumed \o v) = D \o <<m>>
        /\ P = Messages(consumed \o v) \o R
    BY <2>1, <2>2, MessagesParts
  <2> DEFINE d == D \o <<m>>
  <2>4. /\ d \in Seq(Msgs) /\ Len(d) = n /\ Len(D) \in Nat
        /\ d[n] = m
    <3>1. Len(<<m>>) = 1 /\ <<m>>[1] = m
      OBVIOUS
    <3> HIDE DEF D
    <3> QED
      BY <2>2, <3>1, ConcatProperties, LenProperties
  <2>5. Messages(consumed') = d /\ P = d \o R
    BY <1>3, <2>3
  <2> HIDE DEF d, P, D, R
  <2>6. d = SubSeq(P, 1, n)
    BY <2>2, <2>4, <2>5, FrontPart
  <2>7. /\ n \in Len(D) + 1 .. Len(P) /\ Len(D) < Len(P)
        /\ P[n] = m
    <3> HIDE DEF n
    <3>0. /\ Len(d \o R) = Len(d) + Len(R) /\ Len(R) \in Nat
          /\ \A i \in 1 .. Len(d) : (d \o R)[i] = d[i]
      BY <2>2, <2>4, FrontAgrees
    <3>1. Len(P) = n + Len(R) /\ Len(R) \in Nat /\ \A i \in 1 .. n : P[i] = d[i]
      BY <2>4, <2>5, <3>0
    <3>2. n \in Nat /\ n \in 1 .. n /\ n = Len(D) + 1
      BY <2>4 DEF n
    <3> QED
      BY <2>4, <3>1, <3>2
  <2>8. CASE HandlerStage' \in {"open", "failed"} /\ UNCHANGED onClose
    <3>1. H!Deliver
      BY <1>1, <2>5, <2>6, <2>7, <2>8 DEF H!Deliver, P, D, Messages
    <3> QED
      BY <3>1 DEF H!HNext
  <2>9. CASE /\ HandlerStage' = "ended" /\ v = <<"Close">>
             /\ onClose' = Append(onClose, "peer")
    <3>1. H!ClosedByPeer
      BY <1>1, <2>1, <2>5, <2>6, <2>7, <2>9 DEF H!ClosedByPeer, P, D, Messages
    <3> QED
      BY <3>1 DEF H!HNext
  <2> QED
    BY <1>3, <2>8, <2>9
<1>4. CASE Whole(v) /\ Callback(v)
  <2>1. HandlerStage' \in {"open", "failed"}
    BY <1>4, StagesNext DEF Callback, LoopTop, Fails
  <2> QED
    BY <1>3, <1>4, <2>1 DEF Callback
<1>5. CASE Whole(v) /\ v = <<"Close">> /\ OnClose(v)
  <2>1. HandlerStage' = "ended"
    BY <1>5, StagesNext DEF OnClose, Leave
  <2> QED
    BY <1>3, <1>5, <2>1 DEF OnClose
<1> QED
  BY <1>2, <1>4, <1>5 DEF HandleMessage

\* Decoding the buffer b, with t still in the socket, is a callback that
\* Handler allows, or nothing a handler sees.
LEMMA DecodeImplements ==
  ASSUME TypeOK, NEW b \in Seq(Items), NEW t \in Seq(Items),
         Messages(peerSent) = Messages(((consumed \o vec) \o b) \o t),
         pc = "select", ready, UNCHANGED <<ready, peerSent>>,
         DecodeFrames(b)
  PROVE  [H!HNext]_(H!handlerVars)
PROOF
<1>0. /\ consumed \in Seq(Items) /\ vec \in Seq(Items)
      /\ consumed \o vec \in Seq(Items)
  BY ConcatProperties DEF TypeOK
<1>1. CASE ReadOn(b)
  <2>1. UNCHANGED <<HandlerStage, peerSent, consumed, onClose>>
    BY <1>1 DEF ReadOn, endVars, HandlerStage
  <2> QED
    BY <2>1 DEF H!handlerVars, Messages
<1>2. ASSUME NEW n \in 1 .. Len(b), HandleMessage(vec \o SubSeq(b, 1, n))
      PROVE  H!HNext
  <2> DEFINE f == SubSeq(b, 1, n)
             g == SubSeq(b, n + 1, Len(b))
             v == vec \o f
             r == g \o t
  <2>1. f \in Seq(Items) /\ g \in Seq(Items) /\ f \o g = b
    BY ReadSplits
  <2> HIDE DEF f, g
  <2>2. v \in Seq(Items) /\ r \in Seq(Items) /\ consumed \o v \in Seq(Items)
    BY <1>0, <2>1, ConcatProperties
  <2>3. ((consumed \o vec) \o b) \o t = (consumed \o v) \o r
    <3> DEFINE got == consumed \o vec
               all == consumed \o v
    <3>1. /\ \A x, y \in Seq(Items) : (consumed \o x) \o y = consumed \o (x \o y)
          /\ \A x, y \in Seq(Items) : (got \o x) \o y = got \o (x \o y)
          /\ \A x, y \in Seq(Items) : (all \o x) \o y = all \o (x \o y)
      BY <1>0, <2>2, ItemsAssociative
    <3>2. got \o f = all
      BY <1>0, <2>1, <3>1
    <3>3. got \o (f \o g) = (got \o f) \o g
      BY <2>1, <3>1
    <3>4. (all \o g) \o t = all \o r
      BY <2>1, <3>1
    <3> HIDE DEF got, all, r, v
    <3>5. (got \o b) \o t = all \o r
      BY <2>1, <3>2, <3>3, <3>4
    <3> QED
      BY <3>5 DEF got, all
  <2>4. Messages(peerSent) = Messages((consumed \o v) \o r)
    BY <2>3
  <2>5. HandleMessage(v)
    BY <1>2 DEF f
  <2> HIDE DEF v, r
  <2> QED
    BY <2>2, <2>4, <2>5, MessageImplements
<1> QED
  BY <1>1, <1>2 DEF DecodeFrames

\* Reading the head of the handshake: the handler hears of it when it fails.
LEMMA HeadImplements ==
  ASSUME TypeOK, ShakeClean, NEW k \in 1 .. Len(wireIn), ReadHead(k)
  PROVE  [H!HNext]_(H!handlerVars)
PROOF
<1> DEFINE b == SubSeq(wireIn, 1, k)
<1>1. /\ Response(b) \/ Request(b)
      /\ UNCHANGED <<ready, peerSent, onClose>>
      /\ pc = "select"
      /\ consumed = <<>>
  BY DEF ReadHead, Shaking, ShakeClean
<1> HIDE DEF b
<1>2. Messages(consumed') = Messages(consumed)
  <2>1. consumed' = consumed \/ consumed' = <<"Head">>
    BY <1>1 DEF Response, Request
  <2>2. Messages(<<>>) = <<>> /\ Messages(<<"Head">>) = <<>>
    <3>1. "Head" \in Items /\ "Head" \notin Msgs /\ "Head" # "Last"
      BY DEF Items, Heads, Msgs
    <3> QED
      BY <3>1, MessagesParts
  <2> QED
    BY <1>1, <2>1, <2>2
<1>3. HandlerStage' = "failed" \/ HandlerStage' = HandlerStage
  BY <1>1, Stages, StagesNext DEF Response, Request, LoopTop, Fails
<1>4. HandlerStage \in {"new", "open"}
  BY <1>1, Stages
<1>5. H!Fail \/ UNCHANGED H!handlerVars
  BY <1>1, <1>2, <1>3, <1>4 DEF H!Fail, H!handlerVars, Messages
<1> QED
  BY <1>5 DEF H!HNext

LEMMA StepImplements ==
  ASSUME TypeOK, ShakeClean, MessagesInv, ReadyInv, [Next]_vars
  PROVE  [H!HNext]_(H!handlerVars)
PROOF
<1> USE DEF taskVars, turnVars, appVars, outVars, peerVars, inVars, endVars
<1>0. /\ consumed \in Seq(Items) /\ vec \in Seq(Items) /\ read \in Seq(Items)
      /\ wireIn \in Seq(Items) /\ peerSent \in Seq(Items)
      /\ consumed \o vec \in Seq(Items)
      /\ Messages(peerSent) = Messages(((consumed \o vec) \o read) \o wireIn)
  BY ConcatProperties DEF TypeOK, MessagesInv, Inbound
<1>1. CASE PeerSend
  <2>1. PICK i \in Items : peerSent' = Append(peerSent, i)
    BY <1>1 DEF PeerSend, Items, Heads
  <2>2. UNCHANGED <<HandlerStage, consumed, onClose>>
    BY <1>1 DEF PeerSend, HandlerStage
  <2>3. <<i>> \in Seq(Items) /\ Append(peerSent, i) = peerSent \o <<i>>
    BY <1>0, AppendIsConcat
  <2>4. Messages(peerSent') = Messages(peerSent) \o Messages(<<i>>)
    BY <1>0, <2>1, <2>3, MessagesParts
  <2>5. Messages(peerSent) \in Seq(Msgs)
    BY <1>0, MessagesParts
  <2>6. CASE Messages(<<i>>) = <<>>
    <3>1. Messages(peerSent') = Messages(peerSent)
      BY <2>4, <2>5, <2>6, ConcatEmptySeq
    <3> QED
      BY <2>2, <3>1 DEF H!handlerVars, Messages
  <2>7. ASSUME NEW m \in Msgs, Messages(<<i>>) = <<m>>
        PROVE  H!HNext
    <3>1. Messages(peerSent') = Append(Messages(peerSent), m)
      BY <2>4, <2>5, <2>7, AppendIsConcat
    <3>2. H!Send
      BY <2>2, <3>1 DEF H!Send, Messages
    <3> QED
      BY <3>2 DEF H!HNext
  <2>8. "Text" \in Msgs
    BY DEF Msgs
  <2> QED
    BY <2>6, <2>7, <2>8, MessagesParts
<1>2. CASE Decode
  BY <1>0, <1>2, DecodeImplements DEF Decode, Opened, ReadyInv
<1>3. ASSUME NEW k \in 1 .. Len(wireIn), Read(k)
      PROVE  [H!HNext]_(H!handlerVars)
  <2> DEFINE b == SubSeq(wireIn, 1, k)
             t == SubSeq(wireIn, k + 1, Len(wireIn))
             got == consumed \o vec
  <2>1. b \in Seq(Items) /\ t \in Seq(Items) /\ b \o t = wireIn
    BY <1>0, ReadSplits
  <2>2. /\ DecodeFrames(b) /\ read = <<>> /\ pc = "select" /\ ready
        /\ UNCHANGED <<ready, peerSent>>
    BY <1>3 DEF Read, Opened, ReadyInv
  <2> HIDE DEF b, t
  <2>3. got \o read = got
    BY <1>0, <2>2, ConcatEmptySeq
  <2>4. (got \o b) \o t = got \o (b \o t)
    <3>1. \A x, y \in Seq(Items) : (got \o x) \o y = got \o (x \o y)
      BY <1>0, ItemsAssociative
    <3> QED
      BY <2>1, <3>1
  <2>5. Messages(peerSent) = Messages((got \o b) \o t)
    BY <1>0, <2>1, <2>3, <2>4
  <2> QED
    BY <2>1, <2>2, <2>5, DecodeImplements
<1>4. ASSUME NEW k \in 1 .. Len(wireIn), ReadHead(k)
      PROVE  [H!HNext]_(H!handlerVars)
  BY <1>4, HeadImplements
<1>5. CASE OnOpen
  <2>1. /\ HandlerStage = "new"
        /\ HandlerStage' \in {"open", "failed"}
        /\ UNCHANGED <<peerSent, consumed, onClose>>
    BY <1>5, Stages, StagesNext DEF OnOpen, Fails
  <2>2. H!Open \/ H!Fail
    BY <2>1 DEF H!Open, H!Fail, Messages
  <2> QED
    BY <2>2 DEF H!HNext
<1>6. CASE ReportError
  <2>1. /\ HandlerStage = "failed"
        /\ HandlerStage' = "ended"
        /\ onClose' = Append(onClose, "Error")
        /\ UNCHANGED <<peerSent, consumed>>
    BY <1>6, Stages, StagesNext DEF ReportError
  <2>2. H!ReportError
    BY <2>1 DEF H!ReportError, Messages
  <2> QED
    BY <2>2 DEF H!HNext
<1>7. ASSUME HandlerStage \in {"new", "open"}, UNCHANGED <<peerSent, consumed, onClose>>,
             HandlerStage' \in {HandlerStage, "failed", "ended"}
      PROVE  [H!HNext]_(H!handlerVars)
  <2>1. H!Fail \/ H!Return \/ UNCHANGED H!handlerVars
    BY <1>7 DEF H!Fail, H!Return, H!handlerVars, Messages
  <2> QED
    BY <2>1 DEF H!HNext
<1>8. CASE OnLogic \/ Recv \/ TryAccept \/ BuildRequest
  <2>1. pc \in {"accept", "select"} /\ UNCHANGED <<peerSent, consumed, onClose, ready>>
    BY <1>8 DEF OnLogic, Recv, TryAccept, BuildRequest
  <2>2. pc' \in {"open", "select", "failed"}
    BY <1>8, <2>1 DEF OnLogic, Recv, TryAccept, BuildRequest, LoopTop, Fails
  <2>3. (pc' = "open" => ~ready) /\ (pc = "accept" => ~ready)
    BY <1>8 DEF OnLogic, Recv, TryAccept, BuildRequest, LoopTop, Fails, ReadyInv
  <2>4. HandlerStage = IF ready THEN "open" ELSE "new"
    BY <2>1, <2>3, Stages
  <2>5. HandlerStage' \in {HandlerStage, "failed"}
    BY <2>1, <2>2, <2>3, <2>4, StagesNext
  <2> QED
    BY <1>7, <2>1, <2>4, <2>5
<1>9. CASE \/ AcceptFails \/ ShakeTimesOut \/ ReadTimesOut \/ ReadEof \/ SocketError
           \/ CloseAnyway \/ RecvNone
  <2>1. pc \in {"accept", "select"} /\ UNCHANGED <<peerSent, consumed, onClose>>
    BY <1>9 DEF AcceptFails, ShakeTimesOut, ReadTimesOut, ReadEof, SocketError, CloseAnyway,
                RecvNone, Reading, Shaking, Opened, Closing
  <2>2. pc' \in {"failed", "done"}
    BY <1>9 DEF AcceptFails, ShakeTimesOut, ReadTimesOut, ReadEof, SocketError, CloseAnyway,
                RecvNone, Leave, Fails
  <2>3. HandlerStage \in {"new", "open"} /\ HandlerStage' \in {"failed", "ended"}
    BY <2>1, <2>2, Stages, StagesNext
  <2> QED
    BY <1>7, <2>1, <2>3
<1>10. ASSUME NEW k \in 1 .. Len(write), WriteSome(k) \/ DrainWrite(k)
       PROVE  [H!HNext]_(H!handlerVars)
  <2>1. pc = "select" /\ UNCHANGED <<peerSent, consumed, onClose, ready>>
    BY <1>10 DEF WriteSome, DrainWrite, Reading, Shaking, Opened, Closing
  <2>2. pc' \in {"select", "done"}
    BY <1>10, <2>1 DEF WriteSome, DrainWrite
  <2>3. /\ HandlerStage \in {"new", "open"}
        /\ HandlerStage' \in {HandlerStage, "ended"}
    BY <2>1, <2>2, Stages, StagesNext
  <2> QED
    BY <1>7, <2>1, <2>3
<1>11. CASE PeerShutdown \/ AppSend \/ AppDrop \/ Tick \/ UNCHANGED vars
  <2>1. UNCHANGED <<pc, ready, peerSent, consumed, onClose>>
    BY <1>11 DEF PeerShutdown, AppSend, AppDrop, Tick, vars
  <2> QED
    BY <2>1 DEF H!handlerVars, HandlerStage, Messages
<1> QED
  BY <1>1, <1>2, <1>3, <1>4, <1>5, <1>6, <1>8, <1>9, <1>10, <1>11
     DEF Next, Peer, App, Outside, Task, Finished

\* Why every step of the connection is one of Handler's.
RefineInv == ShakeClean /\ MessagesInv /\ ReadyInv

LEMMA RefineInvariant == Spec => []RefineInv
PROOF
<1>1. Init => RefineInv
  <2>1. <<>> \in Seq(Items)
    BY EmptySeq
  <2>2. ((<<>> \o <<>>) \o <<>>) \o <<>> = <<>>
    BY <2>1, ConcatEmptySeq
  <2> QED
    BY <2>2, MessagesParts
       DEF Init, RefineInv, ShakeClean, MessagesInv, Inbound, ReadyInv
<1>2. TypeOK /\ RefineInv /\ [Next]_vars => RefineInv'
  BY ShakeCleanStep, MessagesStep, ReadyStep DEF RefineInv
<1> QED
  BY <1>1, <1>2, TypeCorrect, PTL DEF Spec

\* Through handshakes that fail, fragments that a branch of the loop throws
\* away and closings that expire, the handler is called the way Handler says:
\* opened once and never before the handshake, given a prefix of the messages
\* the peer sent, closed last and at most once, and told of every error.
THEOREM Refinement == Spec => RefinesHandler
PROOF
<1>1. Init => H!HInit
  BY Stages, MessagesParts DEF Init, H!HInit, Messages
<1>2. TypeOK /\ RefineInv /\ [Next]_vars => [H!HNext]_(H!handlerVars)
  BY StepImplements DEF RefineInv
<1> QED
  BY <1>1, <1>2, TypeCorrect, RefineInvariant, PTL DEF Spec, RefinesHandler, H!HSpec

-----------------------------------------------------------------------------
(* What the application may rely on.                                       *)

\* Handler's steps keep Handler's promise.
LEMMA PromiseStep ==
  ASSUME H!Promise, [H!HNext]_(H!handlerVars)
  PROVE  H!Promise'
PROOF
<1> DEFINE P == Messages(peerSent)
           D == Messages(consumed)
<1>1. /\ P \in Seq(Msgs) /\ Len(P) \in Nat
      /\ P' = Messages(peerSent') /\ D' = Messages(consumed')
  BY LenProperties DEF H!Promise
<1>2. PICK n \in 0 .. Len(P) : D = SubSeq(P, 1, n)
  BY DEF H!Promise
<1>3. /\ HandlerStage = "new" => D = <<>>
      /\ \/ onClose = <<>>
         \/ onClose = <<"Error">> /\ HandlerStage = "ended"
         \/ /\ onClose = <<"peer">> /\ HandlerStage = "ended"
            /\ D # <<>> /\ D[Len(D)] = "Close"
  BY DEF H!Promise
<1>4. Append(<<>>, "peer") = <<"peer">> /\ Append(<<>>, "Error") = <<"Error">>
  OBVIOUS
<1> DEFINE Holds ==
             /\ P' \in Seq(Msgs)
             /\ \E k \in 0 .. Len(P') : D' = SubSeq(P', 1, k)
             /\ HandlerStage' = "new" => D' = <<>>
             /\ \/ onClose' = <<>>
                \/ onClose' = <<"Error">> /\ HandlerStage' = "ended"
                \/ /\ onClose' = <<"peer">> /\ HandlerStage' = "ended"
                   /\ D' # <<>> /\ D'[Len(D')] = "Close"
<1>5. Holds => H!Promise'
  BY DEF H!Promise, Messages
<1>6. /\ H!Send => /\ \E m \in Msgs : P' = Append(P, m)
                    /\ UNCHANGED <<HandlerStage, onClose>> /\ D' = D
      /\ H!Deliver => /\ HandlerStage = "open" /\ HandlerStage' \in {"open", "failed"}
                       /\ P' = P /\ onClose' = onClose
                       /\ \E k \in Len(D) + 1 .. Len(P) : D' = SubSeq(P, 1, k)
      /\ H!ClosedByPeer => /\ HandlerStage = "open" /\ HandlerStage' = "ended"
                            /\ Len(D) < Len(P) /\ P[Len(D) + 1] = "Close"
                            /\ D' = SubSeq(P, 1, Len(D) + 1) /\ P' = P
                            /\ onClose' = Append(onClose, "peer")
      /\ H!ReportError => /\ HandlerStage = "failed" /\ HandlerStage' = "ended"
                           /\ P' = P /\ D' = D /\ onClose' = Append(onClose, "Error")
      /\ H!Open \/ H!Fail \/ H!Return
           => /\ HandlerStage # "ended" /\ HandlerStage' # "new"
              /\ P' = P /\ D' = D /\ onClose' = onClose
      /\ UNCHANGED H!handlerVars
           => P' = P /\ D' = D /\ UNCHANGED <<HandlerStage, onClose>>
  BY DEF H!Send, H!Deliver, H!ClosedByPeer, H!ReportError, H!Open, H!Fail, H!Return,
         H!handlerVars, Messages
<1> HIDE DEF P, D
<1>7. Len(D) \in Nat /\ Len(D) <= Len(P)
  <2>1. CASE n = 0
    BY <1>1, <1>2, <2>1, FrontNone
  <2>2. CASE n \in 1 .. Len(P)
    BY <1>1, <1>2, <2>2, PrefixEnd
  <2> QED
    BY <1>1, <2>1, <2>2
<1>8. CASE H!Send
  <2>1. PICK m \in Msgs : P' = Append(P, m)
    BY <1>6, <1>8
  <2>2. P' \in Seq(Msgs) /\ Len(P') = Len(P) + 1
    BY <1>1, <2>1, AppendProperties
  <2>3. D' = SubSeq(P', 1, n) /\ n \in 0 .. Len(P')
    BY <1>1, <1>2, <1>6, <1>8, <2>1, <2>2, PrefixStays
  <2> QED
    BY <1>3, <1>5, <1>6, <1>8, <2>2, <2>3
<1>9. CASE H!Deliver
  <2>1. PICK k \in Len(D) + 1 .. Len(P) : D' = SubSeq(P, 1, k)
    BY <1>6, <1>9
  <2>2. k \in 0 .. Len(P)
    BY <1>7
  <2> QED
    BY <1>1, <1>3, <1>5, <1>6, <1>9, <2>1, <2>2
<1>10. CASE H!ClosedByPeer
  <2> DEFINE k == Len(D) + 1
  <2>1. k \in 1 .. Len(P) /\ k \in 0 .. Len(P)
    BY <1>1, <1>6, <1>7, <1>10
  <2>2. P[k] = "Close" /\ D' = SubSeq(P, 1, k) /\ P' = P
    BY <1>6, <1>10
  <2> HIDE DEF k
  <2>3. D' # <<>> /\ D'[Len(D')] = "Close"
    BY <1>1, <2>1, <2>2, PrefixEnd
  <2>4. onClose' = <<"peer">>
    BY <1>3, <1>4, <1>6, <1>10
  <2> QED
    BY <1>1, <1>5, <1>6, <1>10, <2>1, <2>2, <2>3, <2>4
<1>11. CASE H!ReportError
  BY <1>1, <1>2, <1>3, <1>4, <1>5, <1>6, <1>11
<1>12. CASE H!Open \/ H!Fail \/ H!Return
  BY <1>1, <1>2, <1>3, <1>5, <1>6, <1>12
<1>13. CASE UNCHANGED H!handlerVars
  BY <1>1, <1>2, <1>3, <1>5, <1>6, <1>13
<1> QED
  BY <1>8, <1>9, <1>10, <1>11, <1>12, <1>13 DEF H!HNext

\* The handler of a WebSocket connection hears a prefix of the messages the
\* peer sent, nothing before on_open, and one on_close at most: with the
\* peer's code right behind the peer's Close, or with an error, then nothing.
THEOREM PromiseKept == Spec => []H!Promise
PROOF
<1>1. ASSUME Init
      PROVE  H!Promise
  <2>1. /\ Messages(peerSent) = <<>> /\ Messages(consumed) = <<>>
        /\ onClose = <<>>
    BY <1>1, MessagesParts DEF Init
  <2>2. <<>> \in Seq(Msgs)
    BY EmptySeq
  <2>3. 0 \in 0 .. Len(<<>>) /\ <<>> = SubSeq(<<>>, 1, 0)
    BY FrontNone
  <2> QED
    BY <2>1, <2>2, <2>3 DEF H!Promise, Messages
<1>2. TypeOK /\ RefineInv /\ H!Promise /\ [Next]_vars => H!Promise'
  BY StepImplements, PromiseStep DEF RefineInv
<1> QED
  BY <1>1, <1>2, TypeCorrect, RefineInvariant, PTL DEF Spec

\* Once a WebSocket connection has ended no callback is called again: neither its
\* task, whichever branch was about to complete, nor what still arrives
\* changes what the handler has heard.
THEOREM FinalKept == Spec => H!Final
PROOF
<1>1. ASSUME HandlerStage = "ended", [H!HNext]_(H!handlerVars)
      PROVE  UNCHANGED <<HandlerStage, Messages(consumed), onClose>>
  BY <1>1 DEF H!HNext, H!Send, H!Open, H!Deliver, H!ClosedByPeer, H!Fail,
              H!ReportError, H!Return, H!handlerVars
<1>2. TypeOK /\ RefineInv /\ [Next]_vars
        => [HandlerStage = "ended"
              => UNCHANGED <<HandlerStage, Messages(consumed), onClose>>]_(H!handlerVars)
  BY <1>1, StepImplements DEF RefineInv
<1> QED
  BY <1>2, TypeCorrect, RefineInvariant, PTL DEF Spec, H!Final
=============================================================================

--------------------------- MODULE StreamConnProofs ---------------------------
(***************************************************************************)
(* Theorems about StreamConn, for every queue size, buffer limit, timeout  *)
(* and bound: type correctness, that nothing is lost, repeated or          *)
(* reordered on its way to the handler or from the application, what       *)
(* answers and closes promise, and that the connection implements Handler. *)
(***************************************************************************)
EXTENDS StreamConn, SeqLemmas, FiniteSetTheorems, TLAPS

-----------------------------------------------------------------------------
(* The read buffer.                                                        *)

\* decode_message takes a part of the read buffer off its front.
LEMMA DecodeSplits ==
  ASSUME NEW b \in Seq(Items), b # <<>>
  PROVE  /\ Decoded(b) \in Seq(Items)
         /\ Rest(b) \in Seq(Items)
         /\ Decoded(b) \o Rest(b) = b
BY HeadSplits, ConcatEmptySeq, EmptySeq DEF Decoded, Rest

-----------------------------------------------------------------------------
(* Type correctness.                                                       *)

LEMMA FrameType ==
  ASSUME NEW m \in Frames
  PROVE  /\ FrameOf(m) \in Seq(Bytes)
         /\ Len(FrameOf(m)) = FrameSize[m]
         /\ FrameSize[m] \in Nat \ {0}
PROOF
<1>1. FrameSize[m] \in Nat \ {0}
  BY StreamAssumption
<1>2. \A i \in 1 .. FrameSize[m] :
        (IF i = FrameSize[m] THEN m ELSE "Part") \in Bytes
  BY DEF Bytes
<1> QED
  BY <1>1, <1>2 DEF FrameOf

LEMMA EncodeType ==
  \A m : Encode(m) \in Seq(Bytes)
PROOF
<1> TAKE m
<1>1. CASE m \in Frames
  BY <1>1, FrameType, EmptySeq DEF Encode
<1>2. CASE m \notin Frames
  BY <1>2, EmptySeq DEF Encode
<1> QED
  BY <1>1, <1>2

\* The frames that end in a sequence of bytes: those that end in its parts,
\* and of the bytes of one frame that frame.
WholeMap == [b \in Bytes |-> IF b = "Part" THEN <<>> ELSE <<b>>]

LEMMA WholeTypes ==
  /\ WholeMap \in [Bytes -> Seq(Frames)]
  /\ \A s : Whole(s) = Expand(WholeMap, s)
  /\ \A s \in Seq(Bytes) : Whole(s) \in Seq(Frames)
PROOF
<1>1. \A b \in Bytes : (IF b = "Part" THEN <<>> ELSE <<b>>) \in Seq(Frames)
  BY EmptySeq DEF Bytes
<1>2. WholeMap \in [Bytes -> Seq(Frames)]
  BY <1>1 DEF WholeMap
<1>3. \A s : Whole(s) = Expand(WholeMap, s)
  BY DEF Whole, WholeMap
<1> HIDE DEF WholeMap
<1>4. \A s \in Seq(Bytes) : Expand(WholeMap, s) \in Seq(Frames)
  BY <1>2, ExpandTypes
<1> QED
  BY <1>2, <1>3, <1>4

LEMMA WholeParts ==
  /\ Whole(<<>>) = <<>>
  /\ \A s, t \in Seq(Bytes) : Whole(s \o t) = Whole(s) \o Whole(t)
PROOF
<1>1. Expand(WholeMap, <<>>) = <<>>
  BY ExpandShort
<1>2. \A s, t \in Seq(Bytes) :
        Expand(WholeMap, s \o t) = Expand(WholeMap, s) \o Expand(WholeMap, t)
  <2>1. WholeMap \in [Bytes -> Seq(Frames)]
    BY WholeTypes
  <2> QED
    BY <2>1, ExpandConcat, SMTT(30)
<1> QED
  BY <1>1, <1>2, WholeTypes

LEMMA WholeFrame ==
  ASSUME NEW m \in Frames
  PROVE  Whole(FrameOf(m)) = <<m>>
PROOF
<1> DEFINE u == FrameOf(m)
           n == FrameSize[m] - 1
           v == SubSeq(u, 1, n)
<1>1. u \in Seq(Bytes) /\ n \in Nat /\ Len(u) = n + 1
  BY FrameType
<1>2. u[n + 1] = m /\ \A i \in 1 .. n : u[i] = "Part"
  <2>1. FrameSize[m] \in Nat \ {0}
    BY FrameType
  <2>2. \A i \in 1 .. FrameSize[m] :
          u[i] = IF i = FrameSize[m] THEN m ELSE "Part"
    BY DEF FrameOf
  <2> QED
    BY <2>1, <2>2
<1> HIDE DEF u, n
<1>3. v \in Seq(Bytes) /\ Len(v) = n /\ u = Append(v, m)
  BY <1>1, <1>2, LastSplits
<1>4. \A i \in 1 .. n : v[i] = "Part"
  BY <1>1, <1>2, <1>3
<1> HIDE DEF v
<1>5. m \in Bytes /\ WholeMap[m] = <<m>> /\ WholeMap["Part"] = <<>>
  BY DEF WholeMap, Bytes, Frames
<1>6. Expand(WholeMap, v) = <<>>
  BY <1>3, <1>4, <1>5, WholeTypes, ExpandNone
<1>7. Expand(WholeMap, Append(v, m)) = Expand(WholeMap, v) \o WholeMap[m]
  BY <1>3, <1>5, WholeTypes, ExpandAppend
<1>8. Whole(u) = <<>> \o <<m>>
  BY <1>3, <1>5, <1>6, <1>7, WholeTypes
<1>9. <<m>> \in Seq(Frames)
  OBVIOUS
<1> QED
  BY <1>8, <1>9, ConcatEmptySeq DEF u

\* The frames of what encode_message adds: one, or none.
LEMMA WholeEncode ==
  \A m : Whole(Encode(m)) =
           IF m \in Frames /\ (conf.raw => m = "Text") THEN <<m>> ELSE <<>>
BY WholeFrame, WholeParts DEF Encode

\* What the loop does to the task's own variables keeps their types.
LEMMA LoopTopTypes ==
  ASSUME NEW w \in Seq(Bytes), LoopTop(w)
  PROVE  /\ pc' = "select"
         /\ timer' \in Nat
         /\ armed' \in BOOLEAN
         /\ write' \in Seq(Bytes)
PROOF
<1>1. Room(w) \in BOOLEAN
  BY DEF Room
<1>2. armed' \in BOOLEAN
  BY <1>1 DEF LoopTop
<1> QED
  BY <1>2 DEF LoopTop

LEMMA ExitTypes ==
  ASSUME TypeOK, NEW e \in Ends, Leave(e) \/ Fails(e)
  PROVE  /\ pc' \in {"failed", "done"}
         /\ end' \in Ends
         /\ timer' \in Nat
         /\ armed' \in BOOLEAN
         /\ write' \in Seq(Bytes)
BY DEF TypeOK, Leave, Fails

LEMMA HandleTypes ==
  ASSUME TypeOK, NEW b \in Seq(Items), b # <<>>, HandleMessage(b)
  PROVE  /\ pc' \in {"select", "failed", "done"}
         /\ end' \in Ends
         /\ timer' \in Nat /\ armed' \in BOOLEAN
         /\ write' \in Seq(Bytes)
         /\ read' \in Seq(Items)
         /\ delivered' \in Seq(Items)
         /\ onClose' \in Seq({"peer", "Error"})
PROOF
<1>1. /\ delivered \o Decoded(b) \in Seq(Items)
      /\ Rest(b) \in Seq(Items)
  BY DecodeSplits, ConcatProperties DEF TypeOK
<1>2. /\ write \in Seq(Bytes)
      /\ write \o Encode("Pong") \in Seq(Bytes)
  BY EncodeType, ConcatProperties DEF TypeOK
<1>3. /\ onClose \in Seq({"peer", "Error"})
      /\ Append(onClose, "peer") \in Seq({"peer", "Error"})
      /\ end \in Ends
  BY AppendProperties DEF TypeOK
<1>4. CASE Callback(b)
  BY <1>1, <1>2, <1>3, <1>4, LoopTopTypes, ExitTypes DEF Callback, Ends
<1>5. CASE OnClose(b)
  BY <1>1, <1>3, <1>5, ExitTypes DEF OnClose, Ends
<1>6. CASE BadMessage(b)
  BY <1>1, <1>3, <1>6, ExitTypes DEF BadMessage, Ends, TypeOK
<1> QED
  BY <1>4, <1>5, <1>6 DEF HandleMessage

LEMMA TypeStep == TypeOK /\ [Next]_vars => TypeOK'
PROOF
<1> SUFFICES ASSUME TypeOK, [Next]_vars
             PROVE  TypeOK'
  OBVIOUS
<1> USE DEF connVars, outVars, inVars, endVars
<1>1. CASE PeerSend
  BY <1>1, AppendProperties DEF TypeOK, PeerSend, Items
<1>2. CASE PeerShutdown
  BY <1>2 DEF TypeOK, PeerShutdown
<1>3. CASE AppSend
  BY <1>3, AppendProperties DEF TypeOK, AppSend
<1>4. CASE AppDrop
  BY <1>4 DEF TypeOK, AppDrop
<1>5. CASE TryAccept
  BY <1>5 DEF TypeOK, TryAccept
<1>6. CASE AcceptFails
  BY <1>6, ExitTypes DEF TypeOK, AcceptFails, Ends
<1>7. CASE OnOpen
  BY <1>7, LoopTopTypes, ExitTypes DEF TypeOK, OnOpen, Ends
<1>8. CASE Connect
  BY <1>8, LoopTopTypes DEF TypeOK, Connect
<1>9. CASE ConnectFails
  BY <1>9, ExitTypes DEF TypeOK, ConnectFails, Ends
<1>10. CASE Decode
  BY <1>10, HandleTypes DEF TypeOK, Decode, HandleMessage
<1>11. CASE ReadEof
  BY <1>11, ExitTypes DEF TypeOK, ReadEof, Ends
<1>12. CASE ReadTimesOut
  BY <1>12, ExitTypes DEF TypeOK, ReadTimesOut, Ends
<1>13. CASE ClosingExpires
  BY <1>13, ExitTypes DEF TypeOK, ClosingExpires, Ends
<1>14. CASE LingerDone
  BY <1>14, ExitTypes DEF TypeOK, LingerDone, Ends
<1>15. CASE ProcessClosed
  BY <1>15, ExitTypes DEF TypeOK, ProcessClosed, Ends
<1>16. CASE SocketError
  BY <1>16, ExitTypes DEF TypeOK, SocketError, Ends
<1>17. CASE Recv
  <2>1. queue # <<>> /\ queue' = Tail(queue)
    BY <1>17 DEF Recv
  <2>2. queue' \in Seq(Commands)
    BY <2>1, HeadTailProperties DEF TypeOK
  <2>3. write \o Framed(Head(queue)) \in Seq(Bytes)
    BY EncodeType, ConcatProperties DEF TypeOK, Framed
  <2>4. LoopTop(write \o Framed(Head(queue)))
    BY <1>17 DEF Recv
  <2> QED
    BY <1>17, <2>2, <2>3, <2>4, LoopTopTypes DEF TypeOK, Recv
<1>18. CASE RecvNone
  BY <1>18, ExitTypes DEF TypeOK, RecvNone, Ends
<1>19. CASE OnLogic
  BY <1>19, LoopTopTypes, ExitTypes DEF TypeOK, OnLogic, Ends
<1>20. CASE ReportError
  BY <1>20, AppendProperties DEF TypeOK, ReportError
<1>21. CASE Tick
  BY <1>21 DEF TypeOK, Tick
<1>22. ASSUME NEW k \in 1 .. Len(wireIn), Read(k)
     PROVE  TypeOK'
  <2>1. /\ SubSeq(wireIn, 1, k) \in Seq(Items)
        /\ SubSeq(wireIn, 1, k) # <<>>
        /\ wireIn' \in Seq(Items)
    BY <1>22, ReadSplits DEF TypeOK, Read
  <2> QED
    BY <1>22, <2>1, HandleTypes DEF TypeOK, Read, HandleMessage
<1>23. ASSUME NEW k \in 1 .. Len(write), WriteSome(k) \/ DrainWrite(k)
     PROVE  TypeOK'
  <2>1. /\ SubSeq(write, 1, k) \in Seq(Bytes)
        /\ SubSeq(write, k + 1, Len(write)) \in Seq(Bytes)
    BY ReadSplits DEF TypeOK
  <2>4. wireOut \o Whole(SubSeq(write, 1, k)) \in Seq(Frames)
    BY <2>1, WholeTypes, ConcatProperties DEF TypeOK
  <2>2. CASE WriteSome(k)
    BY <2>1, <2>2, <2>4 DEF TypeOK, WriteSome, Unwritten
  <2>3. CASE DrainWrite(k)
    <3>1. /\ state' \in {"Open", "Closing", "Closed"} /\ age' \in Nat
          /\ pc' \in {"select", "linger", "done"}
          /\ end' \in Ends
      BY <2>3 DEF TypeOK, DrainWrite, Closing, Ends
    <3> QED
      BY <2>1, <2>3, <2>4, <3>1 DEF TypeOK, DrainWrite, Unwritten
  <2> QED
    BY <1>23, <2>2, <2>3
<1>24. CASE UNCHANGED vars
  BY <1>24 DEF TypeOK, vars
<1> QED
  BY <1>1, <1>2, <1>3, <1>4, <1>5, <1>6, <1>7, <1>8, <1>9, <1>10, <1>11, <1>12, <1>13, <1>14, <1>15, <1>16, <1>17, <1>18, <1>19, <1>20, <1>21, <1>22, <1>23, <1>24
     DEF Next, Peer, App, Outside, Task, Finished

LEMMA InitType == Init => TypeOK
PROOF
<1>1. /\ <<>> \in Seq(Commands)
      /\ <<>> \in Seq(Bytes)
      /\ <<>> \in Seq(Frames)
      /\ <<>> \in Seq(Items)
      /\ <<>> \in Seq({"peer", "Error"})
  BY EmptySeq
<1>2. 0 \in Nat /\ "none" \in Ends
  BY DEF Ends
<1> QED
  BY <1>1, <1>2, Zenon DEF Init, TypeOK

THEOREM TypeCorrect == Spec => []TypeOK
PROOF
  BY InitType, TypeStep, PTL DEF Spec

-----------------------------------------------------------------------------
(* Nothing is lost, repeated or reordered on the way in.                   *)

LEMMA ItemsAssociative ==
  \A s, t, u \in Seq(Items) : (s \o t) \o u = s \o (t \o u)
PROOF
<1> TAKE s, t, u \in Seq(Items)
<1> QED
  BY ConcatAssociative

\* Decoding moves items from the front of the buffer to the callbacks.
LEMMA HandleMoves ==
  ASSUME TypeOK, NEW b \in Seq(Items), b # <<>>, HandleMessage(b)
  PROVE  delivered' \o read' = delivered \o b
PROOF
<1>1. CASE BadMessage(b)
  BY <1>1 DEF BadMessage
<1>2. CASE Callback(b) \/ OnClose(b)
  <2>1. delivered' = delivered \o Decoded(b) /\ read' = Rest(b)
    BY <1>2 DEF Callback, OnClose
  <2>2. /\ delivered \in Seq(Items)
        /\ Decoded(b) \in Seq(Items)
        /\ Rest(b) \in Seq(Items)
        /\ Decoded(b) \o Rest(b) = b
    BY DecodeSplits DEF TypeOK
  <2>3. \A d, r \in Seq(Items) : (delivered \o d) \o r = delivered \o (d \o r)
    BY <2>2, ItemsAssociative
  <2>4. (delivered \o Decoded(b)) \o Rest(b) = delivered \o (Decoded(b) \o Rest(b))
    BY <2>2, <2>3
  <2> QED
    BY <2>1, <2>2, <2>4
<1> QED
  BY <1>1, <1>2 DEF HandleMessage

\* Steps that touch neither the items nor where they are.
InboundVars == <<peerSent, wireIn, read, delivered>>

LEMMA InboundStep ==
  ASSUME TypeOK, InboundExact, [Next]_vars
  PROVE  InboundExact'
PROOF
<1> DEFINE got == delivered \o read
<1>0. got \in Seq(Items)
  BY ConcatProperties DEF TypeOK
<1>1. CASE PeerSend
  <2>1. PICK m \in Items : /\ peerSent' = Append(peerSent, m)
                           /\ wireIn' = Append(wireIn, m)
    BY <1>1 DEF PeerSend, Items
  <2>2. UNCHANGED <<read, delivered>>
    BY <1>1 DEF PeerSend
  <2>3. <<m>> \in Seq(Items)
    OBVIOUS
  <2>4. (got \o wireIn) \o <<m>> = got \o (wireIn \o <<m>>)
    BY <1>0, <2>3, ItemsAssociative DEF TypeOK
  <2>5. /\ Append(wireIn, m) = wireIn \o <<m>>
        /\ Append(peerSent, m) = peerSent \o <<m>>
    BY AppendIsConcat DEF TypeOK
  <2> QED
    BY <2>1, <2>2, <2>4, <2>5 DEF InboundExact
<1>2. CASE Decode
  <2>1. UNCHANGED <<peerSent, wireIn>>
    BY <1>2 DEF Decode, HandleMessage
  <2>2. delivered' \o read' = got
    BY <1>2, HandleMoves DEF Decode, TypeOK
  <2> QED
    BY <2>1, <2>2 DEF InboundExact
<1>3. ASSUME NEW k \in 1 .. Len(wireIn), Read(k)
      PROVE  InboundExact'
  <2> DEFINE b == SubSeq(wireIn, 1, k)
  <2>1. /\ b \in Seq(Items)
        /\ b # <<>>
        /\ wireIn' \in Seq(Items)
        /\ b \o wireIn' = wireIn
    BY <1>3, ReadSplits DEF TypeOK, Read
  <2>2. HandleMessage(b) /\ read = <<>> /\ peerSent' = peerSent
    BY <1>3 DEF Read, HandleMessage
  <2>3. delivered' \o read' = delivered \o b
    BY <2>1, <2>2, HandleMoves
  <2>4. (delivered \o b) \o wireIn' = delivered \o (b \o wireIn')
    BY <2>1, ItemsAssociative DEF TypeOK
  <2>5. got = delivered
    BY <2>2, ConcatEmptySeq DEF TypeOK
  <2> QED
    BY <2>1, <2>2, <2>3, <2>4, <2>5 DEF InboundExact
<1>4. CASE UNCHANGED InboundVars
  BY <1>4 DEF InboundVars, InboundExact
<1>5. ASSUME NEW k, WriteSome(k) \/ DrainWrite(k)
      PROVE  UNCHANGED InboundVars
  BY <1>5 DEF WriteSome, DrainWrite, InboundVars, inVars
<1>6. PeerShutdown => UNCHANGED InboundVars
  BY DEF PeerShutdown, InboundVars, inVars
<1>7. AppSend => UNCHANGED InboundVars
  BY DEF AppSend, InboundVars, inVars
<1>8. AppDrop => UNCHANGED InboundVars
  BY DEF AppDrop, InboundVars, inVars
<1>9. TryAccept => UNCHANGED InboundVars
  BY DEF TryAccept, InboundVars, inVars
<1>10. AcceptFails => UNCHANGED InboundVars
  BY DEF AcceptFails, InboundVars, inVars
<1>11. OnOpen => UNCHANGED InboundVars
  BY DEF OnOpen, InboundVars, inVars
<1>12. Connect => UNCHANGED InboundVars
  BY DEF Connect, InboundVars, inVars
<1>13. ConnectFails => UNCHANGED InboundVars
  BY DEF ConnectFails, InboundVars, inVars
<1>14. ReadEof => UNCHANGED InboundVars
  BY DEF ReadEof, InboundVars, inVars
<1>15. ReadTimesOut => UNCHANGED InboundVars
  BY DEF ReadTimesOut, InboundVars, inVars
<1>16. ClosingExpires => UNCHANGED InboundVars
  BY DEF ClosingExpires, InboundVars, inVars
<1>17. LingerDone => UNCHANGED InboundVars
  BY DEF LingerDone, InboundVars, inVars
<1>18. ProcessClosed => UNCHANGED InboundVars
  BY DEF ProcessClosed, InboundVars, inVars
<1>19. SocketError => UNCHANGED InboundVars
  BY DEF SocketError, InboundVars, inVars
<1>20. Recv => UNCHANGED InboundVars
  BY DEF Recv, InboundVars, inVars
<1>21. RecvNone => UNCHANGED InboundVars
  BY DEF RecvNone, InboundVars, inVars
<1>22. OnLogic => UNCHANGED InboundVars
  BY DEF OnLogic, InboundVars, inVars
<1>23. ReportError => UNCHANGED InboundVars
  BY DEF ReportError, InboundVars, inVars
<1>24. Tick => UNCHANGED InboundVars
  BY DEF Tick, InboundVars, inVars
<1>25. UNCHANGED vars => UNCHANGED InboundVars
  BY DEF InboundVars, vars, inVars
<1> QED
  BY <1>1, <1>2, <1>3, <1>4, <1>5, <1>6, <1>7, <1>8, <1>9, <1>10, <1>11, <1>12, <1>13, <1>14, <1>15, <1>16, <1>17, <1>18, <1>19, <1>20, <1>21, <1>22, <1>23, <1>24, <1>25
     DEF Next, Peer, App, Outside, Task, Finished

\* Every item the peer sent is at all times delivered, buffered or in the
\* socket: process() may be dropped at every one of its awaits, and still
\* nothing is lost on the way to the handler.
LEMMA InboundInit == Init => InboundExact
PROOF
<1>1. <<>> \in Seq(Items)
  BY EmptySeq
<1>2. (<<>> \o <<>>) \o <<>> = <<>>
  BY <1>1, ConcatEmptySeq
<1> QED
  BY <1>2 DEF Init, InboundExact

THEOREM InboundCorrect == Spec => []InboundExact
PROOF
  BY InboundInit, TypeCorrect, InboundStep, PTL DEF Spec

-----------------------------------------------------------------------------
(* StreamConn implements Handler.                                             *)

LEMMA Stages ==
  /\ pc \in {"accept", "open"} => HandlerStage = "new"
  /\ pc \in {"select", "linger"} => HandlerStage = "open"
  /\ pc = "failed" => HandlerStage = "failed"
  /\ pc = "done" => HandlerStage = "ended"
BY DEF HandlerStage

LEMMA StagesNext ==
  /\ pc' \in {"accept", "open"} => HandlerStage' = "new"
  /\ pc' \in {"select", "linger"} => HandlerStage' = "open"
  /\ pc' = "failed" => HandlerStage' = "failed"
  /\ pc' = "done" => HandlerStage' = "ended"
BY DEF HandlerStage

\* A message of the buffer b, the first the peer sent that no callback has
\* seen, is handled as Handler allows.
LEMMA HandleImplements ==
  ASSUME TypeOK, NEW b \in Seq(Items), b # <<>>, NEW t \in Seq(Items),
         peerSent = (delivered \o b) \o t,
         pc = "select", HandleMessage(b)
  PROVE  H!HNext
PROOF
<1>0. /\ delivered \in Seq(Items)
      /\ Decoded(b) \in Seq(Items)
      /\ Rest(b) \in Seq(Items)
      /\ Decoded(b) \o Rest(b) = b
  BY DecodeSplits DEF TypeOK
<1>1. /\ HandlerStage = "open"
      /\ peerSent' = peerSent
  BY Stages DEF HandleMessage
<1> DEFINE d == delivered \o Decoded(b)
           n == Len(delivered) + Len(Decoded(b))
<1>2. /\ d \in Seq(Items)
      /\ Len(d) = n
      /\ Len(delivered) \in Nat
      /\ Len(Decoded(b)) \in Nat
  BY <1>0, ConcatProperties, LenProperties
<1>3. Len(Decoded(b)) > 0 /\ (~conf.raw => Len(Decoded(b)) = 1)
  BY EmptySeq DEF Decoded
<1>4. peerSent = d \o (Rest(b) \o t)
  <2>1. \A x, y \in Seq(Items) : (delivered \o x) \o y = delivered \o (x \o y)
    BY <1>0, ItemsAssociative
  <2>2. d \o Rest(b) = delivered \o (Decoded(b) \o Rest(b))
    BY <1>0, <2>1
  <2>3. \A x, y \in Seq(Items) : (d \o x) \o y = d \o (x \o y)
    BY <1>2, ItemsAssociative
  <2>4. (d \o Rest(b)) \o t = d \o (Rest(b) \o t)
    BY <1>0, <2>3
  <2> QED
    BY <1>0, <2>2, <2>4
<1>5. Rest(b) \o t \in Seq(Items)
  BY <1>0, ConcatProperties
<1>6. d = SubSeq(peerSent, 1, n)
  BY <1>2, <1>4, <1>5, FrontPart
<1>7. n \in Len(delivered) + 1 .. Len(peerSent)
  <2>1. Len(peerSent) = n + Len(Rest(b) \o t) /\ Len(Rest(b) \o t) \in Nat
    BY <1>2, <1>4, <1>5, ConcatProperties, LenProperties
  <2> QED
    BY <1>2, <1>3, <2>1
<1>8. CASE Callback(b)
  <2>1. HandlerStage' \in {"open", "failed"}
    BY <1>8, StagesNext DEF Callback, LoopTop, Fails
  <2>2. delivered' = SubSeq(peerSent, 1, n) /\ onClose' = onClose
    BY <1>6, <1>8 DEF Callback
  <2>3. H!Deliver
    BY <1>1, <1>7, <2>1, <2>2 DEF H!Deliver
  <2> QED
    BY <2>3 DEF H!HNext
<1>9. CASE OnClose(b)
  <2>1. HandlerStage' = "ended" /\ Head(b) = "Close" /\ ~conf.raw
    BY <1>9, StagesNext DEF OnClose, Leave
  <2>2. /\ delivered' = SubSeq(peerSent, 1, Len(delivered) + 1)
        /\ onClose' = Append(onClose, "peer")
    BY <1>2, <1>3, <1>6, <1>9, <2>1 DEF OnClose
  <2>3. Len(delivered) < Len(peerSent)
    BY <1>2, <1>3, <1>7
  <2>4. peerSent[Len(delivered) + 1] = "Close"
    <3>1. d[Len(delivered) + 1] = Decoded(b)[1]
      BY <1>0, <1>2, <1>3, <2>1, ConcatProperties
    <3>2. Decoded(b)[1] = "Close"
      BY <2>1 DEF Decoded
    <3>3. peerSent[Len(delivered) + 1] = d[Len(delivered) + 1]
      BY <1>2, <1>3, <1>4, <1>5, <2>1, ConcatProperties
    <3> QED
      BY <3>1, <3>2, <3>3
  <2>5. H!ClosedByPeer
    BY <1>1, <2>1, <2>2, <2>3, <2>4 DEF H!ClosedByPeer
  <2> QED
    BY <2>5 DEF H!HNext
<1>10. CASE BadMessage(b)
  <2>1. HandlerStage' = "failed"
    BY <1>10, StagesNext DEF BadMessage, Fails
  <2>2. H!Fail
    BY <1>1, <1>10, <2>1 DEF H!Fail, BadMessage
  <2> QED
    BY <2>2 DEF H!HNext
<1> QED
  BY <1>8, <1>9, <1>10 DEF HandleMessage

LEMMA StepImplements ==
  ASSUME TypeOK, InboundExact, [Next]_vars
  PROVE  [H!HNext]_(H!handlerVars)
PROOF
<1> USE DEF inVars, endVars
<1>1. CASE PeerSend
  <2>1. UNCHANGED <<HandlerStage, delivered, onClose>>
    BY <1>1 DEF PeerSend, connVars, HandlerStage
  <2>2. \E m \in Items : peerSent' = Append(peerSent, m)
    BY <1>1 DEF PeerSend, Items
  <2>3. H!Send
    BY <2>1, <2>2 DEF H!Send
  <2> QED
    BY <2>3 DEF H!HNext
<1>2. CASE Decode
  <2>1. /\ peerSent = (delivered \o read) \o wireIn
        /\ read \in Seq(Items) /\ read # <<>> /\ wireIn \in Seq(Items)
        /\ pc = "select" /\ HandleMessage(read)
    BY <1>2 DEF Decode, Opened, InboundExact, TypeOK
  <2>2. H!HNext
    BY <2>1, HandleImplements
  <2> QED
    BY <2>2
<1>3. ASSUME NEW k \in 1 .. Len(wireIn), Read(k)
      PROVE  H!HNext
  <2> DEFINE b == SubSeq(wireIn, 1, k)
             t == SubSeq(wireIn, k + 1, Len(wireIn))
  <2>1. /\ b \in Seq(Items) /\ b # <<>>
        /\ t \in Seq(Items)
        /\ b \o t = wireIn
    BY ReadSplits DEF TypeOK
  <2>2. HandleMessage(b) /\ read = <<>> /\ pc = "select"
    BY <1>3 DEF Read, Opened
  <2>3. delivered \in Seq(Items) /\ delivered \o read = delivered
    BY <2>2, ConcatEmptySeq DEF TypeOK
  <2>4. (delivered \o b) \o t = delivered \o (b \o t)
    BY <2>1, <2>3, ItemsAssociative
  <2>5. peerSent = (delivered \o b) \o t
    BY <2>1, <2>3, <2>4 DEF InboundExact
  <2> HIDE DEF b, t
  <2> QED
    BY <2>1, <2>2, <2>5, HandleImplements
<1>4. CASE OnOpen
  <2>1. /\ HandlerStage = "new"
        /\ HandlerStage' \in {"open", "failed"}
        /\ UNCHANGED <<peerSent, delivered, onClose>>
    BY <1>4, Stages, StagesNext DEF OnOpen, LoopTop, Fails
  <2>2. H!Open \/ H!Fail
    BY <2>1 DEF H!Open, H!Fail
  <2> QED
    BY <2>2 DEF H!HNext
<1>5. CASE OnLogic
  <2>1. /\ HandlerStage = "open"
        /\ HandlerStage' \in {"open", "failed"}
        /\ UNCHANGED <<peerSent, delivered, onClose>>
    BY <1>5, Stages, StagesNext DEF OnLogic, InLoop, LoopTop, Fails
  <2>2. H!Fail \/ UNCHANGED H!handlerVars
    BY <2>1 DEF H!Fail, H!handlerVars
  <2> QED
    BY <2>2 DEF H!HNext
<1>6. CASE ReportError
  <2>1. /\ HandlerStage = "failed"
        /\ HandlerStage' = "ended"
        /\ onClose' = Append(onClose, "Error")
        /\ UNCHANGED <<peerSent, delivered>>
    BY <1>6, Stages, StagesNext DEF ReportError
  <2>2. H!ReportError
    BY <2>1 DEF H!ReportError
  <2> QED
    BY <2>2 DEF H!HNext
<1>7. CASE AcceptFails \/ ConnectFails \/ ReadTimesOut \/ SocketError
  <2>1. /\ HandlerStage \in {"new", "open"}
        /\ HandlerStage' = "failed"
        /\ UNCHANGED <<peerSent, delivered, onClose>>
    BY <1>7, Stages, StagesNext
       DEF AcceptFails, ConnectFails, ReadTimesOut, SocketError, Fails, Opened, Closing
  <2>2. H!Fail
    BY <2>1 DEF H!Fail
  <2> QED
    BY <2>2 DEF H!HNext
<1>8. CASE ReadEof \/ ClosingExpires \/ LingerDone \/ ProcessClosed \/ RecvNone
  <2>1. /\ HandlerStage = "open"
        /\ HandlerStage' = "ended"
        /\ UNCHANGED <<peerSent, delivered, onClose>>
    BY <1>8, Stages, StagesNext
       DEF ReadEof, ClosingExpires, LingerDone, ProcessClosed, RecvNone,
           Leave, Opened, Closing, InLoop
  <2>2. H!Return
    BY <2>1 DEF H!Return
  <2> QED
    BY <2>2 DEF H!HNext
<1>9. CASE \/ PeerShutdown \/ AppSend \/ AppDrop \/ TryAccept \/ Connect \/ Recv \/ Tick
           \/ \E k \in 1 .. Len(write) : WriteSome(k)
           \/ UNCHANGED vars
  <2>1. UNCHANGED <<peerSent, delivered, onClose>>
    BY <1>9 DEF PeerShutdown, AppSend, AppDrop, TryAccept, Connect, Recv, Tick,
                WriteSome, vars
  <2>2. UNCHANGED HandlerStage
    <3>1. CASE UNCHANGED pc
      BY <3>1 DEF HandlerStage
    <3>2. CASE TryAccept
      BY <3>2, Stages, StagesNext DEF TryAccept
    <3>3. CASE Connect \/ Recv
      BY <3>3, Stages, StagesNext DEF Connect, Recv, InLoop, LoopTop
    <3>5. CASE \E k \in 1 .. Len(write) : WriteSome(k)
      BY <3>1, <3>5 DEF WriteSome
    <3>6. CASE PeerShutdown \/ AppSend \/ AppDrop \/ Tick \/ UNCHANGED vars
      BY <3>1, <3>6 DEF PeerShutdown, AppSend, AppDrop, Tick, vars, connVars
    <3> QED
      BY <1>9, <3>2, <3>3, <3>5, <3>6
  <2> QED
    BY <2>1, <2>2 DEF H!handlerVars
<1>10. ASSUME NEW k \in 1 .. Len(write), DrainWrite(k)
       PROVE  [H!HNext]_(H!handlerVars)
  <2>1. /\ HandlerStage = "open"
        /\ HandlerStage' \in {"open", "ended"}
        /\ UNCHANGED <<peerSent, delivered, onClose>>
    BY <1>10, Stages, StagesNext DEF DrainWrite, Closing
  <2>2. H!Return \/ UNCHANGED H!handlerVars
    BY <2>1 DEF H!Return, H!handlerVars
  <2> QED
    BY <2>2 DEF H!HNext
<1> QED
  BY <1>1, <1>2, <1>3, <1>4, <1>5, <1>6, <1>7, <1>8, <1>9, <1>10
     DEF Next, Peer, App, Outside, Task, Finished

\* Whatever the socket, the timers and the application do, and in whatever
\* order the branches of the loop complete, the handler is called the way
\* Handler says: opened once, given a prefix of what the peer sent, closed
\* last and at most once, and told of every error.
THEOREM Refinement == Spec => RefinesHandler
PROOF
<1>1. Init => H!HInit
  BY Stages DEF Init, H!HInit
<1> QED
  BY <1>1, TypeCorrect, InboundCorrect, StepImplements, PTL
     DEF Spec, RefinesHandler, H!HSpec

-----------------------------------------------------------------------------
(* What the application may rely on.                                       *)

\* Handler's steps keep Handler's promise.
LEMMA PromiseStep ==
  ASSUME H!Promise, [H!HNext]_(H!handlerVars)
  PROVE  H!Promise'
PROOF
<1> DEFINE P == peerSent
           D == delivered
<1>1. /\ P \in Seq(Items) /\ Len(P) \in Nat
      /\ P' = peerSent' /\ D' = delivered'
  BY LenProperties DEF H!Promise
<1>2. PICK n \in 0 .. Len(P) : D = SubSeq(P, 1, n)
  BY DEF H!Promise
<1>3. /\ HandlerStage = "new" => D = <<>>
      /\ \/ onClose = <<>>
         \/ onClose = <<"Error">> /\ HandlerStage = "ended"
         \/ /\ onClose = <<"peer">> /\ HandlerStage = "ended"
            /\ D # <<>> /\ D[Len(D)] = "Close"
  BY DEF H!Promise
<1>4. Append(<<>>, "peer") = <<"peer">> /\ Append(<<>>, "Error") = <<"Error">>
  OBVIOUS
<1> DEFINE Holds ==
             /\ P' \in Seq(Items)
             /\ \E k \in 0 .. Len(P') : D' = SubSeq(P', 1, k)
             /\ HandlerStage' = "new" => D' = <<>>
             /\ \/ onClose' = <<>>
                \/ onClose' = <<"Error">> /\ HandlerStage' = "ended"
                \/ /\ onClose' = <<"peer">> /\ HandlerStage' = "ended"
                   /\ D' # <<>> /\ D'[Len(D')] = "Close"
<1>5. Holds => H!Promise'
  BY DEF H!Promise
<1>6. /\ H!Send => /\ \E m \in Items : P' = Append(P, m)
                    /\ UNCHANGED <<HandlerStage, onClose>> /\ D' = D
      /\ H!Deliver => /\ HandlerStage = "open" /\ HandlerStage' \in {"open", "failed"}
                       /\ P' = P /\ onClose' = onClose
                       /\ \E k \in Len(D) + 1 .. Len(P) : D' = SubSeq(P, 1, k)
      /\ H!ClosedByPeer => /\ HandlerStage = "open" /\ HandlerStage' = "ended"
                            /\ Len(D) < Len(P) /\ P[Len(D) + 1] = "Close"
                            /\ D' = SubSeq(P, 1, Len(D) + 1) /\ P' = P
                            /\ onClose' = Append(onClose, "peer")
      /\ H!ReportError => /\ HandlerStage = "failed" /\ HandlerStage' = "ended"
                           /\ P' = P /\ D' = D /\ onClose' = Append(onClose, "Error")
      /\ H!Open \/ H!Fail \/ H!Return
           => /\ HandlerStage # "ended" /\ HandlerStage' # "new"
              /\ P' = P /\ D' = D /\ onClose' = onClose
      /\ UNCHANGED H!handlerVars
           => P' = P /\ D' = D /\ UNCHANGED <<HandlerStage, onClose>>
  BY DEF H!Send, H!Deliver, H!ClosedByPeer, H!ReportError, H!Open, H!Fail, H!Return,
         H!handlerVars
<1> HIDE DEF P, D
<1>7. Len(D) \in Nat /\ Len(D) <= Len(P)
  <2>1. CASE n = 0
    BY <1>1, <1>2, <2>1, FrontNone
  <2>2. CASE n \in 1 .. Len(P)
    BY <1>1, <1>2, <2>2, PrefixEnd
  <2> QED
    BY <1>1, <2>1, <2>2
<1>8. CASE H!Send
  <2>1. PICK m \in Items : P' = Append(P, m)
    BY <1>6, <1>8
  <2>2. P' \in Seq(Items) /\ Len(P') = Len(P) + 1
    BY <1>1, <2>1, AppendProperties
  <2>3. D' = SubSeq(P', 1, n) /\ n \in 0 .. Len(P')
    BY <1>1, <1>2, <1>6, <1>8, <2>1, <2>2, PrefixStays
  <2> QED
    BY <1>3, <1>5, <1>6, <1>8, <2>2, <2>3
<1>9. CASE H!Deliver
  <2>1. PICK k \in Len(D) + 1 .. Len(P) : D' = SubSeq(P, 1, k)
    BY <1>6, <1>9
  <2>2. k \in 0 .. Len(P)
    BY <1>7
  <2> QED
    BY <1>1, <1>3, <1>5, <1>6, <1>9, <2>1, <2>2
<1>10. CASE H!ClosedByPeer
  <2> DEFINE k == Len(D) + 1
  <2>1. k \in 1 .. Len(P) /\ k \in 0 .. Len(P)
    BY <1>1, <1>6, <1>7, <1>10
  <2>2. P[k] = "Close" /\ D' = SubSeq(P, 1, k) /\ P' = P
    BY <1>6, <1>10
  <2> HIDE DEF k
  <2>3. D' # <<>> /\ D'[Len(D')] = "Close"
    BY <1>1, <2>1, <2>2, PrefixEnd
  <2>4. onClose' = <<"peer">>
    BY <1>3, <1>4, <1>6, <1>10
  <2> QED
    BY <1>1, <1>5, <1>6, <1>10, <2>1, <2>2, <2>3, <2>4
<1>11. CASE H!ReportError
  BY <1>1, <1>2, <1>3, <1>4, <1>5, <1>6, <1>11
<1>12. CASE H!Open \/ H!Fail \/ H!Return
  BY <1>1, <1>2, <1>3, <1>5, <1>6, <1>12
<1>13. CASE UNCHANGED H!handlerVars
  BY <1>1, <1>2, <1>3, <1>5, <1>6, <1>13
<1> QED
  BY <1>8, <1>9, <1>10, <1>11, <1>12, <1>13 DEF H!HNext

\* The handler of a TCP or KCP connection hears a prefix of what the peer
\* sent, nothing before on_open, and one on_close at most: with the peer's
\* code right behind the peer's Close, or with an error, and then nothing.
THEOREM PromiseKept == Spec => []H!Promise
PROOF
<1>1. Init => H!Promise
  BY FrontNone, Stages, EmptySeq DEF Init, H!Promise
<1>2. TypeOK /\ InboundExact /\ H!Promise /\ [Next]_vars => H!Promise'
  BY StepImplements, PromiseStep
<1> QED
  BY <1>1, <1>2, TypeCorrect, InboundCorrect, PTL DEF Spec

\* Once a TCP or KCP connection has ended no callback is called again: neither its
\* task, whichever branch was about to complete, nor what still arrives
\* changes what the handler has heard.
THEOREM FinalKept == Spec => H!Final
PROOF
<1>1. ASSUME HandlerStage = "ended", [H!HNext]_(H!handlerVars)
      PROVE  UNCHANGED <<HandlerStage, delivered, onClose>>
  BY <1>1 DEF H!HNext, H!Send, H!Open, H!Deliver, H!ClosedByPeer, H!Fail,
              H!ReportError, H!Return, H!handlerVars
<1>2. TypeOK /\ InboundExact /\ [Next]_vars
        => [HandlerStage = "ended"
              => UNCHANGED <<HandlerStage, delivered, onClose>>]_(H!handlerVars)
  BY <1>1, StepImplements
<1> QED
  BY <1>2, TypeCorrect, InboundCorrect, PTL DEF Spec, H!Final

-----------------------------------------------------------------------------
(* The write buffer.                                                       *)

\* Backpressure, of any sequence of bytes.
WithinMax(w) ==
  \A i \in Commanded(w) : i - FrameSize[w[i]] < OutBufferMax

LEMMA CommandedFrames ==
  ASSUME NEW s \in Seq(Bytes)
  PROVE  /\ Len(s) \in Nat
         /\ \A i \in 1 .. Len(s) : s[i] \in Bytes
         /\ \A i \in Commanded(s) : FrameSize[s[i]] \in Nat \ {0}
PROOF
<1>1. Len(s) \in Nat /\ \A i \in 1 .. Len(s) : s[i] \in Bytes
  BY LenProperties, ElementOfSeq
<1>2. \A i \in Commanded(s) : s[i] \in Frames
  BY <1>1 DEF Commanded, Bytes
<1> QED
  BY <1>1, <1>2, StreamAssumption

\* A frame may be added: a Pong always, another one behind fewer bytes than
\* out_buffer_max.
LEMMA WithinAdd ==
  ASSUME NEW s \in Seq(Bytes), WithinMax(s), NEW m \in Frames,
         m = "Pong" \/ Len(s) < OutBufferMax
  PROVE  WithinMax(s \o FrameOf(m))
PROOF
<1> DEFINE f == FrameOf(m)
           n == FrameSize[m]
           w == s \o f
<1>1. f \in Seq(Bytes) /\ Len(f) = n /\ n \in Nat \ {0} /\ Len(s) \in Nat
  BY FrameType, CommandedFrames
<1>2. \A i \in 1 .. n : f[i] = IF i = n THEN m ELSE "Part"
  BY DEF FrameOf
<1> HIDE DEF f, n
<1>3. /\ Len(w) = Len(s) + n
      /\ \A i \in 1 .. Len(s) + n :
           w[i] = IF i <= Len(s) THEN s[i] ELSE f[i - Len(s)]
  BY <1>1, ConcatProperties
<1> HIDE DEF w
<1> SUFFICES ASSUME NEW i \in Commanded(w)
             PROVE  i - FrameSize[w[i]] < OutBufferMax
  BY DEF WithinMax, w, f
<1>4. i \in 1 .. Len(s) + n /\ w[i] \notin {"Pong", "Part"}
  BY <1>3 DEF Commanded
<1>5. CASE i <= Len(s)
  <2>1. i \in Commanded(s) /\ w[i] = s[i]
    BY <1>1, <1>3, <1>4, <1>5 DEF Commanded
  <2> QED
    BY <2>1 DEF WithinMax
<1>6. CASE i > Len(s)
  <2>1. i - Len(s) \in 1 .. n
    BY <1>1, <1>4, <1>6
  <2>2. w[i] = f[i - Len(s)]
    BY <1>1, <1>3, <1>4, <1>6
  <2>3. i - Len(s) = n /\ w[i] = m /\ m # "Pong"
    BY <1>2, <1>4, <2>1, <2>2
  <2>4. i = Len(s) + n
    BY <1>1, <1>4, <2>3
  <2> QED
    BY <1>1, <2>3, <2>4, StreamAssumption DEF n
<1> QED
  BY <1>1, <1>4, <1>5, <1>6

\* What is left when the socket took bytes is no further behind.
LEMMA WithinLeft ==
  ASSUME NEW s \in Seq(Bytes), WithinMax(s), NEW k \in 1 .. Len(s)
  PROVE  WithinMax(SubSeq(s, k + 1, Len(s)))
PROOF
<1> DEFINE r == SubSeq(s, k + 1, Len(s))
<1>1. /\ Len(s) \in Nat
      /\ Len(r) = Len(s) - k
      /\ \A i \in 1 .. Len(r) : r[i] = s[i + k]
  BY LenProperties, SubSeqProperties
<1> HIDE DEF r
<1> SUFFICES ASSUME NEW i \in Commanded(r)
             PROVE  i - FrameSize[r[i]] < OutBufferMax
  BY DEF WithinMax, r
<1>2. i \in 1 .. Len(s) - k /\ r[i] = s[i + k]
  BY <1>1 DEF Commanded
<1>3. i + k \in Commanded(s)
  BY <1>1, <1>2 DEF Commanded
<1>4. (i + k) - FrameSize[s[i + k]] < OutBufferMax /\ FrameSize[s[i + k]] \in Nat
  BY <1>3, CommandedFrames DEF WithinMax
<1> QED
  BY <1>1, <1>2, <1>4, StreamAssumption

\* recv is polled only while the buffer has room: armed was found true at
\* the top of the loop, and since then the buffer only shrank.
ArmedHasRoom == armed => Room(write)

LEMMA BackpressureStep ==
  ASSUME TypeOK, TypeOK', ArmedHasRoom, Backpressure, [Next]_vars
  PROVE  ArmedHasRoom' /\ Backpressure'
PROOF
<1> DEFINE Kept == UNCHANGED <<armed, write>>
<1>0. write \in Seq(Bytes) /\ Len(write) \in Nat
  BY LenProperties DEF TypeOK
<1>1. Kept => ArmedHasRoom' /\ Backpressure'
  BY DEF ArmedHasRoom, Backpressure, Commanded, Room
<1>2. ASSUME NEW w, WithinMax(w), LoopTop(w)
      PROVE  ArmedHasRoom' /\ Backpressure'
  BY <1>2 DEF LoopTop, ArmedHasRoom, WithinMax, Backpressure, Commanded, Room
<1>3. WithinMax(write)
  BY DEF WithinMax, Backpressure
<1>13. ASSUME NEW m, m = "Pong" \/ Len(write) < OutBufferMax
       PROVE  WithinMax(write \o Encode(m))
  <2>1. CASE Encode(m) = FrameOf(m) /\ m \in Frames
    BY <1>0, <1>3, <1>13, <2>1, WithinAdd
  <2>2. CASE Encode(m) = <<>>
    BY <1>0, <1>3, <2>2, ConcatEmptySeq
  <2> QED
    BY <2>1, <2>2 DEF Encode
<1>4. CASE Recv
  <2> DEFINE w == write \o Framed(Head(queue))
  <2>1. armed /\ LoopTop(w)
    BY <1>4 DEF Recv
  <2>2. Len(write) < OutBufferMax
    BY <2>1 DEF ArmedHasRoom, Room
  <2>3. WithinMax(w)
    BY <1>13, <2>2 DEF Framed
  <2> HIDE DEF w
  <2> QED
    BY <1>2, <2>1, <2>3
<1>5. ASSUME NEW k \in 1 .. Len(write), WriteSome(k) \/ DrainWrite(k)
      PROVE  ArmedHasRoom' /\ Backpressure'
  <2>1. write' = SubSeq(write, k + 1, Len(write)) /\ armed' = armed
    BY <1>5 DEF WriteSome, DrainWrite, Unwritten
  <2>2. WithinMax(write')
    BY <1>0, <1>3, <2>1, WithinLeft
  <2>3. Len(write') = Len(write) - k
    BY <1>0, <2>1, SubSeqProperties
  <2> QED
    BY <1>0, <2>1, <2>2, <2>3, StreamAssumption
       DEF WithinMax, Commanded, ArmedHasRoom, Backpressure, Room
<1>6. ASSUME NEW b, HandleMessage(b)
      PROVE  Kept \/ LoopTop(write) \/ LoopTop(write \o Encode("Pong"))
  BY <1>6 DEF HandleMessage, Callback, OnClose, BadMessage, Leave, Fails
<1>7. CASE Decode \/ \E k \in 1 .. Len(wireIn) : Read(k)
  <2>1. PICK b : HandleMessage(b)
    BY <1>7 DEF Decode, Read
  <2> QED
    BY <2>1, <1>1, <1>2, <1>3, <1>6, <1>13
<1>8. CASE OnOpen \/ Connect \/ OnLogic
  <2>1. LoopTop(write) \/ Kept
    BY <1>8 DEF OnOpen, Connect, OnLogic, Fails
  <2> QED
    BY <2>1, <1>1, <1>2, <1>3
<1>9. CASE PeerSend \/ PeerShutdown \/ AppSend \/ AppDrop \/ TryAccept \/ Tick
  <2>1. Kept
    BY <1>9 DEF PeerSend, PeerShutdown, AppSend, AppDrop, TryAccept, Tick,
                connVars, outVars
  <2> QED
    BY <2>1, <1>1
<1>10. CASE AcceptFails \/ ConnectFails \/ ReadTimesOut \/ SocketError
  <2>1. Kept
    BY <1>10 DEF AcceptFails, ConnectFails, ReadTimesOut, SocketError, Fails
  <2> QED
    BY <2>1, <1>1
<1>11. CASE ReadEof \/ ClosingExpires \/ LingerDone \/ ProcessClosed \/ RecvNone
  <2>1. Kept
    BY <1>11 DEF ReadEof, ClosingExpires, LingerDone, ProcessClosed, RecvNone,
                 Leave
  <2> QED
    BY <2>1, <1>1
<1>12. CASE ReportError \/ UNCHANGED vars
  <2>1. Kept
    BY <1>12 DEF ReportError, vars, connVars, outVars
  <2> QED
    BY <2>1, <1>1
<1> QED
  BY <1>4, <1>5, <1>7, <1>8, <1>9, <1>10, <1>11, <1>12
     DEF Next, Peer, App, Outside, Task, Finished

\* However many commands the application queues, and however process(),
\* recv and on_logic interleave, no command's frame is ever put behind
\* out_buffer_max bytes or more, whatever the sizes of the frames: commands
\* exceed the limit by less than one frame. Only Pongs can do worse.
THEOREM BackpressureCorrect == Spec => []Backpressure
PROOF
<1>1. Init => ArmedHasRoom /\ Backpressure
  <2> SUFFICES ASSUME Init PROVE ArmedHasRoom /\ Backpressure
    OBVIOUS
  <2>1. Commanded(<<>>) = {}
    BY EmptySeq DEF Commanded
  <2> QED
    BY <2>1 DEF Init, ArmedHasRoom, Backpressure
<1> QED
  BY <1>1, TypeCorrect, BackpressureStep, PTL DEF Spec

-----------------------------------------------------------------------------
(* Closing.                                                                *)

LEMMA FramesAssociative ==
  \A s, t, u \in Seq(Frames) : (s \o t) \o u = s \o (t \o u)
PROOF
<1> TAKE s, t, u \in Seq(Frames)
<1> QED
  BY ConcatAssociative

\* What a frame added to the write buffer, or bytes taken off it, mean for the
\* frames in it.
LEMMA WholeAdd ==
  ASSUME NEW s \in Seq(Bytes)
  PROVE  \A m : /\ Whole(Encode(m)) \in Seq(Frames)
               /\ Whole(s \o Encode(m)) = Whole(s) \o Whole(Encode(m))
BY EncodeType, WholeTypes, WholeParts

LEMMA WholeTake ==
  ASSUME NEW s \in Seq(Bytes), NEW k \in 1 .. Len(s)
  PROVE  /\ Whole(SubSeq(s, 1, k)) \in Seq(Frames)
         /\ Whole(SubSeq(s, k + 1, Len(s))) \in Seq(Frames)
         /\ Whole(SubSeq(s, 1, k)) \o Whole(SubSeq(s, k + 1, Len(s))) = Whole(s)
PROOF
<1> DEFINE out == SubSeq(s, 1, k)
           left == SubSeq(s, k + 1, Len(s))
<1>1. out \in Seq(Bytes) /\ left \in Seq(Bytes) /\ out \o left = s
  BY ReadSplits
<1> HIDE DEF out, left
<1>2. Whole(out \o left) = Whole(out) \o Whole(left)
  BY <1>1, WholeParts
<1>3. Whole(out) \in Seq(Frames) /\ Whole(left) \in Seq(Frames)
  BY <1>1, WholeTypes
<1> QED
  BY <1>1, <1>2, <1>3 DEF out, left

\* The bytes taken off the buffer add their frames to the wire, and the frames
\* on the wire and in the buffer stay the same.
LEMMA TakenSame ==
  ASSUME TypeOK, NEW k \in 1 .. Len(write),
         wireOut' = wireOut \o Whole(SubSeq(write, 1, k)),
         write' = SubSeq(write, k + 1, Len(write))
  PROVE  wireOut' \o Whole(write') = wireOut \o Whole(write)
PROOF
<1> DEFINE out == Whole(SubSeq(write, 1, k))
           left == Whole(SubSeq(write, k + 1, Len(write)))
<1>1. /\ out \in Seq(Frames) /\ left \in Seq(Frames)
      /\ out \o left = Whole(write)
  BY WholeTake DEF TypeOK
<1>2. wireOut' = wireOut \o out /\ Whole(write') = left
  OBVIOUS
<1> HIDE DEF out, left
<1>3. \A x, y \in Seq(Frames) : (wireOut \o x) \o y = wireOut \o (x \o y)
  BY FramesAssociative DEF TypeOK
<1>4. (wireOut \o out) \o left = wireOut \o (out \o left)
  BY <1>1, <1>3
<1> QED
  BY <1>1, <1>2, <1>4

\* What makes DrainedAll inductive: a connection enters Closing with its
\* Close frame in the write buffer, and the frame can only move to the wire.
CloseInv ==
  /\ Alive => end = "none"
  /\ pc = "linger" => state = "Closed" /\ write = <<>>
  /\ ~conf.raw /\ state = "Closing" => Has("Close", wireOut \o Whole(write))
  /\ ~conf.raw /\ state = "Closed" /\ end \in {"none", "drained"}
       => Has("Close", wireOut)

LEMMA CloseStep ==
  ASSUME TypeOK, CloseInv, [Next]_vars
  PROVE  CloseInv'
PROOF
<1>0. /\ write \in Seq(Bytes) /\ wireOut \in Seq(Frames)
      /\ Whole(write) \in Seq(Frames)
      /\ wireOut \o Whole(write) \in Seq(Frames)
      /\ Len(write) \in Nat
  BY WholeTypes, ConcatProperties, LenProperties DEF TypeOK
<1>1. CASE Recv
  <2> DEFINE c == Head(queue)
             f == Whole(Framed(c))
  <2>1. /\ write' = write \o Framed(c) /\ pc' = "select"
        /\ UNCHANGED <<conf, end, wireOut>>
        /\ pc \in {"select", "linger"}
        /\ IF c \in {"Close", "Shutdown"}
           THEN state' = "Closing" ELSE state' = state
    BY <1>1 DEF Recv, LoopTop, InLoop, endVars
  <2>2. f \in Seq(Frames) /\ Whole(write') = Whole(write) \o f
    BY <1>0, <2>1, WholeAdd DEF Framed
  <2>3. wireOut' \o Whole(write') = (wireOut \o Whole(write)) \o f
    <3> HIDE DEF f
    <3>1. \A x, y \in Seq(Frames) : (wireOut \o x) \o y = wireOut \o (x \o y)
      BY <1>0, FramesAssociative
    <3>2. (wireOut \o Whole(write)) \o f = wireOut \o (Whole(write) \o f)
      BY <1>0, <2>2, <3>1
    <3> QED
      BY <2>1, <2>2, <3>2
  <2>4. ASSUME ~conf'.raw, state' = "Closing"
        PROVE  Has("Close", wireOut' \o Whole(write'))
    <3>1. CASE c \in {"Close", "Shutdown"}
      <4>1. f = <<"Close">>
        BY <2>1, <2>4, <3>1, WholeEncode DEF Framed, Frames
      <4>2. Has("Close", f)
        BY <4>1 DEF Has
      <4> QED
        BY <1>0, <2>2, <2>3, <4>2, HasSplit
    <3>2. CASE c \notin {"Close", "Shutdown"}
      <4>1. Has("Close", wireOut \o Whole(write))
        BY <2>1, <2>4, <3>2 DEF CloseInv
      <4> QED
        <5> HIDE DEF f
        <5> QED
          BY <1>0, <2>2, <2>3, <4>1, HasSplit
    <3> QED
      BY <3>1, <3>2
  <2>5. ASSUME ~conf'.raw, state' = "Closed", end' \in {"none", "drained"}
        PROVE  Has("Close", wireOut')
    BY <2>1, <2>5 DEF CloseInv
  <2>6. Alive' => end' = "none"
    BY <2>1 DEF CloseInv, Alive
  <2> QED
    BY <2>1, <2>4, <2>5, <2>6 DEF CloseInv
<1>2. ASSUME NEW k \in 1 .. Len(write), DrainWrite(k)
      PROVE  CloseInv'
  <2> DEFINE out == SubSeq(write, 1, k)
             left == SubSeq(write, k + 1, Len(write))
  <2>1. /\ wireOut' = wireOut \o Whole(out) /\ write' = left
        /\ UNCHANGED conf
        /\ pc = "select" /\ state = "Closing"
        /\ IF k = Len(write)
           THEN /\ state' = "Closed"
                /\ \/ pc' = "linger" /\ end' = end
                   \/ pc' = "done" /\ end' = "drained"
           ELSE state' = state /\ pc' = pc /\ end' = end
    BY <1>2 DEF DrainWrite, DrainedBy, Unwritten, Closing, endVars
  <2>3. wireOut' \o Whole(write') = wireOut \o Whole(write)
    BY <2>1, TakenSame
  <2>4. k = Len(write) => /\ write' = <<>>
                          /\ wireOut' = wireOut \o Whole(write)
    <3> SUFFICES ASSUME k = Len(write)
                 PROVE  write' = <<>> /\ wireOut' = wireOut \o Whole(write)
      OBVIOUS
    <3>1. left = <<>>
      BY <1>0, SubSeqEmpty
    <3>2. out = write
      BY <1>0, SubSeqFull
    <3> QED
      BY <2>1, <3>1, <3>2
  <2>5. /\ end = "none"
        /\ ~conf.raw => Has("Close", wireOut \o Whole(write))
    BY <2>1 DEF CloseInv, Alive
  <2> HIDE DEF out, left
  <2>6. CASE k = Len(write)
    <3>1. ~conf'.raw => Has("Close", wireOut')
      BY <2>1, <2>4, <2>5, <2>6
    <3>2. /\ state' = "Closed" /\ write' = <<>>
          /\ \/ pc' = "linger" /\ end' = "none"
             \/ pc' = "done" /\ end' = "drained"
      BY <2>1, <2>4, <2>5, <2>6
    <3> QED
      BY <3>1, <3>2 DEF CloseInv, Alive
  <2>7. CASE k # Len(write)
    <3>1. ~conf'.raw => Has("Close", wireOut' \o Whole(write'))
      BY <2>1, <2>3, <2>5
    <3>2. state' = "Closing" /\ pc' = "select" /\ end' = "none"
      BY <2>1, <2>5, <2>7
    <3> QED
      BY <3>1, <3>2 DEF CloseInv, Alive
  <2> QED
    BY <2>6, <2>7
<1>3. CASE OnLogic
  <2>1. /\ UNCHANGED <<conf, state, wireOut, write>>
        /\ pc \in {"select", "linger"}
        /\ \/ pc' = "select" /\ end' = end
           \/ pc' = "failed" /\ end' = "error"
    BY <1>3 DEF OnLogic, LoopTop, Fails, InLoop
  <2> QED
    BY <2>1 DEF CloseInv, Alive
<1>4. CASE OnOpen \/ Connect
  <2>1. /\ UNCHANGED <<conf, state, wireOut, write>>
        /\ pc \in {"open", "select"}
        /\ \/ pc' = "select" /\ end' = end
           \/ pc' = "failed" /\ end' = "error"
    BY <1>4 DEF OnOpen, Connect, LoopTop, Fails, endVars
  <2> QED
    BY <2>1 DEF CloseInv, Alive
<1>5. CASE Decode \/ \E k \in 1 .. Len(wireIn) : Read(k)
  <2>1. PICK b : HandleMessage(b)
    BY <1>5 DEF Decode, Read
  <2>2. pc = "select" /\ state = "Open"
    BY <1>5 DEF Decode, Read, Opened
  <2>3. /\ UNCHANGED <<conf, state>>
        /\ \/ pc' = "select" /\ end' = end
           \/ pc' = "done" /\ end' = "peer"
           \/ pc' = "failed" /\ end' = "error"
    BY <2>1 DEF HandleMessage, Callback, OnClose, BadMessage,
                LoopTop, Leave, Fails
  <2> QED
    BY <2>2, <2>3 DEF CloseInv, Alive
<1>6. ASSUME NEW k \in 1 .. Len(write), WriteSome(k)
      PROVE  CloseInv'
  <2>1. pc = "select" /\ state = "Open" /\ UNCHANGED <<conf, pc, state, end>>
    BY <1>6 DEF WriteSome, Opened, endVars
  <2> QED
    BY <2>1 DEF CloseInv, Alive
<1>7. CASE AcceptFails \/ ConnectFails \/ ReadTimesOut \/ SocketError
  <2>1. /\ pc' = "failed" /\ end' \in {"error", "timeout"}
        /\ UNCHANGED <<conf, state, wireOut, write>>
    BY <1>7 DEF AcceptFails, ConnectFails, ReadTimesOut, SocketError, Fails
  <2> QED
    BY <2>1 DEF CloseInv, Alive
<1>8. CASE ReadEof \/ ClosingExpires \/ RecvNone
  <2>1. /\ pc' = "done" /\ end' \in {"eof", "expired", "dropped"}
        /\ UNCHANGED <<conf, wireOut, write>>
        /\ state' = "Closing" => state = "Closing"
    BY <1>8 DEF ReadEof, ClosingExpires, RecvNone, Leave
  <2> QED
    BY <2>1 DEF CloseInv, Alive
<1>9. CASE LingerDone \/ ProcessClosed
  <2>1. /\ pc \in {"select", "linger"} /\ pc' = "done" /\ end' = "drained"
        /\ UNCHANGED <<conf, state, wireOut, write>>
    BY <1>9 DEF LingerDone, ProcessClosed, Leave
  <2> QED
    BY <2>1 DEF CloseInv, Alive
<1>10. CASE \/ PeerSend \/ PeerShutdown \/ AppSend \/ AppDrop \/ Tick
            \/ UNCHANGED vars
  <2>1. UNCHANGED <<conf, pc, state, end, wireOut, write>>
    BY <1>10 DEF PeerSend, PeerShutdown, AppSend, AppDrop, Tick,
                 vars, connVars, outVars, endVars
  <2> QED
    BY <2>1 DEF CloseInv, Alive
<1>11. CASE TryAccept \/ ReportError
  <2>1. /\ UNCHANGED <<conf, state, end, wireOut, write>>
        /\ \/ pc = "accept" /\ pc' = "open"
           \/ pc = "failed" /\ pc' = "done"
    BY <1>11 DEF TryAccept, ReportError, outVars, endVars
  <2> QED
    BY <2>1 DEF CloseInv, Alive
<1> QED
  BY <1>1, <1>2, <1>3, <1>4, <1>5, <1>6, <1>7, <1>8, <1>9, <1>10, <1>11
     DEF Next, Peer, App, Outside, Task, Finished

\* A connection that closes and reports itself drained has its Close frame
\* on the wire, whatever commands came while it was closing.
THEOREM DrainedCorrect == Spec => []DrainedAll
PROOF
<1>1. Init => CloseInv
  BY DEF Init, CloseInv, Alive
<1>2. CloseInv => DrainedAll
  BY DEF CloseInv, DrainedAll
<1> QED
  BY <1>1, <1>2, TypeCorrect, CloseStep, PTL DEF Spec
-----------------------------------------------------------------------------
(* What an end of a pair of connections can count on (TcpPairProofs).      *)

\* Closes, said and heard: whoever has a Close to send is no longer Open; who
\* heard one was Open then, and has ended; and who read the end of the stream
\* has ended, too.
EndInv ==
  /\ Has("Close", wireOut \o Whole(write)) => state # "Open"
  /\ Has("peer", onClose) =>
       pc = "done" /\ state = "Open" /\ Has("Close", delivered)
  /\ ~conf.raw /\ Has("Close", delivered) => pc = "done"
  /\ end = "eof" => pc = "done" /\ peerEof

LEMMA EndInit == Init => EndInv
PROOF
<1> SUFFICES ASSUME Init PROVE EndInv
  OBVIOUS
<1>1. <<>> \o <<>> = <<>>
  BY EmptySeq, ConcatEmptySeq
<1> QED
  BY <1>1, HasOne, WholeParts DEF Init, EndInv

\* An end that is done takes no step of its own.
LEMMA DoneStep ==
  ASSUME pc = "done", [Next]_vars
  PROVE  pc' = "done" /\ UNCHANGED <<conf, state, write, wireOut, peerEof, delivered, onClose, end>>
BY DEF Next, Peer, App, Outside, Task, Finished, PeerSend, PeerShutdown, AppSend,
       AppDrop, TryAccept, AcceptFails, OnOpen, SocketError, OnLogic, Read, ReadEof,
       WriteSome, DrainWrite, Connect, ConnectFails, Decode, ReadTimesOut,
       ClosingExpires, LingerDone, ProcessClosed, Recv, RecvNone, ReportError,
       Tick, Sleeping, InLoop, Alive, Opened, Closing, vars, connVars, outVars,
       inVars, endVars

\* What an end does to what it says: nothing, a step of a Close command, or
\* moving frames to the wire.
LEMMA SaidStep ==
  ASSUME TypeOK, [Next]_vars
  PROVE  \/ UNCHANGED <<wireOut, write>>
            /\ (state' = "Open" => state = "Open")
         \/ /\ UNCHANGED wireOut
            /\ \E f \in Seq(Frames) :
                 /\ Whole(write') = Whole(write) \o f
                 /\ Has("Close", f) => state' # "Open"
            /\ state' = "Open" => state = "Open"
         \/ /\ \E k \in 1 .. Len(write) :
                 /\ wireOut' = wireOut \o Whole(SubSeq(write, 1, k))
                 /\ write' = SubSeq(write, k + 1, Len(write))
            /\ state' = "Open" => state = "Open"
PROOF
<1>0. write \in Seq(Bytes)
  BY DEF TypeOK
<1>1. CASE Recv
  <2> DEFINE f == Whole(Framed(Head(queue)))
  <2>1. /\ write' = write \o Framed(Head(queue)) /\ UNCHANGED wireOut
        /\ Head(queue) \in {"Close", "Shutdown"} => state' = "Closing"
        /\ state' = "Open" => state = "Open"
    BY <1>1 DEF Recv, LoopTop
  <2>2. f \in Seq(Frames) /\ Whole(write') = Whole(write) \o f
    BY <1>0, <2>1, WholeAdd DEF Framed
  <2>3. Has("Close", f) => Head(queue) \in {"Close", "Shutdown"}
    BY HasOne, WholeEncode DEF Framed
  <2> HIDE DEF f
  <2> QED
    BY <2>1, <2>2, <2>3
<1>2. ASSUME NEW k \in 1 .. Len(write), WriteSome(k) \/ DrainWrite(k)
      PROVE  /\ wireOut' = wireOut \o Whole(SubSeq(write, 1, k))
             /\ write' = SubSeq(write, k + 1, Len(write))
             /\ state' = "Open" => state = "Open"
  BY <1>2 DEF WriteSome, DrainWrite, Unwritten
<1>3. CASE Decode \/ \E k \in 1 .. Len(wireIn) : Read(k)
  <2>1. PICK b : HandleMessage(b)
    BY <1>3 DEF Decode, Read
  <2>2. UNCHANGED <<wireOut, state>>
    BY <2>1 DEF HandleMessage
  <2>3. write' = write \/ write' = write \o Encode("Pong")
    BY <2>1 DEF HandleMessage, Callback, OnClose, BadMessage, LoopTop, Leave, Fails
  <2> DEFINE f == Whole(Encode("Pong"))
  <2>4. f \in Seq(Frames) /\ Whole(write \o Encode("Pong")) = Whole(write) \o f
    BY <1>0, WholeAdd
  <2>5. ~Has("Close", f)
    BY HasOne, WholeEncode
  <2> HIDE DEF f
  <2> QED
    BY <2>2, <2>3, <2>4, <2>5
<1>4. CASE OnLogic \/ OnOpen \/ Connect
  BY <1>4 DEF OnLogic, OnOpen, Connect, LoopTop, Fails
<1>5. CASE \/ AcceptFails \/ ConnectFails \/ ReadTimesOut \/ SocketError
           \/ ReadEof \/ ClosingExpires \/ RecvNone \/ LingerDone \/ ProcessClosed
  BY <1>5 DEF AcceptFails, ConnectFails, ReadTimesOut, SocketError, ReadEof,
       ClosingExpires, RecvNone, LingerDone, ProcessClosed, Fails, Leave
<1>6. CASE \/ PeerSend \/ PeerShutdown \/ AppSend \/ AppDrop \/ Tick
           \/ UNCHANGED vars \/ TryAccept \/ ReportError
  BY <1>6 DEF PeerSend, PeerShutdown, AppSend, AppDrop, Tick, TryAccept,
       ReportError, vars, connVars, outVars
<1> QED
  BY <1>1, <1>2, <1>3, <1>4, <1>5, <1>6
     DEF Next, Peer, App, Outside, Task, Finished

\* What an end does to what it has heard.
LEMMA HeardStep ==
  ASSUME TypeOK, [Next]_vars
  PROVE  \/ UNCHANGED <<delivered, onClose>>
         \/ /\ UNCHANGED delivered
            /\ onClose' = Append(onClose, "Error")
            /\ pc = "failed"
         \/ /\ pc = "select" /\ state = "Open" /\ state' = "Open"
            /\ \E d \in Seq(Items) :
                 /\ delivered' = delivered \o d
                 /\ \/ UNCHANGED onClose
                       /\ (conf.raw \/ ~Has("Close", d))
                    \/ /\ onClose' = Append(onClose, "peer") /\ pc' = "done"
                       /\ d = <<"Close">>
PROOF
<1>1. CASE Decode \/ \E k \in 1 .. Len(wireIn) : Read(k)
  <2>1. PICK b \in Seq(Items) : b # <<>> /\ HandleMessage(b)
    BY <1>1, ReadSplits DEF Decode, Read, TypeOK
  <2>2. pc = "select" /\ state = "Open" /\ state' = "Open"
    BY <1>1 DEF Decode, Read, Opened, HandleMessage
  <2>3. Decoded(b) \in Seq(Items)
    BY <2>1, DecodeSplits
  <2>4. ~conf.raw => /\ Decoded(b) = <<Head(b)>>
                     /\ Has("Close", Decoded(b)) => Head(b) = "Close"
    BY HasOne DEF Decoded
  <2>5. \/ UNCHANGED <<delivered, onClose>>
        \/ /\ delivered' = delivered \o Decoded(b) /\ UNCHANGED onClose
           /\ conf.raw \/ Head(b) # "Close"
        \/ /\ delivered' = delivered \o Decoded(b)
           /\ onClose' = Append(onClose, "peer") /\ pc' = "done"
           /\ ~conf.raw /\ Head(b) = "Close"
    BY <2>1 DEF HandleMessage, Callback, OnClose, BadMessage, Leave
  <2> QED
    BY <2>2, <2>3, <2>4, <2>5
<1>2. CASE ReportError
  BY <1>2 DEF ReportError, inVars
<1>3. ASSUME NEW k \in 1 .. Len(write), WriteSome(k) \/ DrainWrite(k)
      PROVE  UNCHANGED <<delivered, onClose>>
  BY <1>3 DEF WriteSome, DrainWrite, inVars, endVars
<1>4. CASE \/ Recv \/ OnLogic \/ OnOpen \/ Connect
           \/ AcceptFails \/ ConnectFails \/ ReadTimesOut \/ SocketError
           \/ ReadEof \/ ClosingExpires \/ RecvNone \/ LingerDone \/ ProcessClosed
  BY <1>4 DEF Recv, OnLogic, OnOpen, Connect, AcceptFails, ConnectFails,
       ReadTimesOut, SocketError, ReadEof, ClosingExpires, RecvNone, LingerDone,
       ProcessClosed, inVars, endVars
<1>5. CASE \/ PeerSend \/ PeerShutdown \/ AppSend \/ AppDrop \/ Tick
           \/ UNCHANGED vars \/ TryAccept
  BY <1>5 DEF PeerSend, PeerShutdown, AppSend, AppDrop, Tick, TryAccept,
       vars, inVars, endVars
<1> QED
  BY <1>1, <1>2, <1>3, <1>4, <1>5 DEF Next, Peer, App, Outside, Task, Finished

LEMMA ConfStep == [Next]_vars => conf' = conf
BY DEF Next, Peer, App, Outside, Task, Finished, PeerSend, PeerShutdown, AppSend,
       AppDrop, TryAccept, AcceptFails, OnOpen, SocketError, OnLogic, Read, ReadEof,
       WriteSome, DrainWrite, Connect, ConnectFails, Decode, HandleMessage,
       ReadTimesOut, ClosingExpires, LingerDone, ProcessClosed, Recv, RecvNone,
       ReportError, Tick, vars, connVars, outVars, inVars, endVars

\* Only a read of 0 bytes ends a connection so.
LEMMA EofStep ==
  ASSUME [Next]_vars, end' = "eof", end # "eof"
  PROVE  ReadEof /\ pc' = "done" /\ UNCHANGED inVars
BY DEF Next, Peer, App, Outside, Task, Finished, PeerSend, PeerShutdown, AppSend,
       AppDrop, TryAccept, AcceptFails, OnOpen, SocketError, OnLogic, Read, ReadEof,
       WriteSome, DrainWrite, Connect, ConnectFails, Decode, HandleMessage, Callback,
       OnClose, BadMessage, ReadTimesOut, ClosingExpires, LingerDone, ProcessClosed,
       Recv, RecvNone, ReportError, Tick, Leave, Fails, LoopTop,
       vars, connVars, outVars, inVars, endVars

LEMMA EndStep ==
  ASSUME TypeOK, EndInv, [Next]_vars
  PROVE  EndInv'
PROOF
<1>0. /\ Whole(write) \in Seq(Frames) /\ wireOut \in Seq(Frames)
      /\ wireOut \o Whole(write) \in Seq(Frames)
      /\ delivered \in Seq(Items) /\ onClose \in Seq({"peer", "Error"})
      /\ conf' = conf
  BY WholeTypes, ConcatProperties, ConfStep DEF TypeOK
<1>1. Has("Close", wireOut' \o Whole(write')) => state' # "Open"
  <2>1. CASE UNCHANGED <<wireOut, write>> /\ (state' = "Open" => state = "Open")
    BY <2>1 DEF EndInv
  <2>2. CASE /\ UNCHANGED wireOut
             /\ \E f \in Seq(Frames) :
                  /\ Whole(write') = Whole(write) \o f
                  /\ Has("Close", f) => state' # "Open"
             /\ state' = "Open" => state = "Open"
    <3>1. PICK f \in Seq(Frames) : /\ Whole(write') = Whole(write) \o f
                                   /\ Has("Close", f) => state' # "Open"
      BY <2>2
    <3>2. wireOut' \o Whole(write') = (wireOut \o Whole(write)) \o f
      <4>1. \A x, y \in Seq(Frames) : (wireOut \o x) \o y = wireOut \o (x \o y)
        BY <1>0, FramesAssociative
      <4> QED
        BY <1>0, <2>2, <3>1, <4>1
    <3>3. Has("Close", (wireOut \o Whole(write)) \o f)
            <=> Has("Close", wireOut \o Whole(write)) \/ Has("Close", f)
      BY <1>0, HasSplit
    <3> QED
      BY <2>2, <3>1, <3>2, <3>3 DEF EndInv
  <2>3. CASE /\ \E k \in 1 .. Len(write) :
                  /\ wireOut' = wireOut \o Whole(SubSeq(write, 1, k))
                  /\ write' = SubSeq(write, k + 1, Len(write))
             /\ state' = "Open" => state = "Open"
    <3>1. PICK k \in 1 .. Len(write) :
                  /\ wireOut' = wireOut \o Whole(SubSeq(write, 1, k))
                  /\ write' = SubSeq(write, k + 1, Len(write))
      BY <2>3
    <3>4. wireOut' \o Whole(write') = wireOut \o Whole(write)
      BY <3>1, TakenSame
    <3> QED
      BY <2>3, <3>4 DEF EndInv
  <2> QED
    BY <2>1, <2>2, <2>3, SaidStep
<1>2. /\ Has("peer", onClose') =>
           pc' = "done" /\ state' = "Open" /\ Has("Close", delivered')
      /\ ~conf'.raw /\ Has("Close", delivered') => pc' = "done"
  <2>1. CASE pc = "done"
    <3>1. pc' = "done" /\ UNCHANGED <<state, delivered, onClose>>
      BY <2>1, DoneStep
    <3> QED
      BY <3>1 DEF EndInv
  <2>2. CASE pc # "done"
    <3>1. ~Has("peer", onClose) /\ (~conf.raw => ~Has("Close", delivered))
      BY <2>2 DEF EndInv
    <3>2. CASE UNCHANGED <<delivered, onClose>>
      BY <1>0, <3>1, <3>2
    <3>3. CASE UNCHANGED delivered /\ onClose' = Append(onClose, "Error")
      <4>1. onClose' = onClose \o <<"Error">> /\ <<"Error">> \in Seq({"peer", "Error"})
        BY <1>0, <3>3, AppendIsConcat
      <4>2. Has("peer", onClose \o <<"Error">>)
              <=> Has("peer", onClose) \/ Has("peer", <<"Error">>)
        BY <1>0, <4>1, HasSplit
      <4>3. ~Has("peer", <<"Error">>)
        BY HasOne
      <4> QED
        BY <1>0, <3>1, <3>3, <4>1, <4>2, <4>3
    <3>4. ASSUME NEW d \in Seq(Items), delivered' = delivered \o d,
                 state' = "Open",
                 \/ UNCHANGED onClose /\ (conf.raw \/ ~Has("Close", d))
                 \/ /\ onClose' = Append(onClose, "peer") /\ pc' = "done"
                    /\ d = <<"Close">>
          PROVE  /\ Has("peer", onClose') =>
                      pc' = "done" /\ state' = "Open" /\ Has("Close", delivered')
                 /\ ~conf'.raw /\ Has("Close", delivered') => pc' = "done"
      <4>1. Has("Close", delivered') <=> Has("Close", delivered) \/ Has("Close", d)
        BY <1>0, <3>4, HasSplit
      <4>2. Has("Close", <<"Close">>)
        BY HasOne
      <4> QED
        BY <1>0, <3>1, <3>4, <4>1, <4>2
    <3> QED
      BY <3>2, <3>3, <3>4, HeardStep
  <2> QED
    BY <2>1, <2>2
<1>3. end' = "eof" => pc' = "done" /\ peerEof'
  <2>1. CASE end = "eof"
    BY <2>1, DoneStep DEF EndInv
  <2>2. CASE end # "eof"
    BY <2>2, EofStep DEF ReadEof, inVars
  <2> QED
    BY <2>1, <2>2
<1> QED
  BY <1>1, <1>2, <1>3 DEF EndInv

\* An end that reads the end of the stream has heard all its peer said, and
\* so no Close.
LEMMA EofHeardAll ==
  ASSUME TypeOK, InboundExact, EndInv, ReadEof, ~conf.raw
  PROVE  ~Has("Close", peerSent)
PROOF
<1>1. /\ pc = "select" /\ read = <<>> /\ wireIn = <<>>
      /\ delivered \in Seq(Items)
  BY DEF ReadEof, Opened, TypeOK
<1>2. peerSent = delivered
  BY <1>1, ConcatEmptySeq DEF InboundExact
<1> QED
  BY <1>1, <1>2 DEF EndInv

\* Frames are only ever added to the wire.
LEMMA OutStep ==
  ASSUME TypeOK, [Next]_vars
  PROVE  LET t == SubSeq(wireOut', Len(wireOut) + 1, Len(wireOut'))
         IN  t \in Seq(Frames) /\ wireOut' = wireOut \o t
PROOF
<1>1. wireOut \in Seq(Frames) /\ write \in Seq(Bytes) /\ Len(wireOut) \in Nat
      /\ <<>> \in Seq(Frames)
  BY LenProperties, EmptySeq DEF TypeOK
<1>2. PICK u \in Seq(Frames) : wireOut' = wireOut \o u
  <2>1. wireOut = wireOut \o <<>>
    BY <1>1, ConcatEmptySeq
  <2>2. \A k \in 1 .. Len(write) : Whole(SubSeq(write, 1, k)) \in Seq(Frames)
    BY <1>1, WholeTake
  <2> QED
    BY <1>1, <2>1, <2>2, SaidStep
<1>3. SubSeq(wireOut', Len(wireOut) + 1, Len(wireOut')) = u
  BY <1>1, <1>2, AppendedPart
<1> QED
  BY <1>2, <1>3

\* What the other end has written arrives in the socket.
LEMMA FillStep ==
  ASSUME TypeOK, InboundExact, NEW t \in Seq(Frames),
         peerSent' = peerSent \o t, wireIn' = wireIn \o t,
         UNCHANGED <<connVars, queue, senders, accepted, write, wireOut,
                     peerEof, read, delivered, endVars>>
  PROVE  TypeOK' /\ InboundExact'
PROOF
<1>1. t \in Seq(Items)
  <2>1. Frames \subseteq Items
    BY DEF Frames, Items
  <2> QED
    BY <2>1
<1>2. peerSent' \in Seq(Items) /\ wireIn' \in Seq(Items)
      /\ delivered \o read \in Seq(Items)
  BY <1>1, ConcatProperties DEF TypeOK
<1>3. TypeOK'
  BY <1>2 DEF TypeOK, connVars, endVars
<1>4. \A x, y \in Seq(Items) : (((delivered \o read) \o x) \o y) = (delivered \o read) \o (x \o y)
  BY <1>2, ItemsAssociative
<1>5. ((delivered \o read) \o wireIn) \o t = (delivered \o read) \o (wireIn \o t)
  BY <1>1, <1>4 DEF TypeOK
<1> QED
  BY <1>3, <1>5 DEF InboundExact

-----------------------------------------------------------------------------
(* A Pong for every Ping.                                                  *)

\* Writing moves frames to the wire and leaves what is said as it is.
LEMMA WriteMoves ==
  ASSUME TypeOK, NEW k \in 1 .. Len(write), WriteSome(k) \/ DrainWrite(k)
  PROVE  wireOut' \o Whole(write') = wireOut \o Whole(write)
BY TakenSame DEF WriteSome, DrainWrite, Unwritten

\* What a step that the loop survives adds to what is said and to what is
\* heard: as many Pongs as Pings.
Answered(f, d) ==
  /\ wireOut' \o Whole(write') = (wireOut \o Whole(write)) \o f
  /\ delivered' = delivered \o d
  /\ Count("Pong", f) = Count("Ping", d)

LEMMA AnswerStep ==
  ASSUME TypeOK, [Next]_vars, Alive', ~conf.raw
  PROVE  Alive /\ \E f \in Seq(Frames), d \in Seq(Items) : Answered(f, d)
PROOF
<1>0. /\ wireOut \in Seq(Frames) /\ write \in Seq(Bytes)
      /\ Whole(write) \in Seq(Frames)
      /\ wireOut \o Whole(write) \in Seq(Frames)
      /\ delivered \in Seq(Items)
      /\ <<>> \in Seq(Frames) /\ <<>> \in Seq(Items)
      /\ Count("Pong", <<>>) = 0 /\ Count("Ping", <<>>) = 0
  BY WholeTypes, ConcatProperties, EmptySeq, CountShort DEF TypeOK
<1>8. \A x, y \in Seq(Frames) : (wireOut \o x) \o y = wireOut \o (x \o y)
  BY <1>0, FramesAssociative
<1>1. ASSUME wireOut' \o Whole(write') = wireOut \o Whole(write), delivered' = delivered
      PROVE  \E f \in Seq(Frames), d \in Seq(Items) : Answered(f, d)
  <2>1. Answered(<<>>, <<>>)
    BY <1>0, <1>1, ConcatEmptySeq DEF Answered
  <2> QED
    BY <1>0, <2>1
<1>2. CASE Recv
  <2> DEFINE f == Whole(Framed(Head(queue)))
  <2>1. /\ write' = write \o Framed(Head(queue)) /\ Alive
        /\ UNCHANGED <<wireOut, delivered>>
    BY <1>2 DEF Recv, LoopTop, inVars, InLoop, Alive
  <2>2. f \in Seq(Frames) /\ Whole(write') = Whole(write) \o f
    BY <1>0, <2>1, WholeAdd DEF Framed
  <2>3. Head(queue) # "Pong"
    <3>1. queue \in Seq(Commands) /\ queue # <<>>
      BY <1>2 DEF Recv, TypeOK
    <3>2. Head(queue) \in Commands
      BY <3>1, HeadTailProperties
    <3> QED
      BY <3>2 DEF Commands
  <2>4. Count("Pong", f) = 0
    BY <1>0, <2>3, CountShort, WholeEncode DEF Framed
  <2> HIDE DEF f
  <2>5. wireOut' \o Whole(write') = (wireOut \o Whole(write)) \o f
    <3>1. (wireOut \o Whole(write)) \o f = wireOut \o (Whole(write) \o f)
      BY <1>0, <1>8, <2>2
    <3> QED
      BY <2>1, <2>2, <3>1
  <2>6. Answered(f, <<>>)
    BY <1>0, <2>1, <2>4, <2>5, ConcatEmptySeq DEF Answered
  <2> QED
    BY <1>0, <2>1, <2>2, <2>6
<1>3. CASE Decode \/ \E k \in 1 .. Len(wireIn) : Read(k)
  <2>1. PICK b \in Seq(Items) : b # <<>> /\ HandleMessage(b) /\ Alive
    BY <1>3, ReadSplits DEF Decode, Read, TypeOK, Opened, Alive
  <2> DEFINE f == IF Head(b) = "Ping" THEN Whole(Encode("Pong")) ELSE <<>>
             d == <<Head(b)>>
  <2>2. Callback(b) /\ LoopTop(IF Head(b) = "Ping" THEN write \o Encode("Pong") ELSE write)
    BY <2>1 DEF HandleMessage, Callback, OnClose, BadMessage, Leave, Fails, Alive
  <2>3. f \in Seq(Frames) /\ d \in Seq(Items)
    BY <1>0, <2>1, WholeAdd, HeadSplits
  <2>4. delivered' = delivered \o d /\ UNCHANGED wireOut
    BY <2>1, <2>2 DEF Callback, Decoded, HandleMessage
  <2>5. Count("Pong", f) = Count("Ping", d)
    BY <1>0, CountShort, WholeEncode DEF Frames
  <2>6. Whole(write') = Whole(write) \o f
    BY <1>0, <2>2, WholeAdd, ConcatEmptySeq DEF LoopTop
  <2> HIDE DEF f, d
  <2>7. wireOut' \o Whole(write') = (wireOut \o Whole(write)) \o f
    <3>1. (wireOut \o Whole(write)) \o f = wireOut \o (Whole(write) \o f)
      BY <1>0, <1>8, <2>3
    <3> QED
      BY <2>4, <2>6, <3>1
  <2> QED
    BY <2>1, <2>3, <2>4, <2>5, <2>7 DEF Answered
<1>4. ASSUME NEW k \in 1 .. Len(write), WriteSome(k) \/ DrainWrite(k)
      PROVE  Alive /\ \E f \in Seq(Frames), d \in Seq(Items) : Answered(f, d)
  <2>1. wireOut' \o Whole(write') = wireOut \o Whole(write)
    BY <1>4, WriteMoves
  <2>2. delivered' = delivered /\ Alive
    BY <1>4 DEF WriteSome, DrainWrite, inVars, Opened, Closing, Alive
  <2> QED
    BY <1>1, <2>1, <2>2
<1>5. CASE OnLogic \/ OnOpen \/ Connect \/ TryAccept
  <2>1. UNCHANGED <<wireOut, write, delivered>> /\ Alive
    BY <1>5 DEF OnLogic, OnOpen, Connect, TryAccept, LoopTop, Fails, inVars,
         outVars, InLoop, Alive
  <2> QED
    BY <1>1, <2>1
<1>6. CASE PeerSend \/ PeerShutdown \/ AppSend \/ AppDrop \/ Tick \/ UNCHANGED vars
  <2>1. UNCHANGED <<wireOut, write, delivered>> /\ Alive
    BY <1>6 DEF PeerSend, PeerShutdown, AppSend, AppDrop, Tick, Sleeping, InLoop,
         Alive, vars, connVars, outVars, inVars
  <2> QED
    BY <1>1, <2>1
<1>7. CASE \/ AcceptFails \/ ConnectFails \/ ReadTimesOut \/ SocketError
           \/ ReadEof \/ ClosingExpires \/ RecvNone \/ LingerDone \/ ProcessClosed
           \/ ReportError
  BY <1>7 DEF AcceptFails, ConnectFails, ReadTimesOut, SocketError, ReadEof,
       ClosingExpires, RecvNone, LingerDone, ProcessClosed, ReportError, Fails,
       Leave, Alive
<1> QED
  BY <1>2, <1>3, <1>4, <1>5, <1>6, <1>7
     DEF Next, Peer, App, Outside, Task, Finished

PongInv ==
  Alive /\ ~conf.raw =>
    Count("Pong", wireOut \o Whole(write)) = Count("Ping", delivered)

LEMMA PongStep ==
  ASSUME TypeOK, PongInv, [Next]_vars
  PROVE  PongInv'
PROOF
<1> SUFFICES ASSUME Alive', ~conf'.raw
             PROVE  Count("Pong", wireOut' \o Whole(write')) = Count("Ping", delivered')
  BY DEF PongInv
<1>1. ~conf.raw
  BY ConfStep
<1>2. Alive /\ \E f \in Seq(Frames), d \in Seq(Items) : Answered(f, d)
  BY <1>1, AnswerStep
<1>3. PICK f \in Seq(Frames), d \in Seq(Items) : Answered(f, d)
  BY <1>2
<1> DEFINE out == wireOut \o Whole(write)
<1>4. out \in Seq(Frames) /\ delivered \in Seq(Items)
  BY WholeTypes, ConcatProperties DEF TypeOK
<1>5. Count("Pong", out) = Count("Ping", delivered)
  BY <1>1, <1>2 DEF PongInv
<1>6. wireOut' \o Whole(write') = out \o f /\ delivered' = delivered \o d
      /\ Count("Pong", f) = Count("Ping", d)
  BY <1>3 DEF Answered
<1> HIDE DEF out
<1>7. Count("Pong", out \o f) = Count("Pong", out) + Count("Pong", f)
  BY <1>4, CountConcat
<1>8. Count("Ping", delivered \o d) = Count("Ping", delivered) + Count("Ping", d)
  BY <1>4, CountConcat
<1> QED
  BY <1>5, <1>6, <1>7, <1>8

\* While the loop runs, as many Pongs were encoded as Pings were delivered,
\* however process() was cut short between reading and writing.
THEOREM PongsCorrect == Spec => []PongsMatch
PROOF
<1>1. Init => PongInv
  BY ConcatEmptySeq, EmptySeq, CountShort, WholeParts DEF Init, PongInv
<1>2. PongInv => PongsMatch
  BY DEF PongInv, PongsMatch, Alive, InLoop
<1> QED
  BY <1>1, <1>2, TypeCorrect, PongStep, PTL DEF Spec

-----------------------------------------------------------------------------
(* What the peer hears of the application.                                 *)

\* What one frame and what one command adds to what is said.
Word == [f \in Items |-> IF f = "Pong" THEN <<>> ELSE <<f>>]
Telling == [c \in Commands |-> Whole(Framed(c))]

LEMMA SpokenParts ==
  /\ \A s \in Seq(Items) : Spoken(s) \in Seq(Items)
  /\ \A s, t \in Seq(Items) : Spoken(s \o t) = Spoken(s) \o Spoken(t)
  /\ Spoken(<<>>) = <<>> /\ Spoken(<<"Pong">>) = <<>>
  /\ \A f \in Frames \ {"Pong"} : Spoken(<<f>>) = <<f>>
PROOF
<1>1. Word \in [Items -> Seq(Items)]
  <2>1. \A f \in Items : <<f>> \in Seq(Items) /\ <<>> \in Seq(Items)
    BY EmptySeq
  <2> QED
    BY <2>1 DEF Word
<1>2. \A f \in Items : Word[f] = IF f = "Pong" THEN <<>> ELSE <<f>>
  BY DEF Word
<1>3. \A s : Spoken(s) = Expand(Word, s)
  BY DEF Spoken, Word
<1> HIDE DEF Word
<1>4. \A s \in Seq(Items) : Expand(Word, s) \in Seq(Items)
  BY <1>1, ExpandTypes
<1>5. \A s, t \in Seq(Items) : Expand(Word, s \o t) = Expand(Word, s) \o Expand(Word, t)
  BY <1>1, ExpandConcat
<1>6. \A f \in Items : Expand(Word, <<f>>) = Word[f]
  BY <1>1, ExpandShort
<1>7. Expand(Word, <<>>) = <<>>
  BY ExpandShort
<1>8. "Pong" \in Items /\ \A f \in Frames : f \in Items
  BY DEF Items, Frames
<1> QED
  BY <1>2, <1>3, <1>4, <1>5, <1>6, <1>7, <1>8

LEMMA ToldParts ==
  /\ \A s \in Seq(Commands) : Told(s) \in Seq(Frames)
  /\ \A s, t \in Seq(Commands) : Told(s \o t) = Told(s) \o Told(t)
  /\ Told(<<>>) = <<>>
  /\ \A c \in Commands : Told(<<c>>) = Whole(Framed(c))
PROOF
<1>1. Telling \in [Commands -> Seq(Frames)]
  BY EncodeType, WholeTypes DEF Telling, Framed
<1>2. \A c \in Commands : Telling[c] = Whole(Framed(c))
  BY DEF Telling
<1>3. \A s : Told(s) = Expand(Telling, s)
  BY DEF Told, Telling
<1> HIDE DEF Telling
<1>4. \A s \in Seq(Commands) : Expand(Telling, s) \in Seq(Frames)
  BY <1>1, ExpandTypes
<1>5. \A s, t \in Seq(Commands) :
        Expand(Telling, s \o t) = Expand(Telling, s) \o Expand(Telling, t)
  BY <1>1, ExpandConcat
<1>6. \A c \in Commands : Expand(Telling, <<c>>) = Telling[c]
  BY <1>1, ExpandShort
<1>7. Expand(Telling, <<>>) = <<>>
  BY ExpandShort
<1> QED
  BY <1>2, <1>3, <1>4, <1>5, <1>6, <1>7

\* A step takes a command and encodes its frame, or has a command accepted,
\* or moves frames and perhaps adds a Pong.
LEMMA SayStep ==
  ASSUME TypeOK, [Next]_vars
  PROVE  \/ /\ queue # <<>> /\ queue' = Tail(queue)
            /\ UNCHANGED <<accepted, wireOut>>
            /\ write' = write \o Framed(Head(queue))
         \/ /\ \E c \in Commands : /\ queue' = Append(queue, c)
                                  /\ accepted' = Append(accepted, c)
            /\ UNCHANGED <<wireOut, write>>
         \/ /\ UNCHANGED <<queue, accepted>>
            /\ \/ wireOut' \o Whole(write') = wireOut \o Whole(write)
               \/ /\ ~conf.raw
                  /\ wireOut' \o Whole(write') = (wireOut \o Whole(write)) \o <<"Pong">>
PROOF
<1>0. /\ wireOut \in Seq(Frames) /\ write \in Seq(Bytes)
      /\ Whole(write) \in Seq(Frames)
  BY WholeTypes DEF TypeOK
<1>1. CASE Recv
  BY <1>1 DEF Recv, LoopTop
<1>2. CASE AppSend
  BY <1>2 DEF AppSend
<1>3. CASE Decode \/ \E k \in 1 .. Len(wireIn) : Read(k)
  <2>1. PICK b : HandleMessage(b)
    BY <1>3 DEF Decode, Read
  <2>2. UNCHANGED <<wireOut, queue, accepted>>
    BY <2>1 DEF HandleMessage
  <2>3. write' = write \/ write' = write \o Encode("Pong")
    BY <2>1 DEF HandleMessage, Callback, OnClose, BadMessage, LoopTop, Leave, Fails
  <2>4. Whole(write \o Encode("Pong"))
          = Whole(write) \o (IF conf.raw THEN <<>> ELSE <<"Pong">>)
    BY <1>0, WholeAdd, WholeEncode DEF Frames
  <2>5. Whole(write) \o <<>> = Whole(write) /\ <<"Pong">> \in Seq(Frames)
    BY <1>0, ConcatEmptySeq DEF Frames
  <2>6. wireOut \o (Whole(write) \o <<"Pong">>) = (wireOut \o Whole(write)) \o <<"Pong">>
    BY <1>0, <2>5, FramesAssociative
  <2> QED
    BY <2>2, <2>3, <2>4, <2>5, <2>6
<1>4. ASSUME NEW k \in 1 .. Len(write), WriteSome(k) \/ DrainWrite(k)
      PROVE  UNCHANGED <<queue, accepted>> /\ wireOut' \o Whole(write') = wireOut \o Whole(write)
  <2>1. UNCHANGED <<queue, accepted>>
    BY <1>4 DEF WriteSome, DrainWrite
  <2> QED
    BY <1>4, <2>1, WriteMoves
<1>5. CASE \/ OnLogic \/ OnOpen \/ Connect
           \/ AcceptFails \/ ConnectFails \/ ReadTimesOut \/ SocketError
           \/ ReadEof \/ ClosingExpires \/ RecvNone \/ LingerDone \/ ProcessClosed
  BY <1>5 DEF OnLogic, OnOpen, Connect, AcceptFails, ConnectFails, ReadTimesOut,
       SocketError, ReadEof, ClosingExpires, RecvNone, LingerDone, ProcessClosed,
       LoopTop, Fails, Leave
<1>6. CASE \/ PeerSend \/ PeerShutdown \/ AppDrop \/ Tick
           \/ UNCHANGED vars \/ TryAccept \/ ReportError
  BY <1>6 DEF PeerSend, PeerShutdown, AppDrop, Tick, TryAccept, ReportError,
       vars, connVars, outVars
<1> QED
  BY <1>1, <1>2, <1>3, <1>4, <1>5, <1>6
     DEF Next, Peer, App, Outside, Task, Finished

\* What makes OutboundExact inductive: the commands taken and those in the
\* channel are the commands accepted.
SayInv == accepted = Taken \o queue /\ OutboundExact

LEMMA TakenType ==
  ASSUME TypeOK, SayInv
  PROVE  Taken \in Seq(Commands)
PROOF
<1> DEFINE n == Len(accepted) - Len(queue)
<1>1. accepted \in Seq(Commands) /\ queue \in Seq(Commands) /\ accepted = Taken \o queue
  BY DEF TypeOK, SayInv
<1>2. Len(accepted) \in Nat /\ Len(queue) \in Nat
  BY <1>1, LenProperties
<1>3. \A i \in 1 .. n : accepted[i] \in Commands
  <2>1. \A i \in 1 .. Len(accepted) : accepted[i] \in Commands
    BY <1>1, ElementOfSeq
  <2> QED
    BY <1>2, <2>1
<1> HIDE DEF n
<1>4. SubSeq(accepted, 1, n) \in Seq(Commands)
  BY <1>2, <1>3, SubSeqProperties DEF n
<1> QED
  BY <1>4 DEF Taken, n

LEMMA CommandsAssociative ==
  \A s, t, u \in Seq(Commands) : (s \o t) \o u = s \o (t \o u)
PROOF
<1> TAKE s, t, u \in Seq(Commands)
<1> QED
  BY ConcatAssociative

\* The settings of a connection do not change, nor what its commands say.
LEMMA ToldSame == conf' = conf => \A s : Told(s)' = Told(s)
BY DEF Told, Framed, Encode, Whole

LEMMA SayInvStep ==
  ASSUME TypeOK, SayInv, [Next]_vars
  PROVE  SayInv'
PROOF
<1> DEFINE out == wireOut \o Whole(write)
           taken == Taken
<1>1. /\ queue \in Seq(Commands) /\ accepted \in Seq(Commands)
      /\ wireOut \in Seq(Frames) /\ write \in Seq(Bytes)
      /\ Whole(write) \in Seq(Frames) /\ out \in Seq(Frames)
      /\ taken \in Seq(Commands)
      /\ accepted = taken \o queue /\ Spoken(out) = Told(taken)
  BY TakenType, WholeTypes, ConcatProperties DEF TypeOK, SayInv, OutboundExact
<1>2. \A s, r : accepted' = s \o r /\ queue' = r
                  /\ s \in Seq(Commands) /\ r \in Seq(Commands)
                 => Taken' = s
  BY TakenPart DEF Taken
<1>3. \A s \in Seq(Frames) : s \in Seq(Items)
  BY DEF Frames, Items
<1>4. ASSUME NEW s \in Seq(Commands), NEW r \in Seq(Commands), NEW f \in Seq(Frames),
             accepted' = s \o r, queue' = r,
             wireOut' \o Whole(write') = out \o f, Told(s) = Told(taken) \o Spoken(f)
      PROVE  SayInv'
  <2>1. Taken' = s
    BY <1>2, <1>4
  <2>2. Spoken(out \o f) = Spoken(out) \o Spoken(f)
    <3> HIDE DEF out
    <3> QED
      BY <1>1, <1>3, <1>4, SpokenParts
  <2>3. Told(s)' = Told(s)
    BY ToldSame, ConfStep
  <2>4. Spoken(wireOut' \o Whole(write')) = Told(s)
    BY <1>1, <1>4, <2>2
  <2>5. Told(Taken)' = Told(s)
    BY <2>1, <2>3 DEF Told
  <2> QED
    BY <1>4, <2>1, <2>4, <2>5 DEF SayInv, OutboundExact, Spoken
<1> HIDE DEF out, taken
<1>5. CASE /\ queue # <<>> /\ queue' = Tail(queue)
           /\ UNCHANGED <<accepted, wireOut>>
           /\ write' = write \o Framed(Head(queue))
  <2> DEFINE c == Head(queue)
             f == Whole(Framed(c))
             s == taken \o <<c>>
  <2>1. /\ c \in Commands /\ <<c>> \in Seq(Commands)
        /\ queue' \in Seq(Commands) /\ queue = <<c>> \o queue'
    BY <1>1, <1>5, HeadSplits
  <2>2. c # "Pong" /\ f \in Seq(Frames) /\ Spoken(f) = f
    <3>1. f = <<>> \/ \E x \in Frames \ {"Pong"} : f = <<x>>
      BY <2>1, WholeEncode DEF Framed, Commands, Frames
    <3>2. f \in Seq(Frames)
      BY EncodeType, WholeTypes DEF Framed
    <3> QED
      BY <2>1, <3>1, <3>2, SpokenParts DEF Commands
  <2>3. Told(s) = Told(taken) \o Spoken(f)
    <3>1. Told(<<c>>) = f
      BY <2>1, ToldParts
    <3>2. Told(taken \o <<c>>) = Told(taken) \o Told(<<c>>)
      <4> HIDE DEF c
      <4> QED
        BY <1>1, <2>1, ToldParts
    <3> QED
      BY <2>2, <3>1, <3>2
  <2> HIDE DEF c, f
  <2>4. s \in Seq(Commands) /\ accepted' = s \o queue'
    <3>1. \A x, y \in Seq(Commands) : (taken \o x) \o y = taken \o (x \o y)
      BY <1>1, CommandsAssociative
    <3>2. (taken \o <<c>>) \o queue' = taken \o (<<c>> \o queue')
      BY <2>1, <3>1
    <3>3. s \in Seq(Commands)
      BY <1>1, <2>1, ConcatProperties
    <3> QED
      BY <1>1, <1>5, <2>1, <3>2, <3>3
  <2>5. wireOut' \o Whole(write') = out \o f
    <3>1. Whole(write') = Whole(write) \o f
      BY <1>1, <1>5, WholeAdd DEF Framed, f, c
    <3>2. \A x, y \in Seq(Frames) : (wireOut \o x) \o y = wireOut \o (x \o y)
      BY <1>1, FramesAssociative
    <3> QED
      BY <1>1, <1>5, <2>2, <3>1, <3>2 DEF out
  <2> HIDE DEF s
  <2> QED
    BY <1>4, <2>1, <2>2, <2>3, <2>4, <2>5
<1>6. CASE /\ \E c \in Commands : /\ queue' = Append(queue, c)
                                /\ accepted' = Append(accepted, c)
           /\ UNCHANGED <<wireOut, write>>
  <2>1. PICK c \in Commands : queue' = Append(queue, c) /\ accepted' = Append(accepted, c)
    BY <1>6
  <2>2. /\ <<c>> \in Seq(Commands)
        /\ queue' = queue \o <<c>> /\ accepted' = accepted \o <<c>>
        /\ queue' \in Seq(Commands)
    BY <1>1, <2>1, AppendIsConcat, AppendProperties
  <2>3. accepted' = taken \o queue'
    BY <1>1, <2>2, CommandsAssociative
  <2>4. /\ wireOut' \o Whole(write') = out \o <<>> /\ <<>> \in Seq(Frames)
        /\ Told(taken) = Told(taken) \o Spoken(<<>>)
    BY <1>1, <1>6, EmptySeq, ConcatEmptySeq, SpokenParts, ToldParts DEF out
  <2> QED
    BY <1>1, <1>4, <2>2, <2>3, <2>4
<1>7. CASE /\ UNCHANGED <<queue, accepted>>
           /\ \E f \in {<<>>, <<"Pong">>} : wireOut' \o Whole(write') = out \o f
  <2>1. PICK f \in {<<>>, <<"Pong">>} : wireOut' \o Whole(write') = out \o f
    BY <1>7
  <2>2. f \in Seq(Frames) /\ Told(taken) = Told(taken) \o Spoken(f)
    <3>1. Spoken(f) = <<>>
      BY SpokenParts
    <3>2. f \in Seq(Frames)
      <4>1. "Pong" \in Frames /\ <<>> \in Seq(Frames)
        BY EmptySeq DEF Frames
      <4>2. <<"Pong">> \in Seq(Frames)
        BY <4>1
      <4> QED
        BY <4>1, <4>2
    <3>3. Told(taken) \in Seq(Frames)
      BY <1>1, ToldParts
    <3>4. Told(taken) \o <<>> = Told(taken)
      BY <3>3, ConcatEmptySeq
    <3> QED
      BY <3>1, <3>2, <3>4
  <2> QED
    BY <1>1, <1>4, <1>7, <2>1, <2>2
<1>8. wireOut' \o Whole(write') = out => wireOut' \o Whole(write') = out \o <<>>
  BY <1>1, ConcatEmptySeq
<1> QED
  BY <1>5, <1>6, <1>7, <1>8, SayStep DEF out

LEMMA SayInit == Init => SayInv
PROOF
<1> SUFFICES ASSUME Init PROVE SayInv
  OBVIOUS
<1>1. <<>> \in Seq(Commands) /\ <<>> \in Seq(Frames)
      /\ <<>> \o <<>> = <<>>
  BY EmptySeq, ConcatEmptySeq
<1>2. Taken = <<>>
  BY <1>1, TakenPart DEF Init, Taken
<1> QED
  BY <1>1, <1>2, SpokenParts, ToldParts, WholeParts DEF Init, SayInv, OutboundExact

\* On the wire and in the write buffer are the frames of exactly the commands
\* taken from the channel, in the order they were accepted: no write, whole or
\* in part, no dropped process() and no closing loses or repeats one.
THEOREM OutboundCorrect == Spec => []OutboundExact
PROOF
<1>1. SayInv => OutboundExact
  BY DEF SayInv
<1> QED
  BY <1>1, SayInit, TypeCorrect, SayInvStep, PTL DEF Spec


-----------------------------------------------------------------------------
(* What a connection is to the other end of its stream.                    *)

EofSound == ~conf.raw /\ end = "eof" => ~Has("Close", peerSent)

\* A step of this end: it keeps what it says of itself, takes nothing of its
\* peer's, and adds to the wire, unless it is done.
LEMMA OwnStep ==
  ASSUME TypeOK, InboundExact, EndInv, EofSound,
         App \/ Outside \/ Task \/ Tick
  PROVE  /\ TypeOK' /\ InboundExact' /\ EndInv' /\ EofSound'
         /\ UNCHANGED <<peerSent, peerEof>>
         /\ LET t == SubSeq(wireOut', Len(wireOut) + 1, Len(wireOut'))
            IN  t \in Seq(Frames) /\ wireOut' = wireOut \o t
         /\ pc = "done" => pc' = "done" /\ UNCHANGED wireOut
PROOF
<1>1. [Next]_vars
  BY DEF Next
<1>2. TypeOK' /\ InboundExact' /\ EndInv'
  BY <1>1, TypeStep, InboundStep, EndStep
<1>3. UNCHANGED <<peerSent, peerEof>>
  BY DEF App, Outside, Task, AppSend, AppDrop, TryAccept, AcceptFails, OnOpen,
         SocketError, OnLogic, Read, ReadEof, WriteSome, DrainWrite, Connect,
         ConnectFails, Decode, HandleMessage, ReadTimesOut, ClosingExpires,
         LingerDone, ProcessClosed, Recv, RecvNone, ReportError, Tick, inVars
<1>4. conf' = conf
  BY <1>1, ConfStep
<1>5. EofSound'
  <2>1. CASE end = "eof"
    BY <1>3, <1>4, <2>1 DEF EofSound
  <2>2. CASE end # "eof" /\ end' = "eof" /\ ~conf.raw
    <3>1. ReadEof
      BY <1>1, <2>2, EofStep
    <3> QED
      BY <1>3, <2>2, <3>1, EofHeardAll DEF EofSound
  <2> QED
    BY <1>4, <2>1, <2>2 DEF EofSound
<1>6. pc = "done" => pc' = "done" /\ UNCHANGED wireOut
  BY <1>1, DoneStep
<1> QED
  BY <1>1, <1>2, <1>3, <1>5, <1>6, OutStep

\* A step of the other end: what it writes arrives in the socket.
LEMMA OtherStep ==
  ASSUME TypeOK, InboundExact, EndInv, NEW t \in Seq(Frames),
         peerSent' = peerSent \o t, wireIn' = wireIn \o t,
         UNCHANGED <<connVars, queue, senders, accepted, write, wireOut,
                     peerEof, read, delivered, endVars>>
  PROVE  TypeOK' /\ InboundExact' /\ EndInv'
PROOF
<1>1. TypeOK' /\ InboundExact'
  BY FillStep
<1> QED
  BY <1>1 DEF EndInv, connVars, endVars

\* The end of the stream arrives in the socket.
LEMMA HungUpStep ==
  ASSUME TypeOK, InboundExact, EndInv, EofSound, PeerShutdown
  PROVE  /\ TypeOK' /\ InboundExact' /\ EndInv' /\ EofSound'
         /\ UNCHANGED <<wireOut, peerSent, pc, end, conf>>
PROOF
<1>1. [Next]_vars /\ UNCHANGED <<wireOut, peerSent, pc, end, conf>>
  BY DEF Next, Peer, PeerShutdown, connVars, outVars, endVars
<1> QED
  BY <1>1, TypeStep, InboundStep, EndStep DEF EofSound

LEMMA SameStep ==
  ASSUME TypeOK, InboundExact, EndInv, EofSound, UNCHANGED vars
  PROVE  TypeOK' /\ InboundExact' /\ EndInv' /\ EofSound'
BY DEF TypeOK, InboundExact, EndInv, EofSound, vars, connVars, outVars, inVars, endVars

\* Whose handler is told of the peer's Close has heard it, in Open.
LEMMA ToldHeard ==
  ASSUME TypeOK, InboundExact, EndInv, Has("peer", onClose)
  PROVE  state = "Open" /\ Has("Close", peerSent)
PROOF
<1>1. state = "Open" /\ Has("Close", delivered)
  BY DEF EndInv
<1>2. /\ delivered \in Seq(Items) /\ read \in Seq(Items) /\ wireIn \in Seq(Items)
      /\ delivered \o read \in Seq(Items)
  BY ConcatProperties DEF TypeOK
<1>3. Has("Close", delivered \o read)
  BY <1>1, <1>2, HasSplit
<1>4. Has("Close", (delivered \o read) \o wireIn)
  BY <1>2, <1>3, HasSplit
<1> QED
  BY <1>1, <1>4 DEF InboundExact

\* Who has written a Close is no longer Open.
LEMMA SaidClosing ==
  ASSUME TypeOK, EndInv, Has("Close", wireOut)
  PROVE  state # "Open"
PROOF
<1>1. wireOut \in Seq(Frames) /\ Whole(write) \in Seq(Frames)
  BY WholeTypes DEF TypeOK
<1>2. Has("Close", wireOut \o Whole(write))
  BY <1>1, HasSplit
<1> QED
  BY <1>2 DEF EndInv

\* What it hears and what it says, for the other end: a Close is the last
\* thing it hears, and a raw connection has no Close to say.
FlowInv ==
  /\ SayInv
  /\ ~conf.raw =>
       \A i \in 1 .. Len(delivered) : delivered[i] = "Close" => i = Len(delivered)
  /\ conf.raw => ~Has("Close", wireOut \o Whole(write))

LEMMA FlowInit == Init => FlowInv
PROOF
<1> SUFFICES ASSUME Init PROVE FlowInv
  OBVIOUS
<1>1. <<>> \o <<>> = <<>>
  BY EmptySeq, ConcatEmptySeq
<1> QED
  BY <1>1, HasOne, WholeParts, SayInit DEF Init, FlowInv

LEMMA FlowStep ==
  ASSUME TypeOK, EndInv, FlowInv, [Next]_vars
  PROVE  FlowInv'
PROOF
<1>0. /\ wireOut \in Seq(Frames) /\ write \in Seq(Bytes)
      /\ Whole(write) \in Seq(Frames)
      /\ wireOut \o Whole(write) \in Seq(Frames)
      /\ delivered \in Seq(Items) /\ conf' = conf
  BY WholeTypes, ConcatProperties, ConfStep DEF TypeOK
<1>1. SayInv'
  BY SayInvStep DEF FlowInv
<1>2. ASSUME ~conf.raw
      PROVE  \A i \in 1 .. Len(delivered') :
               delivered'[i] = "Close" => i = Len(delivered')
  <2>1. CASE UNCHANGED delivered
    BY <1>2, <2>1 DEF FlowInv
  <2>2. ASSUME NEW d \in Seq(Items), delivered' = delivered \o d, pc = "select",
               ~Has("Close", d) \/ d = <<"Close">>
        PROVE  \A i \in 1 .. Len(delivered') :
                 delivered'[i] = "Close" => i = Len(delivered')
    <3>1. ~Has("Close", delivered)
      BY <1>2, <2>2 DEF EndInv
    <3>2. /\ Len(delivered) \in Nat /\ Len(d) \in Nat
          /\ Len(delivered') = Len(delivered) + Len(d)
          /\ \A i \in 1 .. Len(delivered') :
               delivered'[i] = IF i <= Len(delivered) THEN delivered[i]
                                                      ELSE d[i - Len(delivered)]
      BY <1>0, <2>2, ConcatProperties, LenProperties
    <3> TAKE i \in 1 .. Len(delivered')
    <3> HAVE delivered'[i] = "Close"
    <3>3. i > Len(delivered)
      BY <3>1, <3>2 DEF Has
    <3>4. d[i - Len(delivered)] = "Close" /\ i - Len(delivered) \in 1 .. Len(d)
      BY <3>2, <3>3
    <3>5. d = <<"Close">>
      BY <2>2, <3>4 DEF Has
    <3> QED
      BY <3>2, <3>4, <3>5
  <2> QED
    BY <1>2, <2>1, <2>2, HeardStep
<1>3. ASSUME conf.raw
      PROVE  ~Has("Close", wireOut' \o Whole(write'))
  <2>1. ~Has("Close", wireOut \o Whole(write))
    BY <1>3 DEF FlowInv
  <2>2. CASE wireOut' \o Whole(write') = wireOut \o Whole(write)
    BY <2>1, <2>2
  <2>3. CASE /\ UNCHANGED wireOut
             /\ write' = write \o Framed(Head(queue))
    <3> DEFINE f == Whole(Framed(Head(queue)))
    <3>1. /\ f \in Seq(Frames) /\ ~Has("Close", f)
          /\ Whole(write') = Whole(write) \o f
      BY <1>0, <1>3, <2>3, WholeAdd, WholeEncode, HasOne DEF Framed
    <3> HIDE DEF f
    <3>2. wireOut' \o Whole(write') = (wireOut \o Whole(write)) \o f
      <4>1. \A x, y \in Seq(Frames) : (wireOut \o x) \o y = wireOut \o (x \o y)
        BY <1>0, FramesAssociative
      <4> QED
        BY <1>0, <2>3, <3>1, <4>1
    <3>3. Has("Close", (wireOut \o Whole(write)) \o f)
            <=> Has("Close", wireOut \o Whole(write)) \/ Has("Close", f)
      BY <1>0, <3>1, HasSplit
    <3> QED
      BY <2>1, <3>1, <3>2, <3>3
  <2> QED
    BY <1>3, <2>2, <2>3, SayStep
<1> QED
  BY <1>0, <1>1, <1>2, <1>3 DEF FlowInv

LEMMA FlowSame ==
  ASSUME FlowInv, UNCHANGED <<conf, queue, accepted, write, wireOut, delivered>>
  PROVE  FlowInv'
PROOF
<1>1. Told(Taken)' = Told(Taken)
  BY DEF Told, Taken, Framed, Encode, Whole
<1>2. SayInv'
  BY <1>1 DEF FlowInv, SayInv, Taken, OutboundExact, Spoken
<1> QED
  BY <1>2 DEF FlowInv

\* What is on the wire is a beginning of what the application said.
LEMMA SaidAhead ==
  ASSUME TypeOK, SayInv
  PROVE  \E m \in Seq(Items) : Told(accepted) = Spoken(wireOut) \o m
PROOF
<1>1. \A s \in Seq(Frames) : s \in Seq(Items)
  BY DEF Frames, Items
<1>2. /\ wireOut \in Seq(Items) /\ Whole(write) \in Seq(Items)
      /\ queue \in Seq(Commands) /\ Taken \in Seq(Commands)
      /\ accepted = Taken \o queue /\ Spoken(wireOut \o Whole(write)) = Told(Taken)
  BY <1>1, TakenType, WholeTypes DEF TypeOK, SayInv, OutboundExact
<1>3. /\ Told(accepted) = Told(Taken) \o Told(queue)
      /\ Spoken(wireOut \o Whole(write)) = Spoken(wireOut) \o Spoken(Whole(write))
  BY <1>2, SpokenParts, ToldParts
<1>4. Spoken(wireOut) \in Seq(Items) /\ Spoken(Whole(write)) \in Seq(Items)
      /\ Told(queue) \in Seq(Items)
  BY <1>1, <1>2, SpokenParts, ToldParts
<1>5. Told(accepted) = Spoken(wireOut) \o (Spoken(Whole(write)) \o Told(queue))
  <2> DEFINE a == Spoken(wireOut)
             b == Spoken(Whole(write))
             c == Told(queue)
  <2> HIDE DEF a, b, c
  <2>1. a \in Seq(Items) /\ b \in Seq(Items) /\ c \in Seq(Items)
    BY <1>4 DEF a, b, c
  <2>2. (a \o b) \o c = a \o (b \o c)
    BY <2>1, ItemsAssociative
  <2>3. Told(accepted) = (a \o b) \o c
    BY <1>2, <1>3 DEF a, b, c
  <2> QED
    BY <2>2, <2>3 DEF a, b, c
<1>6. Spoken(Whole(write)) \o Told(queue) \in Seq(Items)
  BY <1>4, ConcatProperties
<1> QED
  BY <1>5, <1>6

\* What the callbacks were given is a beginning of what the peer sent.
LEMMA HeardBehind ==
  ASSUME TypeOK, InboundExact, NEW told, NEW m \in Seq(Items),
         told = Spoken(peerSent) \o m
  PROVE  IsPrefix(Spoken(delivered), told)
PROOF
<1> DEFINE rest == read \o wireIn
<1>1. /\ delivered \in Seq(Items) /\ read \in Seq(Items) /\ wireIn \in Seq(Items)
      /\ rest \in Seq(Items)
  BY ConcatProperties DEF TypeOK
<1>2. peerSent = delivered \o rest
  BY <1>1, ItemsAssociative DEF InboundExact
<1> HIDE DEF rest
<1>3. Spoken(peerSent) = Spoken(delivered) \o Spoken(rest)
  BY <1>1, <1>2, SpokenParts
<1> DEFINE d == Spoken(delivered)
           r == Spoken(rest) \o m
<1>4. d \in Seq(Items) /\ Spoken(rest) \in Seq(Items) /\ r \in Seq(Items)
  BY <1>1, SpokenParts, ConcatProperties
<1>5. told = d \o r
  BY <1>3, <1>4, ItemsAssociative
<1> HIDE DEF d, r
<1>6. d = SubSeq(told, 1, Len(d)) /\ Len(d) <= Len(told)
  BY <1>4, <1>5, FrontPart, ConcatProperties, LenProperties
<1>7. SubSeq(d, 1, Len(d)) = d
  BY <1>4, SubSeqFull
<1> QED
  BY <1>6, <1>7 DEF IsPrefix, d

\* A Close, if it is heard at all, is the last thing heard.
LEMMA CloseHeardLast ==
  ASSUME TypeOK, InboundExact, FlowInv, conf.raw => ~Has("Close", peerSent)
  PROVE  \A i \in DOMAIN delivered : delivered[i] = "Close" => i = Len(delivered)
PROOF
<1>1. /\ delivered \in Seq(Items) /\ read \in Seq(Items) /\ wireIn \in Seq(Items)
      /\ delivered \o read \in Seq(Items)
  BY ConcatProperties DEF TypeOK
<1>2. DOMAIN delivered = 1 .. Len(delivered)
  BY <1>1, LenProperties
<1>3. CASE conf.raw
  <2>1. Has("Close", delivered) => Has("Close", (delivered \o read) \o wireIn)
    BY <1>1, HasSplit
  <2>2. ~Has("Close", delivered)
    BY <1>3, <2>1 DEF InboundExact
  <2> QED
    BY <1>2, <2>2 DEF Has
<1> QED
  BY <1>2, <1>3 DEF FlowInv

LEMMA RawSaysNoClose ==
  ASSUME TypeOK, FlowInv, conf.raw
  PROVE  ~Has("Close", wireOut)
PROOF
<1>1. wireOut \in Seq(Frames) /\ Whole(write) \in Seq(Frames)
  BY WholeTypes DEF TypeOK
<1> QED
  BY <1>1, HasSplit DEF FlowInv

LEMMA HungUpFlow ==
  ASSUME FlowInv, PeerShutdown
  PROVE  FlowInv' /\ conf' = conf
BY FlowSame DEF PeerShutdown, connVars, outVars
=============================================================================

---------------------------- MODULE TcpPairProofs ----------------------------
(***************************************************************************)
(* Theorems about a pair of connected ends, for every command the two      *)
(* applications may use, every window and every capacity.                  *)
(*                                                                         *)
(* The argument is StreamConnProofs taken twice, as it stands for the      *)
(* client and as instance SP for the server. A step of the pair is a step  *)
(* of one end (OwnStep) that is the arrival of frames at the other         *)
(* (OtherStep), or the end of the stream (HungUpStep). What joins the two  *)
(* is that the end of a stream arrives only from an end that is done.      *)
(***************************************************************************)
EXTENDS TcpPair, StreamConnProofs

SP == INSTANCE StreamConnProofs WITH
       conf <- sConf, link <- sLink, pc <- sPc, state <- sState,
       timer <- sTimer, age <- sAge, armed <- sArmed,
       queue <- sQueue, senders <- sSenders, accepted <- sAccepted,
       write <- sWrite, wireOut <- peerSent,
       peerSent <- wireOut, wireIn <- sWireIn, peerEof <- sPeerEof,
       read <- sRead, delivered <- sDelivered,
       onClose <- sOnClose, end <- sEnd

\* SP!X is S!X: both are StreamConn's X for the server.
LEMMA SameInit == S!Init <=> SP!Init
BY DEF S!Init, SP!Init

\* What SP's lemmas assume of the constants.
LEMMA SameAssumption ==
  /\ Confs \subseteq [avoid : BOOLEAN, logic : BOOLEAN, raw : BOOLEAN,
                  kcp : BOOLEAN]
  /\ QueueSize \in Nat \ {0}
  /\ FrameSize \in [SP!Frames -> Nat \ {0}]
  /\ OutBufferMax \in Nat
  /\ ReadTimeout \in Nat
  /\ ClosingTime \in Nat
  /\ MaxIn \in Nat
  /\ MaxCmd \in Nat
BY StreamAssumption DEF SP!Frames, Frames

LEMMA SameExpand ==
  \A f, s : SP!Expand(f, s) = Expand(f, s) /\ S!Expand(f, s) = Expand(f, s)
BY DEF SP!Expand, S!Expand, Expand, SP!FlattenSeq, S!FlattenSeq, FlattenSeq

LEMMA SameWhole == \A s : SP!Whole(s) = S!Whole(s)
BY SameExpand DEF SP!Whole, S!Whole, SP!Bytes, S!Bytes, SP!Frames, S!Frames

LEMMA SameTask ==
  /\ S!AppSend => SP!App
  /\ S!Outside => SP!Outside
  /\ S!Task => SP!Task
  /\ S!Tick => SP!Tick
BY SameWhole
   DEF S!connVars, SP!connVars, S!outVars, SP!outVars, S!inVars,
       SP!inVars, S!endVars, SP!endVars, S!vars, SP!vars, S!FrameOf,
       SP!FrameOf, S!Encode, SP!Encode, S!Framed, SP!Framed, S!Room, SP!Room, S!LoopTop,
       SP!LoopTop, S!Leave, SP!Leave, S!Fails, SP!Fails, S!Alive,
       SP!Alive, S!AppSend, SP!AppSend, S!AppDrop, SP!AppDrop,
       S!TryAccept, SP!TryAccept, S!AcceptFails, SP!AcceptFails,
       S!OnOpen, SP!OnOpen, S!Connect, SP!Connect, S!ConnectFails,
       SP!ConnectFails, S!Opened, SP!Opened, S!Decoded, SP!Decoded,
       S!Rest, SP!Rest, S!Callback, SP!Callback, S!OnClose, SP!OnClose,
       S!BadMessage, SP!BadMessage, S!HandleMessage, SP!HandleMessage,
       S!Decode, SP!Decode, S!Read, SP!Read, S!ReadEof, SP!ReadEof,
       S!Unwritten, SP!Unwritten, S!WriteSome, SP!WriteSome,
       S!ReadTimesOut, SP!ReadTimesOut, S!Closing, SP!Closing,
       S!DrainedBy, SP!DrainedBy, S!DrainWrite, SP!DrainWrite,
       S!ClosingExpires, SP!ClosingExpires, S!LingerDone, SP!LingerDone,
       S!ProcessClosed, SP!ProcessClosed, S!SocketError, SP!SocketError,
       S!InLoop, SP!InLoop, S!Recv, SP!Recv, S!RecvNone, SP!RecvNone,
       S!OnLogic, SP!OnLogic, S!ReportError, SP!ReportError, S!Sleeping,
       SP!Sleeping, S!Tick, SP!Tick, S!App, SP!App, S!Outside,
       SP!Outside, S!Task, SP!Task, S!Items, SP!Items, S!Commands,
       SP!Commands, S!Frames, SP!Frames

LEMMA SameHangUp == S!PeerShutdown <=> SP!PeerShutdown
BY DEF S!PeerShutdown, SP!PeerShutdown, S!Alive, SP!Alive, S!connVars, SP!connVars,
       S!outVars, SP!outVars, S!endVars, SP!endVars

LEMMA SameWords ==
  /\ \A s : SP!Spoken(s) = Spoken(s)
  /\ \A cs : SP!Told(cs) = S!Told(cs)
PROOF
<1>1. \A s : SP!Spoken(s) = Spoken(s)
  BY SameExpand DEF SP!Spoken, Spoken, SP!Items, Items
<1>2. \A cs : SP!Told(cs) = S!Told(cs)
  BY SameExpand, SameWhole
     DEF SP!Told, S!Told, SP!Framed, S!Framed, SP!Encode, S!Encode, SP!FrameOf,
         S!FrameOf, SP!Commands, S!Commands, SP!Frames, S!Frames
<1> QED
  BY <1>1, <1>2

-----------------------------------------------------------------------------
(* The invariant of the pair.                                              *)

PInv ==
  /\ TypeOK /\ InboundExact /\ EndInv /\ EofSound
  /\ SP!TypeOK /\ SP!InboundExact /\ SP!EndInv /\ SP!EofSound
  /\ FlowInv /\ SP!FlowInv
  /\ conf.raw = sConf.raw
  /\ peerEof => sPc = "done"
  /\ sPeerEof => pc = "done"

LEMMA PairInitInv == PairInit => PInv
PROOF
<1> SUFFICES ASSUME PairInit PROVE PInv
  OBVIOUS
<1>1. TypeOK /\ InboundExact /\ EndInv
  BY InitType, InboundInit, EndInit DEF PairInit
<1>2. SP!TypeOK /\ SP!InboundExact /\ SP!EndInv
  BY SP!InitType, SP!InboundInit, SP!EndInit, SameAssumption, SameInit DEF PairInit
<1>3. EofSound /\ ~peerEof
  BY DEF PairInit, Init, EofSound
<1>4. SP!EofSound /\ ~sPeerEof
  BY SameInit DEF PairInit, SP!Init, SP!EofSound
<1>5. FlowInv /\ SP!FlowInv /\ conf.raw = sConf.raw
  BY FlowInit, SP!FlowInit, SameAssumption, SameInit DEF PairInit
<1> QED
  BY <1>1, <1>2, <1>3, <1>4, <1>5 DEF PInv

LEMMA ClientStep ==
  ASSUME PInv, Client(ClientApp \/ Outside \/ Task \/ Tick)
  PROVE  PInv'
PROOF
<1> DEFINE t == SubSeq(wireOut', Len(wireOut) + 1, Len(wireOut'))
<1>1. App \/ Outside \/ Task \/ Tick
  BY DEF Client, ClientApp, App
<1>2. /\ TypeOK' /\ InboundExact' /\ EndInv' /\ EofSound'
      /\ UNCHANGED <<peerSent, peerEof>>
      /\ t \in Seq(Frames) /\ wireOut' = wireOut \o t
      /\ pc = "done" => pc' = "done" /\ UNCHANGED wireOut
  BY <1>1, OwnStep DEF PInv
<1>3. sWireIn' = sWireIn \o t
  BY DEF Client, Transfer
<1>4. UNCHANGED serverVars
  BY DEF Client
<1>5. SP!TypeOK' /\ SP!InboundExact' /\ SP!EndInv'
  <2>1. t \in Seq(SP!Frames)
    BY <1>2 DEF Frames, SP!Frames
  <2>2. UNCHANGED <<SP!connVars, sQueue, sSenders, sAccepted, sWrite, peerSent,
                    sPeerEof, sRead, sDelivered, SP!endVars>>
    BY <1>2, <1>4 DEF serverVars, SP!connVars, SP!endVars
  <2> HIDE DEF t
  <2> QED
    BY <1>2, <1>3, <2>1, <2>2, SP!OtherStep, SameAssumption DEF PInv
<1>6. SP!EofSound'
  <2>1. sEnd = "eof" => sPeerEof
    BY DEF PInv, SP!EndInv
  <2>2. sEnd = "eof" => UNCHANGED wireOut
    BY <1>2, <2>1 DEF PInv
  <2> QED
    BY <1>4, <2>2 DEF PInv, SP!EofSound, SP!Has, serverVars
<1>7. FlowInv' /\ conf' = conf
  <2>1. [Next]_vars
    BY <1>1 DEF Next
  <2> QED
    BY <2>1, FlowStep, ConfStep DEF PInv
<1>8. SP!FlowInv'
  BY <1>2, <1>4, SP!FlowSame, SameAssumption DEF PInv, serverVars
<1> QED
  BY <1>2, <1>4, <1>5, <1>6, <1>7, <1>8 DEF PInv, serverVars

LEMMA ServerStep ==
  ASSUME PInv, Server(ServerApp \/ S!Outside \/ S!Task \/ S!Tick)
  PROVE  PInv'
PROOF
<1> DEFINE t == SubSeq(peerSent', Len(peerSent) + 1, Len(peerSent'))
<1>1. SP!App \/ SP!Outside \/ SP!Task \/ SP!Tick
  BY SameTask DEF Server, ServerApp
<1>2. /\ SP!TypeOK' /\ SP!InboundExact' /\ SP!EndInv' /\ SP!EofSound'
      /\ UNCHANGED <<wireOut, sPeerEof>>
      /\ t \in Seq(SP!Frames) /\ peerSent' = peerSent \o t
      /\ sPc = "done" => sPc' = "done" /\ UNCHANGED peerSent
  BY <1>1, SP!OwnStep, SameAssumption DEF PInv
<1>3. wireIn' = wireIn \o t
  BY DEF Server, Transfer
<1>4. UNCHANGED clientVars
  BY DEF Server
<1>5. TypeOK' /\ InboundExact' /\ EndInv'
  <2>1. t \in Seq(Frames)
    BY <1>2 DEF Frames, SP!Frames
  <2>2. UNCHANGED <<connVars, queue, senders, accepted, write, wireOut,
                    peerEof, read, delivered, endVars>>
    BY <1>2, <1>4 DEF clientVars
  <2> HIDE DEF t
  <2> QED
    BY <1>2, <1>3, <2>1, <2>2, OtherStep DEF PInv
<1>6. EofSound'
  <2>1. end = "eof" => peerEof
    BY DEF PInv, EndInv
  <2>2. end = "eof" => UNCHANGED peerSent
    BY <1>2, <2>1 DEF PInv
  <2> QED
    BY <1>4, <2>2 DEF PInv, EofSound, Has, clientVars, connVars, endVars
<1>7. SP!FlowInv' /\ sConf' = sConf
  <2>1. [SP!Next]_(SP!vars)
    BY <1>1 DEF SP!Next
  <2> QED
    BY <2>1, SP!FlowStep, SP!ConfStep, SameAssumption DEF PInv
<1>8. FlowInv'
  BY <1>2, <1>4, FlowSame DEF PInv, clientVars, connVars
<1> QED
  BY <1>2, <1>4, <1>5, <1>6, <1>7, <1>8 DEF PInv, clientVars, connVars

\* The client is gone, and the server's stream ends.
LEMMA ClientHangsUpStep ==
  ASSUME PInv, ClientHangsUp
  PROVE  PInv'
PROOF
<1>1. /\ SP!TypeOK' /\ SP!InboundExact' /\ SP!EndInv' /\ SP!EofSound'
      /\ UNCHANGED <<peerSent, wireOut, sPc>>
  BY SP!HungUpStep, SameHangUp, SameAssumption DEF PInv, ClientHangsUp
<1>2. UNCHANGED vars
  BY <1>1 DEF ClientHangsUp, clientVars, vars, outVars, inVars, connVars, endVars
<1>3. TypeOK' /\ InboundExact' /\ EndInv' /\ EofSound'
  BY <1>2, SameStep DEF PInv
<1>4. FlowInv'
  BY <1>2, FlowSame DEF PInv, vars, connVars, outVars, inVars
<1>5. SP!FlowInv' /\ sConf' = sConf
  BY SP!HungUpFlow, SameHangUp, SameAssumption DEF PInv, ClientHangsUp
<1> QED
  BY <1>1, <1>2, <1>3, <1>4, <1>5 DEF PInv, ClientHangsUp, vars, connVars, inVars

\* The server is gone, and the client's stream ends.
LEMMA ServerHangsUpStep ==
  ASSUME PInv, ServerHangsUp
  PROVE  PInv'
PROOF
<1>1. /\ TypeOK' /\ InboundExact' /\ EndInv' /\ EofSound'
      /\ UNCHANGED <<wireOut, peerSent, pc>>
  BY HungUpStep DEF PInv, ServerHangsUp
<1>2. UNCHANGED SP!vars
  BY <1>1 DEF ServerHangsUp, serverVars, SP!vars, SP!outVars, SP!inVars,
       SP!connVars, SP!endVars
<1>3. SP!TypeOK' /\ SP!InboundExact' /\ SP!EndInv' /\ SP!EofSound'
  BY <1>2, SP!SameStep, SameAssumption DEF PInv
<1>4. SP!FlowInv'
  BY <1>2, SP!FlowSame, SameAssumption
     DEF PInv, SP!vars, SP!connVars, SP!outVars, SP!inVars
<1>5. FlowInv' /\ conf' = conf
  BY HungUpFlow DEF PInv, ServerHangsUp
<1> QED
  BY <1>1, <1>3, <1>4, <1>5 DEF PInv, ServerHangsUp, serverVars

LEMMA PairStep == PInv /\ [PairNext]_pairVars => PInv'
PROOF
<1> SUFFICES ASSUME PInv, [PairNext]_pairVars
             PROVE  PInv'
  OBVIOUS
<1>1. CASE BothFinished \/ UNCHANGED pairVars
  <2>1. UNCHANGED pairVars
    BY <1>1 DEF BothFinished
  <2>2. UNCHANGED vars
    BY <2>1 DEF pairVars
  <2>3. UNCHANGED SP!vars /\ UNCHANGED <<sPc, sPeerEof>>
    BY <2>1 DEF pairVars, vars, outVars, inVars, serverVars, SP!vars,
         SP!connVars, SP!outVars, SP!inVars, SP!endVars
  <2>4. SP!TypeOK' /\ SP!InboundExact' /\ SP!EndInv' /\ SP!EofSound'
    BY <2>3, SP!SameStep, SameAssumption DEF PInv
  <2>5. FlowInv'
    BY <2>2, FlowSame DEF PInv, vars, connVars, outVars, inVars
  <2>6. SP!FlowInv' /\ sConf' = sConf
    BY <2>3, SP!FlowSame, SameAssumption
       DEF PInv, SP!vars, SP!connVars, SP!outVars, SP!inVars
  <2> QED
    BY <2>2, <2>3, <2>4, <2>5, <2>6, SameStep DEF PInv, vars, connVars, inVars
<1> QED
  BY <1>1, ClientStep, ServerStep, ClientHangsUpStep, ServerHangsUpStep
     DEF PairNext

THEOREM PairCorrect == PairSpec => []PInv
PROOF
  BY PairInitInv, PairStep, PTL DEF PairSpec

-----------------------------------------------------------------------------

\* What an application hears is, but for Pongs, a beginning of the frames of
\* the commands the other application had accepted, up to its first Close
\* only: through both tasks, their buffers and the network between them.
THEOREM EndToEndCorrect == PairSpec => []EndToEnd
PROOF
<1>1. PInv => Heard(sDelivered, Told(accepted))
  <2> SUFFICES ASSUME PInv PROVE Heard(sDelivered, Told(accepted))
    OBVIOUS
  <2>1. PICK m \in Seq(Items) : Told(accepted) = Spoken(wireOut) \o m
    BY SaidAhead DEF PInv, FlowInv
  <2>2. \A s : SP!Spoken(s) = Spoken(s)
    BY SameWords
  <2>3. IsPrefix(Spoken(sDelivered), Told(accepted))
    <3>1. m \in Seq(SP!Items) /\ Told(accepted) = SP!Spoken(wireOut) \o m
      BY <2>1, <2>2 DEF SP!Items, Items
    <3>2. IsPrefix(SP!Spoken(sDelivered), Told(accepted))
      BY <3>1, SP!HeardBehind, SameAssumption DEF PInv, SP!IsPrefix, IsPrefix
    <3> QED
      BY <2>2, <3>2
  <2>4. CASE ~sConf.raw
    BY <2>3, <2>4, SP!CloseHeardLast, SameAssumption DEF PInv, Heard
  <2>5. CASE sConf.raw
    <3>1. ~Has("Close", wireOut)
      BY <2>5, RawSaysNoClose DEF PInv
    <3>2. ~SP!Has("Close", wireOut)
      BY <3>1 DEF SP!Has, Has
    <3> QED
      BY <2>3, <3>2, SP!CloseHeardLast, SameAssumption DEF PInv, Heard
  <2> QED
    BY <2>4, <2>5
<1>2. PInv => Heard(delivered, S!Told(sAccepted))
  <2> SUFFICES ASSUME PInv PROVE Heard(delivered, S!Told(sAccepted))
    OBVIOUS
  <2>1. PICK m \in Seq(SP!Items) : SP!Told(sAccepted) = SP!Spoken(peerSent) \o m
    BY SP!SaidAhead, SameAssumption DEF PInv, SP!FlowInv
  <2>2. SP!Spoken(peerSent) = Spoken(peerSent) /\ SP!Told(sAccepted) = S!Told(sAccepted)
    BY SameWords
  <2>3. IsPrefix(Spoken(delivered), S!Told(sAccepted))
    <3>1. m \in Seq(Items) /\ S!Told(sAccepted) = Spoken(peerSent) \o m
      BY <2>1, <2>2 DEF SP!Items, Items
    <3> QED
      BY <3>1, HeardBehind DEF PInv
  <2>4. CASE ~conf.raw
    BY <2>3, <2>4, CloseHeardLast DEF PInv, Heard
  <2>5. CASE conf.raw
    <3>1. ~SP!Has("Close", peerSent)
      BY <2>5, SP!RawSaysNoClose, SameAssumption DEF PInv
    <3>2. ~Has("Close", peerSent)
      BY <3>1 DEF SP!Has, Has
    <3> QED
      BY <2>3, <3>2, CloseHeardLast DEF PInv, Heard
  <2> QED
    BY <2>4, <2>5
<1> QED
  BY <1>1, <1>2, PairCorrect, PTL DEF EndToEnd

\* An end that reads the end of the stream missed no Close: process() leaves
\* the loop on EOF only with the read buffer empty (tcp/mod.rs), and a peer
\* that is done writes no more.
THEOREM EofCorrect == PairSpec => []EofMeansNoClose
PROOF
<1>1. PInv => EofMeansNoClose
  BY DEF PInv, EofSound, SP!EofSound, EofMeansNoClose, Has, SP!Has
<1> QED
  BY <1>1, PairCorrect, PTL

\* When both close at once, at most one handler is told of the other's Close:
\* to be told an end has to be Open still, and to close is to leave Open.
THEOREM OneCloserCorrect == PairSpec => []OneCloser
PROOF
<1>1. PInv => OneCloser
  <2> SUFFICES ASSUME PInv, Has("peer", onClose), Has("peer", sOnClose)
               PROVE  FALSE
    BY DEF OneCloser
  <2>1. Has("Close", peerSent)
    BY ToldHeard DEF PInv
  <2>2. SP!Has("peer", sOnClose) /\ SP!Has("Close", peerSent)
    BY <2>1 DEF Has, SP!Has
  <2>3. sState = "Open"
    BY <2>2, SP!ToldHeard, SameAssumption DEF PInv
  <2>4. sState # "Open"
    BY <2>2, SP!SaidClosing, SameAssumption DEF PInv
  <2> QED
    BY <2>3, <2>4
<1> QED
  BY <1>1, PairCorrect, PTL
=============================================================================

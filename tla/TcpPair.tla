------------------------------- MODULE TcpPair -------------------------------
(***************************************************************************)
(* Both ends of one TCP connection: a client and a server of hcnet, each   *)
(* the whole StreamConn, with the network between them (tcp/mod.rs twice). *)
(*                                                                         *)
(* StreamConn's own variables are the client's; the server's are named     *)
(* with an s. What one end has written is what the other's peer has sent:  *)
(* wireOut is the server's peerSent and peerSent the server's wireOut.     *)
(* Between write and read the frames lie in wireIn and sWireIn, at most    *)
(* Window of them in each direction and the first bytes of one more: behind*)
(* a window that is full, no write completes a frame.                      *)
(***************************************************************************)
EXTENDS StreamConn

CONSTANTS
  Sends,      \* the commands the client's application uses
  sSends,     \* and the server's
  Window      \* frames the socket buffers of one direction hold

ASSUME PairAssumption ==
  /\ Sends \subseteq Commands /\ sSends \subseteq Commands
  /\ Window \in Nat \ {0}

VARIABLES
  sConf, sLink, sPc, sState, sTimer, sAge, sArmed,
  sQueue, sSenders, sAccepted, sWrite,
  sWireIn, sPeerEof, sRead, sDelivered,
  sOnClose, sEnd

S == INSTANCE StreamConn WITH
       conf <- sConf, link <- sLink, pc <- sPc, state <- sState,
       timer <- sTimer, age <- sAge, armed <- sArmed,
       queue <- sQueue, senders <- sSenders, accepted <- sAccepted,
       write <- sWrite, wireOut <- peerSent,
       peerSent <- wireOut, wireIn <- sWireIn, peerEof <- sPeerEof,
       read <- sRead, delivered <- sDelivered,
       onClose <- sOnClose, end <- sEnd

\* What only the one end touches; wireIn and sWireIn the other end fills.
clientVars == <<connVars, queue, senders, accepted, write,
                peerEof, read, delivered, endVars>>
serverVars == <<sConf, sLink, sPc, sState, sTimer, sAge, sArmed,
                sQueue, sSenders, sAccepted, sWrite,
                sPeerEof, sRead, sDelivered, sOnClose, sEnd>>
pairVars == <<vars, serverVars, sWireIn>>

PairInit ==
  /\ Init /\ S!Init
  /\ link = "Stream"
  /\ sLink = "AcceptServer"
  /\ conf.raw = sConf.raw     \* both ends are told the same is_raw

\* The frames an end has just written to their last byte go to the other, if
\* the window allows.
Transfer(out, out2, in, in2) ==
  /\ in2 = in \o SubSeq(out2, Len(out) + 1, Len(out2))
  /\ out2 # out => Len(in2) <= Window

-----------------------------------------------------------------------------
(* The steps of one end.                                                   *)

Client(A) ==
  /\ A
  /\ Transfer(wireOut, wireOut', sWireIn, sWireIn')
  /\ UNCHANGED serverVars

Server(A) ==
  /\ A
  /\ Transfer(peerSent, peerSent', wireIn, wireIn')
  /\ UNCHANGED clientVars

\* The applications hold on to their NetSenders.
ClientApp == AppSend /\ Last(accepted') \in Sends
ServerApp == S!AppSend /\ Last(sAccepted') \in sSends

\* What the sockets of two hosts that stay up get done: bytes and the end of
\* the stream arrive, a window that opens is written to, and writing to a
\* connection that the other end dropped fails.
ClientMoves ==
  \/ \E k \in 1 .. Len(wireIn) : Read(k)
  \/ ReadEof
  \/ \E k \in 1 .. Len(write) : WriteSome(k) \/ DrainWrite(k)
  \/ sPc = "done" /\ SocketError
ServerMoves ==
  \/ \E k \in 1 .. Len(sWireIn) : S!Read(k)
  \/ S!ReadEof
  \/ \E k \in 1 .. Len(sWrite) : S!WriteSome(k) \/ S!DrainWrite(k)
  \/ pc = "done" /\ S!SocketError

\* An end that has left its loop drops its socket.
ClientHangsUp == pc = "done" /\ S!PeerShutdown /\ UNCHANGED <<clientVars, wireIn>>
ServerHangsUp == sPc = "done" /\ PeerShutdown /\ UNCHANGED <<serverVars, sWireIn>>

BothFinished == pc = "done" /\ sPc = "done" /\ UNCHANGED pairVars

-----------------------------------------------------------------------------
PairNext ==
  \/ Client(ClientApp \/ Outside \/ Task \/ Tick)
  \/ Server(ServerApp \/ S!Outside \/ S!Task \/ S!Tick)
  \/ ClientHangsUp \/ ServerHangsUp
  \/ BothFinished

PairSpec == PairInit /\ [][PairNext]_pairVars

FairPair ==
  /\ PairSpec
  /\ WF_pairVars(Client(Task \/ Tick)) /\ WF_pairVars(Server(S!Task \/ S!Tick))
  /\ WF_pairVars(Client(ClientMoves)) /\ WF_pairVars(Server(ServerMoves))
  /\ WF_pairVars(ClientHangsUp) /\ WF_pairVars(ServerHangsUp)

-----------------------------------------------------------------------------
(* Properties.                                                             *)

\* What one application hears is a beginning of what the other said, through
\* every interleaving of the two tasks, and up to its first Close only.
Heard(hears, told) ==
  /\ IsPrefix(Spoken(hears), told)
  /\ \A i \in DOMAIN hears : hears[i] = "Close" => i = Len(hears)

EndToEnd == Heard(sDelivered, Told(accepted)) /\ Heard(delivered, S!Told(sAccepted))

\* An end that reads the end of the stream, and so tells its handler nothing,
\* was left without a Close: every Close written before it is heard first.
EofMeansNoClose ==
  /\ ~conf.raw /\ end = "eof" => ~Has("Close", peerSent)
  /\ ~sConf.raw /\ sEnd = "eof" => ~Has("Close", wireOut)

\* When both close at once neither hears of the other: at most one end's
\* handler is given the other's Close.
OneCloser == ~(Has("peer", onClose) /\ Has("peer", sOnClose))

\* When one end is gone the other follows, whatever its timers do: even one
\* whose on_logic restarts every sleep, and one caught closing behind a
\* window that nobody will empty.
EndsTogether ==
  /\ (sPc = "done" /\ InLoop) ~> pc = "done"
  /\ (pc = "done" /\ sPc \in {"select", "linger"}) ~> sPc = "done"
=============================================================================

------------------------------ MODULE Handler ------------------------------
(***************************************************************************)
(* What a connection promises to the application's Handler (handler.rs),   *)
(* whatever transport carries it:                                          *)
(*   - on_open comes first and once;                                       *)
(*   - the message callbacks see the peer's messages in the order they     *)
(*     were sent, none skipped and none twice: always a prefix;            *)
(*   - on_close comes last and at most once: with the peer's code, only    *)
(*     after everything the peer sent before its Close was delivered, or   *)
(*     with CloseCode::Error when the connection failed.                   *)
(* StreamConn and WsConn are shown to implement this specification.        *)
(***************************************************************************)
EXTENDS Integers, Sequences

CONSTANTS
  Msgs,      \* what a peer can send
  Handshake  \* TRUE if the transport shakes hands before on_open

VARIABLES
  stage,      \* how far the handler's life has come
  peerSent,   \* everything the peer has sent
  delivered,  \* the messages the callbacks were given
  onClose     \* the on_close calls, by the kind of their code

handlerVars == <<stage, peerSent, delivered, onClose>>

HInit ==
  /\ stage = "new"
  /\ peerSent = <<>>
  /\ delivered = <<>>
  /\ onClose = <<>>

\* The peer sends; nothing here says when the message arrives.
Send ==
  /\ \E m \in Msgs : peerSent' = Append(peerSent, m)
  /\ UNCHANGED <<stage, delivered, onClose>>

Open ==
  /\ stage = "new"
  /\ stage' = "open"
  /\ UNCHANGED <<peerSent, delivered, onClose>>

\* Callbacks extend the delivered prefix. One callback may carry several
\* items at once: on a raw connection a message is whatever was read.
\* The callback may report an error, which fails the connection.
Deliver ==
  /\ stage = "open"
  /\ \E n \in Len(delivered) + 1 .. Len(peerSent) :
       delivered' = SubSeq(peerSent, 1, n)
  /\ stage' \in {"open", "failed"}
  /\ UNCHANGED <<peerSent, onClose>>

\* The peer's Close is next in order: it is delivered as on_close.
ClosedByPeer ==
  /\ stage = "open"
  /\ Len(delivered) < Len(peerSent)
  /\ peerSent[Len(delivered) + 1] = "Close"
  /\ delivered' = SubSeq(peerSent, 1, Len(delivered) + 1)
  /\ onClose' = Append(onClose, "peer")
  /\ stage' = "ended"
  /\ UNCHANGED peerSent

Fail ==
  /\ stage \in {"new", "open"}
  /\ stage' = "failed"
  /\ UNCHANGED <<peerSent, delivered, onClose>>

\* A failed connection tells its handler so before it ends.
ReportError ==
  /\ stage = "failed"
  /\ stage' = "ended"
  /\ onClose' = Append(onClose, "Error")
  /\ UNCHANGED <<peerSent, delivered>>

\* The connection ends without a word to the handler; where there is a
\* handshake to go wrong, perhaps before the handler heard of it at all.
Return ==
  /\ stage = "open" \/ (Handshake /\ stage = "new")
  /\ stage' = "ended"
  /\ UNCHANGED <<peerSent, delivered, onClose>>

HNext ==
  \/ Send \/ Open \/ Deliver \/ ClosedByPeer
  \/ Fail \/ ReportError \/ Return

HSpec == HInit /\ [][HNext]_handlerVars

-----------------------------------------------------------------------------
(* What an application may rely on.                                        *)

\* The messages handed over are a prefix of those sent, and none is before
\* on_open; on_close is called once at most and nothing follows it; with the
\* peer's code, the last message handed over is the peer's Close.
Promise ==
  /\ peerSent \in Seq(Msgs)
  /\ \E n \in 0 .. Len(peerSent) : delivered = SubSeq(peerSent, 1, n)
  /\ stage = "new" => delivered = <<>>
  /\ \/ onClose = <<>>
     \/ onClose = <<"Error">> /\ stage = "ended"
     \/ /\ onClose = <<"peer">> /\ stage = "ended"
        /\ delivered # <<>> /\ delivered[Len(delivered)] = "Close"

\* A connection that has ended stays as it is: no callback is called again.
Final == [][stage = "ended" => UNCHANGED <<stage, delivered, onClose>>]_handlerVars
=============================================================================

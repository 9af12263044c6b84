------------------------------- MODULE WsConn -------------------------------
(***************************************************************************)
(* One WebSocket connection of hcnet, client or server, and the task that  *)
(* runs it (ws/mod.rs, ws/client.rs, ws/server.rs). Read StreamConn first: *)
(* the loop, the command channel and the abstractions are the same. What   *)
(* is different is what process() does: it shakes hands before on_open, it *)
(* puts messages together from fragments, and it closes in its own way.    *)
(*                                                                         *)
(* Whatever process() keeps in a local variable is lost when another       *)
(* branch of select! completes: the deadline of the handshake or of the    *)
(* closing, and vec, the fragments read so far. LoopTop forgets them.      *)
(*                                                                         *)
(* Data is whole frames, named by kind. Head is an HTTP head that accepts  *)
(* or asks for the upgrade, Refusal a response other than 101, Bad a head  *)
(* that cannot be parsed. A message in one frame is Text (which stands for *)
(* Binary and Pong too), Ping or Close; in two it is Part, then Last. A    *)
(* Last without its Part stands for every frame that process() refuses.    *)
(* The command Close stands for Shutdown, which makes the same call.       *)
(***************************************************************************)
EXTENDS Integers, FrameSeqs

CONSTANTS
  Confs,          \* the ways the connection may be run, records of
                  \*   client: of a WsClient, or else of an accepted WsServer;
                  \*   avoid, logic: as in StreamConn
  QueueSize,      \* settings.queue_size
  OutBufferMax,   \* settings.out_buffer_max, in frames
  InBufferMax,    \* settings.in_buffer_max, in frames
  ReadTimeout,    \* settings.read_timeout, in ticks
  ShakeTimeout,   \* settings.shake_timeout, in ticks
  ClosingTime,    \* settings.closing_time, in ticks
  MaxIn,          \* bound: items the peer sends
  MaxCmd          \* bound: commands the application gets accepted

ASSUME WsAssumption ==
  /\ Confs \subseteq [client : BOOLEAN, avoid : BOOLEAN, logic : BOOLEAN]
  /\ QueueSize \in Nat \ {0}
  /\ InBufferMax \in Nat \ {0}   \* process_io fails at once with 0
  /\ OutBufferMax \in Nat
  /\ ReadTimeout \in Nat /\ ShakeTimeout \in Nat /\ ClosingTime \in Nat
  /\ MaxIn \in Nat /\ MaxCmd \in Nat

Heads    == {"Head", "Refusal", "Bad"}
Items    == {"Text", "Part", "Last", "Ping", "Close"} \cup Heads
Commands == {"Text", "Ping", "Close", "Unvaid"}
Frames   == {"Head", "Refusal", "Text", "Ping", "Pong", "Close"}
Ends     == {"none", "eof", "peer", "drained", "expired", "full", "broken",
             "dropped", "timeout", "protocol", "error"}

VARIABLES
  conf,       \* how the connection is run, chosen once
  pc,         \* where the task stands, as in StreamConn
  state,      \* WsState
  ready,      \* call_ready: has on_open been called?
  timer,      \* ticks since process_io's sleep was created
  deadline,   \* ticks since process() set the deadline around process_io
  armed,      \* recv's precondition, as this turn of the loop found it
  vec,        \* the fragments process() has decoded so far
  torn,       \* history: were fragments lost with a process()?
  queue,      \* the command channel
  senders,    \* does the application still hold a NetSender?
  early,      \* history: was a command accepted before on_open was called?
  accepted,   \* history: every command send_message accepted
  write,      \* encoded and not yet written
  wireOut,    \* written to the socket
  peerSent,   \* history: everything the peer sent
  wireIn,     \* sent by the peer and not yet read
  peerEof,    \* has the peer shut its side down?
  read,       \* read from the socket and not yet decoded
  consumed,   \* history: what made up the heads and messages handled
  onClose,    \* history: on_close calls, by where their code came from
  end         \* history: why the loop was left

taskVars == <<conf, pc, state, ready>>
turnVars == <<timer, deadline, armed, vec, torn>>
appVars  == <<queue, senders, early, accepted>>
outVars  == <<write, wireOut>>
peerVars == <<peerSent, wireIn, peerEof>>
inVars   == <<read, consumed>>
endVars  == <<onClose, end>>
vars     == <<taskVars, turnVars, appVars, outVars, peerVars, inVars, endVars>>

TypeOK ==
  /\ conf \in Confs
  /\ pc \in {"accept", "open", "select", "failed", "done"}
  /\ state \in {"Wait", "WaitRet", "Open", "Closing", "Closed"}
  /\ timer \in Nat /\ deadline \in Nat
  /\ ready \in BOOLEAN /\ armed \in BOOLEAN
  /\ vec \in Seq(Items) /\ torn \in BOOLEAN
  /\ queue \in Seq(Commands) /\ accepted \in Seq(Commands)
  /\ senders \in BOOLEAN /\ early \in BOOLEAN
  /\ write \in Seq(Frames) /\ wireOut \in Seq(Frames)
  /\ peerSent \in Seq(Items) /\ wireIn \in Seq(Items) /\ peerEof \in BOOLEAN
  /\ read \in Seq(Items) /\ consumed \in Seq(Items)
  /\ onClose \in Seq({"peer", "Error"})
  /\ end \in Ends

Init ==
  /\ conf \in Confs
  /\ pc = "accept"
  /\ state = "Wait"
  /\ ready = FALSE
  /\ timer = 0 /\ deadline = 0
  /\ armed = FALSE
  /\ vec = <<>> /\ torn = FALSE
  /\ queue = <<>> /\ senders = TRUE /\ early = FALSE /\ accepted = <<>>
  /\ write = <<>> /\ wireOut = <<>>
  /\ peerSent = <<>> /\ wireIn = <<>> /\ peerEof = FALSE
  /\ read = <<>> /\ consumed = <<>>
  /\ onClose = <<>> /\ end = "none"

-----------------------------------------------------------------------------
(* How a turn of the loop ends.                                            *)

\* Mutant: ready whatever the state.
IsReadyAny(s) == TRUE

IsReady(s) == s = "Open"

\* Back to the top of the loop, in state s and with w to write: the first
\* time the connection is ready on_open is called, then process() is, with
\* new timers and an empty vec.
LoopTop(s, w) ==
  /\ state' = s
  /\ pc' = IF IsReady(s) /\ ~ready THEN "open" ELSE "select"
  /\ timer' = 0 /\ deadline' = 0
  /\ vec' = <<>>
  /\ armed' = (Len(w) < OutBufferMax)
  /\ write' = w

\* The loop is left for reason e, by `return Ok(())` or by `?` on an error.
Leave(e) ==
  /\ pc' = "done" /\ end' = e
  /\ UNCHANGED <<timer, deadline, armed, write>>

Fails(e) ==
  /\ pc' = "failed" /\ end' = e
  /\ UNCHANGED <<timer, deadline, armed, write>>

-----------------------------------------------------------------------------
(* Peer, network and application, as in StreamConn. A peer begins with an  *)
(* HTTP head; a client gets a response, a server a request.                *)

Alive == pc \notin {"failed", "done"}

PeerSend ==
  /\ Alive /\ ~peerEof
  /\ Len(peerSent) < MaxIn
  /\ \E m \in IF peerSent # <<>> THEN Items \ Heads
              ELSE IF conf.client THEN Heads ELSE {"Head", "Bad"} :
       /\ peerSent' = Append(peerSent, m)
       /\ wireIn' = Append(wireIn, m)
  /\ UNCHANGED <<taskVars, turnVars, appVars, outVars, peerEof, inVars, endVars>>

PeerShutdown ==
  /\ Alive /\ ~peerEof
  /\ peerEof' = TRUE
  /\ UNCHANGED <<taskVars, turnVars, appVars, outVars, peerSent, wireIn,
                 inVars, endVars>>

AppSend ==
  /\ Alive /\ senders
  /\ Len(queue) < QueueSize
  /\ Len(accepted) < MaxCmd
  /\ \E c \in Commands :
       /\ queue' = Append(queue, c)
       /\ accepted' = Append(accepted, c)
  /\ early' = (early \/ (~ready /\ pc # "open"))
  /\ UNCHANGED <<taskVars, turnVars, senders, outVars, peerVars, inVars, endVars>>

AppDrop ==
  /\ Alive /\ senders
  /\ senders' = FALSE
  /\ UNCHANGED <<taskVars, turnVars, queue, early, accepted, outVars, peerVars,
                 inVars, endVars>>

-----------------------------------------------------------------------------
(* Before the loop, and on_open.                                           *)

\* Ws::try_accept: the TLS handshake of an accepted connection, if it has
\* one; a client has nothing to do.
TryAccept ==
  /\ pc = "accept"
  /\ LoopTop(state, write)
  /\ UNCHANGED <<conf, ready, torn, appVars, wireOut, peerVars, inVars,
                 endVars>>

\* run_handler accepts outside its error handling: the handler hears nothing.
AcceptFails ==
  /\ pc = "accept" /\ ~conf.client
  /\ IF conf.avoid THEN Leave("error") ELSE Fails("error")
  /\ UNCHANGED <<conf, state, ready, vec, torn, appVars, wireOut, peerVars,
                 inVars, onClose>>

OnOpen ==
  /\ pc = "open"
  /\ \/ /\ ready' = TRUE
        /\ pc' = "select"
        /\ armed' = (Len(write) < OutBufferMax)
        /\ UNCHANGED <<timer, deadline, vec, write, end>>
     \/ Fails("error") /\ UNCHANGED <<ready, vec>>
  /\ UNCHANGED <<conf, state, torn, appVars, wireOut, peerVars, inVars, onClose>>

-----------------------------------------------------------------------------
(* process(): the handshake.                                               *)

\* The client asks for the upgrade and waits for the response.
BuildRequest ==
  /\ pc = "select" /\ state = "Wait" /\ conf.client
  /\ state' = "WaitRet"
  /\ write' = Append(write, "Head")
  /\ timer' = 0 /\ deadline' = 0
  /\ UNCHANGED <<conf, pc, ready, armed, vec, torn, appVars, wireOut, peerVars,
                 inVars, endVars>>

Shaking == pc = "select" /\ state = IF conf.client THEN "WaitRet" ELSE "Wait"

\* The client's response is here: handler_response, or FailStatus.
Response(b) ==
  \/ /\ Head(b) = "Head"
     /\ read' = Tail(b) /\ consumed' = <<"Head">>
     /\ LoopTop("Open", write) /\ UNCHANGED end
  \/ /\ Head(b) # "Head"
     /\ read' = b
     /\ Fails("error") /\ UNCHANGED <<state, vec, consumed>>

\* The server's request is here: on_request decides, or fails. A refusal is
\* answered and the connection closed, a Close frame behind the response.
Request(b) ==
  \/ /\ Head(b) = "Head"
     /\ read' = Tail(b) /\ consumed' = <<"Head">>
     /\ \/ LoopTop("Open", Append(write, "Head")) /\ UNCHANGED end
        \/ LoopTop("Closing", write \o <<"Refusal", "Close">>) /\ UNCHANGED end
        \/ Fails("error") /\ state' = "WaitRet" /\ UNCHANGED vec
  \/ /\ Head(b) # "Head"
     /\ read' = b
     /\ Fails("error") /\ UNCHANGED <<state, vec, consumed>>

\* k items are read; the head is the first of them.
ReadHead(k) ==
  /\ Shaking
  /\ wireIn' = SubSeq(wireIn, k + 1, Len(wireIn))
  /\ IF conf.client THEN Response(SubSeq(wireIn, 1, k))
                    ELSE Request(SubSeq(wireIn, 1, k))
  /\ UNCHANGED <<conf, ready, torn, appVars, wireOut, peerSent, peerEof, onClose>>

\* Mutant: the handshake's timeouts only turn the loop.
ShakeTimeoutIgnored ==
  /\ Shaking
  /\ timer >= ReadTimeout \/ deadline >= ShakeTimeout
  /\ LoopTop(state, write)
  /\ UNCHANGED <<conf, ready, torn, appVars, wireOut, peerVars, inVars,
                 endVars>>

ShakeTimesOut ==
  /\ Shaking
  /\ timer >= ReadTimeout \/ deadline >= ShakeTimeout
  /\ Fails("timeout")
  /\ UNCHANGED <<conf, state, ready, vec, torn, appVars, wireOut, peerVars,
                 inVars, onClose>>

-----------------------------------------------------------------------------
(* process() in the Open state.                                            *)

Opened == pc = "select" /\ state = "Open"

\* OwnedMessage::from_dataframes makes a message of the frames v. (A message
\* of more fragments is not different from one of two.)
Whole(v) == v \in {<<"Text">>, <<"Ping">>, <<"Close">>, <<"Part", "Last">>}

\* Mutant: on_ping's answer is dropped.
AnswerNone(v) == <<>>

\* on_ping's answer.
Answer(v) == IF v = <<"Ping">> THEN <<"Pong">> ELSE <<>>

\* on_message, on_pong or on_ping with the message v; it may fail.
Callback(v) ==
  /\ consumed' = consumed \o v
  /\ \/ LoopTop(state, write \o Answer(v)) /\ UNCHANGED end
     \/ Fails("error") /\ vec' = <<>> /\ UNCHANGED state
  /\ UNCHANGED onClose

\* Mutant: the Close is an error.
OnCloseFails(v) ==
  /\ consumed' = consumed \o v
  /\ onClose' = Append(onClose, "peer")
  /\ Fails("peer") /\ vec' = <<>> /\ UNCHANGED state

\* The peer's Close: on_close, and the loop is left, the Close unanswered.
OnClose(v) ==
  /\ consumed' = consumed \o v
  /\ onClose' = Append(onClose, "peer")
  /\ Leave("peer") /\ vec' = <<>> /\ UNCHANGED state

\* v cannot be a message: an error of the protocol.
NoMessage(v) ==
  /\ vec' = v
  /\ pc' = "failed" /\ end' = "protocol"
  /\ UNCHANGED <<state, timer, deadline, armed, write, consumed, onClose>>

\* Mutant: what is behind the message is dropped with it.
BehindNone(b, n) == <<>>

\* What is behind the n frames decoded.
Behind(b, n) == SubSeq(b, n + 1, Len(b))

\* All that was read is in fragments: process() reads on with a new sleep.
ReadOn(b) ==
  /\ vec' = vec \o b
  /\ read' = <<>>
  /\ timer' = 0
  /\ UNCHANGED <<pc, state, deadline, armed, write, consumed, endVars>>

HandleMessage(v) ==
  \/ Whole(v) /\ v # <<"Close">> /\ Callback(v)
  \/ Whole(v) /\ v = <<"Close">> /\ OnClose(v)
  \/ ~Whole(v) /\ NoMessage(v)

\* The inner loop of process() on the read buffer b: the frames up to the
\* first that is_last() go into vec, which makes a message.
DecodeFrames(b) ==
  LET lasts == {i \in 1 .. Len(b) : b[i] # "Part"}
  IN  \/ lasts = {} /\ ReadOn(b)
      \/ \E n \in lasts :
           /\ \A i \in lasts : n <= i
           /\ read' = Behind(b, n)
           /\ HandleMessage(vec \o SubSeq(b, 1, n))

Decode ==
  /\ Opened
  /\ read # <<>>
  /\ DecodeFrames(read)
  /\ UNCHANGED <<conf, ready, torn, appVars, wireOut, peerVars>>

Read(k) ==
  /\ Opened
  /\ read = <<>>
  /\ wireIn' = SubSeq(wireIn, k + 1, Len(wireIn))
  /\ DecodeFrames(SubSeq(wireIn, 1, k))
  /\ UNCHANGED <<conf, ready, torn, appVars, wireOut, peerSent, peerEof>>

ReadTimesOut ==
  /\ Opened
  /\ read = <<>>
  /\ timer >= ReadTimeout
  /\ Fails("timeout")
  /\ UNCHANGED <<conf, state, ready, vec, torn, appVars, wireOut, peerVars,
                 inVars, onClose>>

-----------------------------------------------------------------------------
(* process_io in the handshake and in Open: end of stream, writes, errors. *)

Reading == Shaking \/ (Opened /\ read = <<>>)

ReadEof ==
  /\ Reading
  /\ wireIn = <<>> /\ peerEof
  /\ Leave("eof")
  /\ UNCHANGED <<conf, state, ready, vec, torn, appVars, wireOut, peerVars,
                 inVars, onClose>>

\* Mutant: advance() is left out.
UnwrittenKept(k) == write

Unwritten(k) == SubSeq(write, k + 1, Len(write))

\* process_io's sleep is new, the deadline around it is not.
WriteSome(k) ==
  /\ Reading
  /\ wireOut' = wireOut \o SubSeq(write, 1, k)
  /\ write' = Unwritten(k)
  /\ timer' = 0
  /\ UNCHANGED <<taskVars, deadline, armed, vec, torn, appVars, peerVars, inVars,
                 endVars>>

SocketError ==
  /\ Reading
  /\ Fails("error")
  /\ UNCHANGED <<conf, state, ready, vec, torn, appVars, wireOut, peerVars,
                 inVars, onClose>>

-----------------------------------------------------------------------------
(* process() in the Closing state. Whatever process_io returns there, the  *)
(* connection is Closed and process() says Shutdown: the loop is left.     *)

Closing == pc = "select" /\ state = "Closing"

\* process_io refuses to start while the read buffer is full.
InBufferFull == Len(read) >= InBufferMax

\* Mutant: Closed after the first write.
DrainedByAny(k) == k > 0

DrainedBy(k) == k = Len(write)

DrainWrite(k) ==
  /\ Closing /\ ~InBufferFull
  /\ wireOut' = wireOut \o SubSeq(write, 1, k)
  /\ write' = Unwritten(k)
  /\ timer' = 0
  /\ IF DrainedBy(k)
     THEN state' = "Closed" /\ pc' = "done" /\ end' = "drained"
     ELSE UNCHANGED <<state, pc, end>>
  /\ UNCHANGED <<conf, ready, deadline, armed, vec, torn, appVars, peerVars,
                 inVars, onClose>>

CloseAnyway ==
  /\ Closing
  /\ \/ InBufferFull /\ Leave("full")
     \/ ~InBufferFull /\ write # <<>> /\ Leave("broken")
     \/ /\ timer >= ReadTimeout \/ deadline >= ClosingTime
        /\ Leave("expired")
  /\ state' = "Closed"
  /\ UNCHANGED <<conf, ready, vec, torn, appVars, wireOut, peerVars, inVars, onClose>>

-----------------------------------------------------------------------------
(* The other branches of the loop. They drop process() and its vec.        *)

\* Mutant: close() does not look at the state.
FramedAlways(c) == IF c \in {"Close", "Unvaid"} THEN <<"Close">> ELSE <<c>>

\* Mutant: Unvaid is encoded like the others.
FramedUnvaid(c) ==
  IF c = "Close" THEN (IF state = "Open" THEN <<"Close">> ELSE <<>>) ELSE <<c>>

\* The command's frame: close() sends one from Open only; Unvaid is a Close
\* frame that closes nothing.
Framed(c) ==
  IF c = "Close" /\ state # "Open" THEN <<>>
  ELSE IF c = "Unvaid" THEN <<"Close">> ELSE <<c>>

Recv ==
  /\ pc = "select" /\ armed
  /\ queue # <<>>
  /\ queue' = Tail(queue)
  /\ torn' = (torn \/ vec # <<>>)
  /\ LoopTop(IF Head(queue) = "Close" THEN "Closing" ELSE state,
             write \o Framed(Head(queue)))
  /\ UNCHANGED <<conf, ready, senders, early, accepted, wireOut, peerVars,
                 inVars, endVars>>

RecvNone ==
  /\ pc = "select" /\ armed
  /\ queue = <<>> /\ ~senders /\ ~conf.avoid
  /\ Leave("dropped")
  /\ UNCHANGED <<conf, state, ready, vec, torn, appVars, wireOut, peerVars,
                 inVars, onClose>>

OnLogic ==
  /\ pc = "select" /\ conf.logic
  /\ \/ /\ torn' = (torn \/ vec # <<>>)
        /\ LoopTop(state, write) /\ UNCHANGED end
     \/ Fails("error") /\ UNCHANGED <<state, vec, torn>>
  /\ UNCHANGED <<conf, ready, appVars, wireOut, peerVars, inVars, onClose>>

ReportError ==
  /\ pc = "failed"
  /\ pc' = "done"
  /\ onClose' = Append(onClose, "Error")
  /\ UNCHANGED <<conf, state, ready, turnVars, appVars, outVars, peerVars,
                 inVars, end>>

-----------------------------------------------------------------------------
(* Time passes only when the task has nothing it could do at once.         *)

Sleeping ==
  /\ \/ Shaking /\ timer < ReadTimeout /\ deadline < ShakeTimeout
     \/ Opened /\ read = <<>> /\ timer < ReadTimeout
     \/ Closing /\ ~InBufferFull /\ timer < ReadTimeout /\ deadline < ClosingTime
  /\ ~(armed /\ queue # <<>>)
  /\ ~(armed /\ ~senders /\ ~conf.avoid)

\* Nothing in Open has a deadline.
Tick ==
  /\ Sleeping
  /\ timer' = timer + 1
  /\ deadline' = IF Opened THEN deadline ELSE deadline + 1
  /\ UNCHANGED <<taskVars, armed, vec, torn, appVars, outVars, peerVars, inVars,
                 endVars>>

Finished == pc = "done" /\ UNCHANGED vars

Peer == PeerSend \/ PeerShutdown

App == AppSend \/ AppDrop

Outside ==
  \/ TryAccept \/ AcceptFails \/ OnOpen \/ SocketError \/ OnLogic
  \/ \E k \in 1 .. Len(wireIn) : ReadHead(k) \/ Read(k)
  \/ ReadEof
  \/ \E k \in 1 .. Len(write) : WriteSome(k) \/ DrainWrite(k)

Task ==
  \/ BuildRequest \/ ShakeTimesOut
  \/ Decode \/ ReadTimesOut \/ CloseAnyway
  \/ Recv \/ RecvNone
  \/ ReportError

Next == Peer \/ App \/ Outside \/ Task \/ Tick \/ Finished

Spec == Init /\ [][Next]_vars

\* As in StreamConn: the runtime polls a ready task, and time goes on.
FairSpec == Spec /\ WF_vars(Task) /\ WF_vars(Tick)

-----------------------------------------------------------------------------
(* Properties.                                                             *)

Taken == SubSeq(accepted, 1, Len(accepted) - Len(queue))

Out == wireOut \o write

\* Every frame of the peer reaches a callback as part of its message, or
\* waits, once and in order, as long as no fragments were lost: a dropped
\* process() loses vec and nothing else.
InboundExact == ~torn => consumed \o vec \o read \o wireIn = peerSent

\* What the application says to its peer, of frames or of commands s.
Data(s) == Expand([f \in Frames \cup Commands |->
                     IF f \in {"Text", "Ping"} THEN <<f>> ELSE <<>>], s)

\* Text and Ping go out for exactly the commands taken, in the order they
\* were accepted, before, in and after the handshake.
DataExact == Data(Out) = Data(Taken)

\* on_open waits for the handshake: the peer's head is the first thing that
\* was handled, and our own is encoded.
OpenAfterHandshake ==
  ready => consumed # <<>> /\ Head(consumed) = "Head" /\ Has("Head", Out)

\* If the application waits for on_open, nothing is on the wire before the
\* head of the handshake; and there is just one.
HandshakeFirst ==
  /\ (~early /\ Out # <<>>) => Head(Out) \in {"Head", "Refusal"}
  /\ Count("Head", Out) + Count("Refusal", Out) <= 1

\* However often and at whatever time it is closed, a connection sends at
\* most one Close frame (unless the application sends Unvaid, which is
\* encoded as one).
CloseOnce == ~Has("Unvaid", accepted) => Count("Close", Out) <= 1

\* While the loop runs there is a Pong for every Ping delivered.
PongsMatch == pc = "select" => Count("Pong", Out) = Count("Ping", consumed)

\* A connection that was open, or refused its peer, and ends as drained has
\* put its Close on the wire.
DrainedAll ==
  (end = "drained" /\ (ready \/ Has("Refusal", wireOut))) => Has("Close", wireOut)

\* The connection as its handler sees it: nothing is open before on_open,
\* and messages count when their last frame is there.
HandlerStage ==
  CASE pc \in {"accept", "open"}  -> "new"
    [] pc = "select"              -> IF ready THEN "open" ELSE "new"
    [] pc = "failed"              -> "failed"
    [] OTHER                      -> "ended"

Msgs == {"Text", "Ping", "Close", "Bad"}

Messages(s) ==
  Expand([i \in Items |-> CASE i = "Last" -> <<"Text">>
                            [] i \in Msgs -> <<i>>
                            [] OTHER -> <<>>], s)

H == INSTANCE Handler WITH
       Handshake <- TRUE,
       stage <- HandlerStage,
       peerSent <- Messages(peerSent), delivered <- Messages(consumed)

\* Handler's promise, through handshakes that fail and fragments that are
\* lost: a message whose fragment is lost is never passed over, let alone
\* delivered in part.
RefinesHandler == H!HSpec

\* Once application and peer fall silent, a connection whose handler has no
\* on_logic does not stay where it is, wherever in the handshake it was: it
\* ends, or comes to on_open, and being ready never comes there again.
Terminates == (pc = "select" /\ ~conf.logic) ~> (pc \in {"open", "done"})

-----------------------------------------------------------------------------
(* What the documentation says, and the code does not do.                  *)

\* handler.rs:46: on_message is called when a message is received. A peer
\* that sends nothing but whole messages, some in two frames, never makes
\* the connection fail for a breach of protocol.
LegalPeer ==
  /\ \A i \in DOMAIN peerSent : peerSent[i] # "Bad"
  /\ \A i \in DOMAIN peerSent :
       (peerSent[i] = "Last") <=> (i > 1 /\ peerSent[i - 1] = "Part")

FragmentsArrive == LegalPeer => end # "protocol"
=============================================================================

----------------------------- MODULE StreamConn -----------------------------
(***************************************************************************)
(* One TCP or KCP connection of hcnet and the task that runs it            *)
(* (tcp/mod.rs, kcp/mod.rs, conn.rs, sender.rs), between the application   *)
(* that holds NetSenders and the peer at the other end of the stream. The  *)
(* two transports run the same loop over the same codec; conf.kcp marks    *)
(* where they differ.                                                      *)
(*                                                                         *)
(* The task is the loop of inner_run_with_handler: a tokio::select! over   *)
(* process(), receiver.recv() and handler.on_logic(). Whichever completes  *)
(* first drops the other two futures, so the sleep that process() was      *)
(* waiting on starts anew, and the precondition of recv is looked at again *)
(* only then: LoopTop.                                                     *)
(*                                                                         *)
(* Data is abstracted to frames, named by their kind. Text stands for Text *)
(* and Binary, Bad for a frame decode_message or the in_buffer_max check   *)
(* refuses. On a raw connection every item is a run of bytes (Text). As a  *)
(* command, Ping also stands for a Pong the application sends; a Pong frame*)
(* is always the answer of the default on_ping.                            *)
(*                                                                         *)
(* In the write buffer a frame has a size, and the socket may take any     *)
(* number of its bytes: a frame of n bytes is n - 1 times "Part" and then  *)
(* its kind, with which the peer has it all.                               *)
(***************************************************************************)
EXTENDS Integers, FrameSeqs

Items    == {"Text", "Ping", "Pong", "Close", "Bad"}
Commands == {"Text", "Ping", "Close", "Shutdown", "Unvaid"}
Frames   == {"Text", "Ping", "Pong", "Close"}
Bytes    == Frames \cup {"Part"}

CONSTANTS
  Confs,          \* the ways the connection may be run, records of
                  \*   avoid: by run_handler, whose spare sender keeps the
                  \*          command channel open;
                  \*   logic: with an on_logic that completes now and then;
                  \*   raw:   with settings.is_raw;
                  \*   kcp:   over a KcpStream
  QueueSize,      \* settings.queue_size: capacity of the command channel
  FrameSize,      \* how many bytes the frame of each kind has
  OutBufferMax,   \* settings.out_buffer_max, in bytes
  ReadTimeout,    \* settings.read_timeout, in ticks
  ClosingTime,    \* settings.closing_time, in ticks
  MaxIn,          \* bound: items the peer sends
  MaxCmd          \* bound: commands the application gets accepted

ASSUME StreamAssumption ==
  /\ Confs \subseteq [avoid : BOOLEAN, logic : BOOLEAN, raw : BOOLEAN,
                  kcp : BOOLEAN]
  /\ QueueSize \in Nat \ {0}   \* tokio's channel(0) panics
  /\ FrameSize \in [Frames -> Nat \ {0}]
  /\ OutBufferMax \in Nat
  /\ ReadTimeout \in Nat
  /\ ClosingTime \in Nat
  /\ MaxIn \in Nat
  /\ MaxCmd \in Nat

VARIABLES
  conf,       \* how the connection is run, chosen once
  link,       \* the Tcp or Kcp enum of a connection
  pc,         \* where the task stands
  state,      \* TcpState or KcpState
  timer,      \* ticks since the sleep process() waits on was created
  age,        \* history: ticks spent in Closing
  armed,      \* recv's precondition, as this turn of the loop found it
  queue,      \* the command channel
  senders,    \* does the application still hold a NetSender?
  accepted,   \* history: every command send_message accepted
  write,      \* bytes encoded and not yet written
  wireOut,    \* frames written to the socket, to their last byte
  peerSent,   \* history: everything the peer sent
  wireIn,     \* sent by the peer and not yet read
  peerEof,    \* has the peer shut its side down?
  read,       \* read from the socket and not yet decoded
  delivered,  \* history: items that callbacks were given
  onClose,    \* history: on_close calls, by where their code came from
  end         \* history: why the loop was left

connVars == <<conf, link, pc, state, timer, age, armed>>
outVars  == <<queue, senders, accepted, write, wireOut>>
inVars   == <<peerSent, wireIn, peerEof, read, delivered>>
endVars  == <<onClose, end>>
vars     == <<connVars, outVars, inVars, endVars>>

Ends == {"none", "eof", "peer", "drained", "expired", "dropped", "timeout", "error"}

TypeOK ==
  /\ conf \in Confs
  /\ link \in {"AcceptServer", "Unconnect", "Stream"}
  /\ pc \in {"accept", "open", "select", "linger", "failed", "done"}
  /\ state \in {"Open", "Closing", "Closed"}
  /\ timer \in Nat
  /\ age \in Nat
  /\ armed \in BOOLEAN
  /\ queue \in Seq(Commands)
  /\ senders \in BOOLEAN
  /\ accepted \in Seq(Commands)
  /\ write \in Seq(Bytes)
  /\ wireOut \in Seq(Frames)
  /\ peerSent \in Seq(Items)
  /\ wireIn \in Seq(Items)
  /\ peerEof \in BOOLEAN
  /\ read \in Seq(Items)
  /\ delivered \in Seq(Items)
  /\ onClose \in Seq({"peer", "Error"})
  /\ end \in Ends

Init ==
  /\ conf \in Confs
  /\ link \in {"AcceptServer", "Unconnect", "Stream"}
  /\ conf.kcp => link # "AcceptServer"
  /\ pc = "accept"
  /\ state = "Open"
  /\ timer = 0
  /\ age = 0
  /\ armed = FALSE
  /\ queue = <<>>
  /\ senders = TRUE
  /\ accepted = <<>>
  /\ write = <<>>
  /\ wireOut = <<>>
  /\ peerSent = <<>>
  /\ wireIn = <<>>
  /\ peerEof = FALSE
  /\ read = <<>>
  /\ delivered = <<>>
  /\ onClose = <<>>
  /\ end = "none"

-----------------------------------------------------------------------------
(* The encoding of messages, and the ways a turn of the loop can end.      *)

\* The bytes of a frame of kind m.
FrameOf(m) ==
  [i \in 1 .. FrameSize[m] |-> IF i = FrameSize[m] THEN m ELSE "Part"]

\* The frames that end in s.
Whole(s) == Expand([b \in Bytes |-> IF b = "Part" THEN <<>> ELSE <<b>>], s)

\* Mutant: the others, Unvaid and Shutdown, are encoded somehow, too.
EncodeAll(m) ==
  IF conf.raw /\ m # "Text" THEN <<>>
  ELSE IF m \in Frames THEN FrameOf(m) ELSE <<m>>

\* Mutant: the on_ping branch forgets its Pong.
EncodeNoPong(m) ==
  IF m \in Frames \ {"Pong"} /\ (conf.raw => m = "Text") THEN FrameOf(m) ELSE <<>>

\* encode_message: a raw connection puts payload on the wire and nothing
\* else; Shutdown and Unvaid have no encoding.
Encode(m) ==
  IF m \in Frames /\ (conf.raw => m = "Text") THEN FrameOf(m) ELSE <<>>

\* The command's frame: Shutdown closes with CloseCode::Away.
Framed(c) == Encode(IF c = "Shutdown" THEN "Close" ELSE c)

\* Mutant: off by one.
RoomAtMax(w) == Len(w) <= OutBufferMax

\* recv's precondition: it looks at what the buffer holds, not at what the
\* next command will add.
Room(w) == Len(w) < OutBufferMax

\* Back to the top of the loop with w to write.
LoopTop(w) ==
  /\ pc' = "select"
  /\ timer' = 0
  /\ armed' = Room(w)
  /\ write' = w

\* `return Ok(())`: the loop is left for reason e.
Leave(e) ==
  /\ pc' = "done"
  /\ end' = e
  /\ UNCHANGED <<timer, armed, write>>

\* `?` on an error: inner_run_with_handler returns it.
Fails(e) ==
  /\ pc' = "failed"
  /\ end' = e
  /\ UNCHANGED <<timer, armed, write>>

-----------------------------------------------------------------------------
(* The peer and the network. What comes after the end reaches nobody.      *)

Alive == pc \notin {"failed", "done"}

PeerSend ==
  /\ Alive /\ link # "Unconnect"
  /\ ~peerEof
  /\ Len(peerSent) < MaxIn
  /\ \E m \in IF conf.raw THEN {"Text"} ELSE Items :
       /\ peerSent' = Append(peerSent, m)
       /\ wireIn' = Append(wireIn, m)
  /\ UNCHANGED <<connVars, outVars, peerEof, read, delivered, endVars>>

PeerShutdown ==
  /\ Alive /\ link # "Unconnect"
  /\ ~peerEof
  /\ peerEof' = TRUE
  /\ UNCHANGED <<connVars, outVars, peerSent, wireIn, read, delivered, endVars>>

-----------------------------------------------------------------------------
(* The application: NetSender::send_message is a try_send, refused when    *)
(* the channel is full or its receiver, owned by the loop, is gone.        *)

AppSend ==
  /\ Alive /\ senders
  /\ Len(queue) < QueueSize
  /\ Len(accepted) < MaxCmd
  /\ \E c \in Commands :
       /\ queue' = Append(queue, c)
       /\ accepted' = Append(accepted, c)
  /\ UNCHANGED <<connVars, senders, write, wireOut, inVars, endVars>>

AppDrop ==
  /\ Alive /\ senders
  /\ senders' = FALSE
  /\ UNCHANGED <<connVars, queue, accepted, write, wireOut, inVars, endVars>>

-----------------------------------------------------------------------------
(* The task before its loop.                                               *)

\* Tcp::try_accept: the TLS handshake of an accepted connection, if it has
\* one; nothing to do on the others. KcpConn has no such step.
TryAccept ==
  /\ pc = "accept"
  /\ pc' = "open"
  /\ link' = IF link = "AcceptServer" THEN "Stream" ELSE link
  /\ UNCHANGED <<conf, state, timer, age, armed, outVars, inVars, endVars>>

AcceptFails ==
  /\ pc = "accept"
  /\ link = "AcceptServer"
  /\ Fails("error")
  /\ UNCHANGED <<conf, link, state, age, queue, senders, accepted, wireOut,
                 inVars, onClose>>

\* handler.on_open, which may fail.
OnOpen ==
  /\ pc = "open"
  /\ \/ LoopTop(write) /\ UNCHANGED end
     \/ Fails("error")
  /\ UNCHANGED <<conf, link, state, age, queue, senders, accepted, wireOut,
                 inVars, onClose>>

-----------------------------------------------------------------------------
(* process() of a connection that is still to be made: the connect runs    *)
(* inside the loop.                                                        *)

Connect ==
  /\ pc = "select"
  /\ link = "Unconnect"
  /\ link' = "Stream"
  /\ LoopTop(write)
  /\ UNCHANGED <<conf, state, age, queue, senders, accepted, wireOut,
                 inVars, endVars>>

ConnectFails ==
  /\ pc = "select"
  /\ link = "Unconnect"
  /\ Fails("error")
  /\ UNCHANGED <<conf, link, state, age, queue, senders, accepted, wireOut,
                 inVars, onClose>>

-----------------------------------------------------------------------------
(* process() in the Open state.                                            *)

\* Mutant: a connection that closes goes on reading.
OpenedOrClosing ==
  pc = "select" /\ link = "Stream" /\ state \in {"Open", "Closing"}

Opened == pc = "select" /\ link = "Stream" /\ state = "Open"

\* Mutant: the framed branch empties the read buffer too.
RestLost(b) == <<>>

\* decode_message takes the first frame of the read buffer b, or all of it
\* on a raw connection.
Decoded(b) == IF conf.raw THEN b ELSE <<Head(b)>>
Rest(b)    == IF conf.raw THEN <<>> ELSE Tail(b)

\* A message callback: on_message, on_pong, or on_ping, whose answer is
\* encoded as a Pong. It may fail.
Callback(b) ==
  /\ conf.raw \/ Head(b) \in {"Text", "Ping", "Pong"}
  /\ delivered' = delivered \o Decoded(b)
  /\ read' = Rest(b)
  /\ \/ /\ LoopTop(IF Head(b) = "Ping" THEN write \o Encode("Pong") ELSE write)
        /\ UNCHANGED end
     \/ Fails("error")
  /\ UNCHANGED onClose

\* Mutant: the Close branch ends in an error instead of Ok(()).
OnCloseFails(b) ==
  /\ ~conf.raw /\ Head(b) = "Close"
  /\ delivered' = delivered \o Decoded(b)
  /\ read' = Rest(b)
  /\ onClose' = Append(onClose, "peer")
  /\ Fails("error")

\* Mutant: the Close branch lacks its return.
OnCloseGoesOn(b) ==
  /\ ~conf.raw /\ Head(b) = "Close"
  /\ delivered' = delivered \o Decoded(b)
  /\ read' = Rest(b)
  /\ onClose' = Append(onClose, "peer")
  /\ LoopTop(write)
  /\ UNCHANGED end

\* The peer's Close: on_close, and the loop is left with what it holds.
OnClose(b) ==
  /\ ~conf.raw /\ Head(b) = "Close"
  /\ delivered' = delivered \o Decoded(b)
  /\ read' = Rest(b)
  /\ onClose' = Append(onClose, "peer")
  /\ Leave("peer")

\* decode_message, or the in_buffer_max check, returns an error.
BadMessage(b) ==
  /\ ~conf.raw /\ Head(b) = "Bad"
  /\ read' = b
  /\ Fails("error")
  /\ UNCHANGED <<delivered, onClose>>

HandleMessage(b) ==
  /\ Callback(b) \/ OnClose(b) \/ BadMessage(b)
  /\ UNCHANGED <<conf, link, state, age, queue, senders, accepted, wireOut,
                 peerSent, peerEof>>

\* A message is left over in the read buffer.
Decode ==
  /\ Opened
  /\ read # <<>>
  /\ HandleMessage(read)
  /\ UNCHANGED wireIn

\* The socket has k more items; the first of them is decoded without a
\* pause in between.
Read(k) ==
  /\ Opened
  /\ read = <<>>
  /\ wireIn' = SubSeq(wireIn, k + 1, Len(wireIn))
  /\ HandleMessage(SubSeq(wireIn, 1, k))

\* Mutant: a read of 0 bytes only turns the loop.
ReadEofIgnored ==
  /\ Opened
  /\ read = <<>> /\ wireIn = <<>> /\ peerEof
  /\ LoopTop(write)
  /\ UNCHANGED <<conf, link, state, age, queue, senders, accepted, wireOut,
                 inVars, endVars>>

\* A read of 0 bytes: process() says Shutdown and the loop is left.
ReadEof ==
  /\ Opened
  /\ read = <<>> /\ wireIn = <<>> /\ peerEof
  /\ Leave("eof")
  /\ UNCHANGED <<conf, link, state, age, queue, senders, accepted, wireOut,
                 inVars, onClose>>

\* Mutant: clear() after every write.
UnwrittenCleared(k) == <<>>

\* Mutant: advance() is left out.
UnwrittenKept(k) == write

\* What is left to write when the socket took k bytes: advance(k).
Unwritten(k) == SubSeq(write, k + 1, Len(write))

\* The socket takes k bytes. process() goes on: its sleep is new, but the
\* loop does not turn.
WriteSome(k) ==
  /\ Opened
  /\ read = <<>>
  /\ wireOut' = wireOut \o Whole(SubSeq(write, 1, k))
  /\ write' = Unwritten(k)
  /\ timer' = 0
  /\ UNCHANGED <<conf, link, pc, state, age, armed, queue, senders, accepted,
                 inVars, endVars>>

\* Mutant: the timeout only turns the loop.
ReadTimeoutIgnored ==
  /\ Opened
  /\ read = <<>>
  /\ timer >= ReadTimeout
  /\ LoopTop(write)
  /\ UNCHANGED <<conf, link, state, age, queue, senders, accepted, wireOut,
                 inVars, endVars>>

ReadTimesOut ==
  /\ Opened
  /\ read = <<>>
  /\ timer >= ReadTimeout
  /\ Fails("timeout")
  /\ UNCHANGED <<conf, link, state, age, queue, senders, accepted, wireOut,
                 inVars, onClose>>

-----------------------------------------------------------------------------
(* process() in the Closing and Closed states.                             *)

Closing == pc = "select" /\ link = "Stream" /\ state = "Closing"

\* Mutant: Closed after the first write.
DrainedByAny(k) == k > 0

\* `if !self.write.has_remaining()`.
DrainedBy(k) == k = Len(write)

\* The socket takes k bytes. With the last one the connection is Closed.
\* KCP leaves the loop there; TCP's process() sleeps before it says Shutdown.
DrainWrite(k) ==
  /\ Closing
  /\ wireOut' = wireOut \o Whole(SubSeq(write, 1, k))
  /\ write' = Unwritten(k)
  /\ timer' = 0
  /\ IF DrainedBy(k)
     THEN /\ state' = "Closed"
          /\ age' = 0
          /\ IF conf.kcp THEN pc' = "done" /\ end' = "drained"
                         ELSE pc' = "linger" /\ UNCHANGED end
     ELSE UNCHANGED <<state, pc, age, end>>
  /\ UNCHANGED <<conf, link, armed, queue, senders, accepted, inVars, onClose>>

ClosingExpires ==
  /\ Closing
  /\ timer >= ClosingTime
  /\ state' = "Closed"
  /\ age' = 0
  /\ Leave("expired")
  /\ UNCHANGED <<conf, link, queue, senders, accepted, wireOut, inVars, onClose>>

LingerDone ==
  /\ pc = "linger"
  /\ timer >= ClosingTime
  /\ Leave("drained")
  /\ UNCHANGED <<conf, link, state, age, queue, senders, accepted, wireOut,
                 inVars, onClose>>

\* The sleep was cut short by another branch: process() is called on a
\* connection already Closed. (Never on KCP, which has no such sleep.)
ProcessClosed ==
  /\ pc = "select" /\ link = "Stream" /\ state = "Closed"
  /\ Leave("drained")
  /\ UNCHANGED <<conf, link, state, age, queue, senders, accepted, wireOut,
                 inVars, onClose>>

\* The socket reports an error to a read or a write under way.
SocketError ==
  /\ (Opened /\ read = <<>>) \/ (Closing /\ write # <<>>)
  /\ Fails("error")
  /\ UNCHANGED <<conf, link, state, age, queue, senders, accepted, wireOut,
                 inVars, onClose>>

-----------------------------------------------------------------------------
(* The other branches of the loop.                                         *)

InLoop == pc \in {"select", "linger"}

\* A command. Close and Shutdown encode a Close frame and enter Closing,
\* whatever the state was.
Recv ==
  /\ InLoop /\ armed
  /\ queue # <<>>
  /\ queue' = Tail(queue)
  /\ LoopTop(write \o Framed(Head(queue)))
  /\ IF Head(queue) \in {"Close", "Shutdown"}
     THEN state' = "Closing" ELSE UNCHANGED state
  /\ UNCHANGED <<conf, link, age, senders, accepted, wireOut, inVars, endVars>>

\* Every sender is gone and the channel is empty.
RecvNone ==
  /\ InLoop /\ armed
  /\ queue = <<>> /\ ~senders /\ ~conf.avoid
  /\ Leave("dropped")
  /\ UNCHANGED <<conf, link, state, age, queue, senders, accepted, wireOut,
                 inVars, onClose>>

OnLogic ==
  /\ InLoop /\ conf.logic
  /\ \/ LoopTop(write) /\ UNCHANGED end
     \/ Fails("error")
  /\ UNCHANGED <<conf, link, state, age, queue, senders, accepted, wireOut,
                 inVars, onClose>>

\* inner_run_handler and run_with_handler tell the handler of an error.
ReportError ==
  /\ pc = "failed"
  /\ pc' = "done"
  /\ onClose' = Append(onClose, "Error")
  /\ UNCHANGED <<conf, link, state, timer, age, armed, outVars, inVars, end>>

-----------------------------------------------------------------------------
(* Time passes only when the task has nothing it could do at once.         *)

Sleeping ==
  /\ InLoop /\ link = "Stream"
  /\ \/ Opened /\ read = <<>> /\ timer < ReadTimeout
     \/ (Closing \/ pc = "linger") /\ timer < ClosingTime
  /\ ~(armed /\ queue # <<>>)
  /\ ~(armed /\ ~senders /\ ~conf.avoid)

Tick ==
  /\ Sleeping
  /\ timer' = timer + 1
  /\ age' = IF Closing /\ age <= ClosingTime THEN age + 1 ELSE age
  /\ UNCHANGED <<conf, link, pc, state, armed, outVars, inVars, endVars>>

\* The connection is dropped.
Finished == pc = "done" /\ UNCHANGED vars

-----------------------------------------------------------------------------
Peer == PeerSend \/ PeerShutdown

App == AppSend \/ AppDrop

\* What the socket or the application's callbacks decide when to do.
Outside ==
  \/ TryAccept \/ AcceptFails \/ OnOpen \/ SocketError \/ OnLogic
  \/ \E k \in 1 .. Len(wireIn) : Read(k)
  \/ ReadEof
  \/ \E k \in 1 .. Len(write) : WriteSome(k) \/ DrainWrite(k)

\* What the task and its timers do on their own.
Task ==
  \/ Connect \/ ConnectFails
  \/ Decode \/ ReadTimesOut
  \/ ClosingExpires \/ LingerDone \/ ProcessClosed
  \/ Recv \/ RecvNone
  \/ ReportError

Next == Peer \/ App \/ Outside \/ Task \/ Tick \/ Finished

Spec == Init /\ [][Next]_vars

\* The runtime polls a ready task again, a connect attempt is bounded by
\* connect_timeout, and time goes on. Nothing is assumed of the peer, the
\* socket or the application.
FairSpec == Spec /\ WF_vars(Task) /\ WF_vars(Tick)

-----------------------------------------------------------------------------
(* Properties.                                                             *)

\* Commands the task has taken from the channel.
Taken == SubSeq(accepted, 1, Len(accepted) - Len(queue))

\* What the application hears of the peer: every item the peer sent is
\* handed to a callback, waits in the read buffer or is in the socket, once
\* and in order, at all times. (A Bad item that ended the connection waits
\* for ever in the read buffer.)
InboundExact == delivered \o read \o wireIn = peerSent

\* Frames but for the Pongs, which the task adds on its own.
Spoken(s) == Expand([f \in Items |-> IF f = "Pong" THEN <<>> ELSE <<f>>], s)

\* The frames of the commands cs.
Told(cs) == Expand([c \in Commands |-> Whole(Framed(c))], cs)

\* What the peer hears of the application: on the wire and in the write
\* buffer are the frames of exactly the commands taken, in the order
\* send_message accepted them; Pongs, which the task adds, come in between.
OutboundExact == Spoken(wireOut \o Whole(write)) = Told(Taken)

\* "a Pong for every Ping": while the loop runs, as many Pongs were encoded
\* as Pings were delivered, however process() was cut short in between.
PongsMatch ==
  (InLoop /\ ~conf.raw) =>
    Count("Pong", wireOut \o Whole(write)) = Count("Ping", delivered)

\* A connection that reports itself drained has put its Close on the wire
\* (and, by OutboundExact, all that was accepted before it), even when
\* commands came while it closed. On a raw connection it left no frame of
\* the time before Closed unwritten.
DrainedAll ==
  (state = "Closed" /\ end \in {"none", "drained"}) =>
    IF conf.raw THEN pc = "linger" => write = <<>> ELSE Has("Close", wireOut)

\* Where the frames of commands end in s.
Commanded(s) == {i \in 1 .. Len(s) : s[i] \notin {"Pong", "Part"}}

\* Backpressure: no command's frame stands behind out_buffer_max bytes or
\* more, whatever else recv, on_ping and the socket did since it was put
\* there. So commands fill the write buffer beyond out_buffer_max by less
\* than one of their frames. (By the rest of a large frame they do, and Pongs
\* are added without asking.)
Backpressure == \A i \in Commanded(write) : i - FrameSize[write[i]] < OutBufferMax

\* The connection as its handler sees it.
HandlerStage ==
  CASE pc \in {"accept", "open"}   -> "new"
    [] pc \in {"select", "linger"} -> "open"
    [] pc = "failed"               -> "failed"
    [] OTHER                       -> "ended"

H == INSTANCE Handler WITH
       Msgs <- Items, Handshake <- FALSE, stage <- HandlerStage

\* on_open once and first, messages a prefix of what was sent, on_close last
\* and at most once: Handler's promise, kept through every error path.
RefinesHandler == H!HSpec

\* Once application and peer fall silent, a connection whose handler has no
\* on_logic always ends: by EOF or Close, by read_timeout when Open, by
\* closing_time when Closing. No lost wake-up keeps it open.
Terminates == (pc = "select" /\ ~conf.logic) ~> (pc = "done")

-----------------------------------------------------------------------------
(* What the documentation says, and the code does not do.                  *)

\* settings.rs:22: closing_time is the longest time left for writing in the
\* closing state.
ClosingBounded == state = "Closing" => age <= ClosingTime
=============================================================================

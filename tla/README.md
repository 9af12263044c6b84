# hcnet in TLA+

hcnet runs a connection, over TCP, TLS, KCP or WebSocket, as one tokio task that
calls an application's `Handler`. This directory holds TLA+ models of its
concurrent and stateful parts, the TLC configurations that check them, and proofs
that TLAPS checks.

Source paths below are relative to `src/src/`.

## The system

| Part | State | Operations | Talks to |
|---|---|---|---|
| TCP connection (`tcp/mod.rs`) | `Tcp` enum, `TcpState`, read and write buffers, settings | `process`, the `select!` loop, `close`, `try_accept` | socket, command channel, handler |
| KCP connection (`kcp/mod.rs`) | the same, over a `KcpStream` | the same, without TLS and without the sleep after the last write | the same |
| Command channel (`sender.rs`) | a bounded tokio mpsc channel | `send_message`, `close_with_reason`, dropping a sender | application to task |
| Handler (`handler.rs`) | the application's | `on_open`, `on_message`, `on_ping`, `on_pong`, `on_close`, `on_accept`, `on_logic` | called by the task |
| Listener (`listener.rs`, `kcp/listener.rs`, the `Listener` arms of `process`) | connection number, settings, `OnlineCount` | accept, hand over to `on_accept`, end | accepted connections, through the count |
| OnlineCount (`online_count.rs`) | a counter shared through an `Arc<RwLock>` | `add`, `now`, `Drop` | listener's task and every connection's task |
| IdCenter (`id_center.rs`) | one atomic counter | `next_connect_id` | every thread that connects or binds |
| Codec (`decode.rs`, `encode.rs`) | none | frame and unframe | TCP and KCP connections |
| WebSocket (`ws/`) | `WsState`, buffers, fragments read so far | handshake, frames, close | socket, channel, handler |
| Constructors (`conn.rs`, `builder.rs`, the `connect*` of the transports) | the settings on their way, a timer | look up, connect, TLS handshake | network, IdCenter |
| TLS wrappers, errors | none to speak of | dispatch, I/O | |

What makes these hard:

- **Cancellation.** The loop's `select!` drops `process()` whenever a command
  arrives or `on_logic` completes, in the middle of a read, a write or a sleep.
  Whatever `process()` keeps in locals, timers included, starts anew, and the
  precondition of `recv` is evaluated once per turn of the loop and not again
  while `process()` writes.
- **Every `?` ends the connection**: callbacks, codec, socket, timers. The
  handler must still be told exactly once.
- **Two directions share one task**: answers to Pings fill the buffer that
  holds commands back; a close command overtakes nothing.
- **The listener's count** is read and written in separate steps, by tasks that
  start and end at any moment.
- **Ids** come from a counter whose wrap-around is two atomic steps.
- **A stream has no frames**: a length arrives in pieces, is taken off the
  buffer before the frame is known to be complete, and has three bytes.
- **Two ends share a connection**: both may close, stall or vanish at once, and
  in Closing nobody reads.
- **A connect races its timer**, and inside the loop also every command.

What makes each part correct: *connection*: bytes in both directions arrive
once and in order, Pongs match Pings, a drained connection has written its
Close, commands are held back by the buffer, the handler's life is
open - messages - close, and a silent connection ends. *Listener*: the count is
the number of connections, the limit holds, no place leaks, ids differ.
*IdCenter*: ids in range, repeated only after a reset, every call returns.
*Codec*: what was encoded is decoded, in any split into reads; lengths do not
wrap. *WebSocket*: handshake before frames, fragments are put together, one
Close. *Two ends*: each hears what the other said, one closes and the other is
told, and neither outlives the other. *Constructors*: the timeout, the settings,
the TLS and the new id that were asked for.

## Modules

| Module | What it is |
|---|---|
| `Handler` | abstract specification: what a connection promises its handler |
| `StreamConn` | a TCP or KCP connection: `process()`, the loop, the channel, the peer, time |
| `StreamConnProofs` | theorems about it, refinement of `Handler` among them |
| `FrameSeqs` | counting in a sequence, and replacing its elements by sequences: what the properties of connections are stated with |
| `SeqLemmas` | what the proofs about connections share: splitting a buffer and adding to one, counting, `Expand` by the parts of its argument |
| `TcpPair`, `MCTcpPair` | two ends of `StreamConn`, a client and a server, on one TCP connection |
| `TcpPairProofs` | theorems about the pair, from those about one end |
| `Codec`, `MCCodec` | messages to bytes to messages: length, opcode, close code, any cut of the stream |
| `CodecProofs` | theorems about it |
| `Connect`, `MCConnect`, `ConnectProofs` | every constructor of a client connection, from the call to a connection that can run, and theorems |
| `MCStreamConn` | the sets of connections the runs look at |
| `WsConn`, `MCWsConn` | a WebSocket connection, client or server: handshake, fragments, close, the same loop; and the sets of connections its runs look at |
| `WsConnProofs` | theorems about it |
| `Server` | a listener of any transport, `OnlineCount` and the accepted connections |
| `ServerProofs` | theorems about it |
| `IdCenter`, `IdCenterProofs` | `next_connect_id` by any number of threads, and theorems |

### StreamConn

One action is one uninterrupted piece of the task: from the completion of a
future to the next `.await`. `pc` says where the task stands: `accept`
(`try_accept`), `open` (`on_open`), `select` (in the `select!`, with
`process()` waiting in the way `link` and `state` determine), `linger` (in the
sleep after the last write, `tcp/mod.rs:250`), `failed` (an error is on its way
to `on_close`), `done`. `LoopTop` is a turn of the loop: new sleeps
(`timer' = 0`) and a new look at `write.len() < out_buffer_max` (`armed`).
`WriteSome` and `DrainWrite` do not turn the loop: the sleep is new (each round
of the inner loop makes one) but `armed` stays. Everything that can end the
loop goes through `Leave` (`return Ok(())`) or `Fails` (`?`), and `end` records
why.

Abstractions, and why they keep what matters:

- *What is read is whole frames*, named by kind. A read moves any number of them
  at once, so it ends anywhere between frames and the rest stays in the buffer.
  That a frame may arrive in pieces is the business of `Codec`, whose
  `DeliveredExact` and `FailsForCause` are what this abstraction needs; here it
  would only add steps that restart the sleep.
- *What is written is bytes*. A frame of kind `m` has `FrameSize[m]` of them
  (`FrameOf`): the last is named for the frame, the others are `"Part"`. The write
  buffer and `wireOut` are sequences of bytes, a write takes any number of them,
  `recv` compares the number of bytes waiting with `out_buffer_max` as the code
  does, and `Encode` then appends a frame of any size. `Whole(s)` is the frames
  that end in `s`: what the other side can decode of it.
- *Time is ticks*; a sleep is over once `timer` has reached its bound, and no
  time passes while the task has something it can do at once. Read timeout,
  closing time and the order of arrivals are independent, so any race of a
  timer with a message is among the behaviours.
- *Callbacks* complete in the step that calls them, with success or an error;
  `on_ping` is the default one, which answers. Commands that an application
  sends from a callback come, as all others do, by `AppSend`.
- *Undecodable input* (bad opcode, bad length, bad UTF-8, a full read buffer) is
  the item `Bad`.
- *History variables* (`accepted`, `wireOut`, `peerSent`, `delivered`,
  `onClose`, `end`, `age`) record what happened for the properties and decide
  nothing.

KCP differs in two places (`conf.kcp`): no TLS handshake, and the loop is left
with the last write instead of after one more `closing_time`.

### TcpPair

`TcpPair` extends `StreamConn`, whose variables are the client's, and has an
instance `S` of it for the server, whose variables begin with `s`. What one end
has written is what the other's peer has sent: `wireOut` is the server's
`peerSent` and the other way round, so the environment of each end is replaced by
the other end and nothing of either is restated. `Transfer` puts the
frames that end in what was just written (`Whole`) into the other's `wireIn`, which
holds at most `Window` of them; beside those only the first bytes of one more are
on the way. A write beyond that does not happen, which is how a socket buffer that nobody empties stops the
other side. `ClientHangsUp` and `ServerHangsUp` are the drop of a connection that
left its loop: the other end then reads what is still in its socket and 0 bytes
after it, and its writes may fail (`SocketError`). The applications keep their
senders, as a handler of `run_handler` does. Both ends are told the same `is_raw`
(`PairInit`): a framed end and a raw one share no language. Frames may be refused as late as
`StreamConn` allows, callbacks may fail, and timers may expire at any moment.

### Codec

The sender's write buffer, the wire and the receiver's read buffer are stretches
of one stream of bytes, so the module has positions for them (`sent`, `got`,
`pos`) and no bytes. `frames` is what `encode_message` appended: a message, where
it begins and ends, and the length in its header, which is the size modulo 2^24
(`encode_u24` of a `usize` cut to `u32`). A `Write` or a `Read` moves to any later
position, so every cut is looked at. `Decode` is one call of `decode_message` with
what `process()` does with its answer: `NotYet` (None: the buffer is put back, its
size tested, the socket read), `Deliver`, or an error, which ends the connection.
Only when a length has wrapped does the receiver read payload as a header; `junk`
is what it then finds, any value of `Junk`, so that the model goes on behind the
error instead of stopping there. A close code goes through both conversions
(`ToU16`, `TwoBytes`, `FromU16`).

### Connect

`call` is one call of one constructor, with what it was given; `phase` how far it
has come. `Stored` is the settings it goes by, `GivenTimeout` the unit, `Secured`
whether it goes on with TLS. Time passes (`Tick`, a millisecond) only while a timer
runs; the network may answer at any moment or never. `NetConn::new` (`InLoop`) is
the constructor that returns unconnected: its connect is a future inside the
`select!`, and `Restart` is a turn of the loop that drops it and its timer.

### WsConn

The loop is that of `StreamConn`, without `linger` and `link`: a client is
connected before it becomes a `WsConn`, and a drained connection ends at once.
`state` is `WsState`; `ready` is `call_ready`, so `LoopTop` goes through `open`
once, in the first turn that finds the connection Open. What differs:

- *Handshake.* A client puts its request into the buffer (`BuildRequest`) and
  waits for the response; a server waits for the request, and `on_request`
  accepts, refuses or fails (`Request`). A refusal is answered and closed. The
  `WaitRet` arm of the server's `process()` and the non-101 arm of the loop
  (`ws/mod.rs:260`) cannot be reached and have no action.
- *Two clocks.* `timer` is the sleep in `process_io`, restarted by every write;
  `deadline` the one around it (`shake_timeout`, `closing_time`), restarted only
  with `process()`.
- *Fragments.* `vec` is a local of `process()`: `LoopTop` forgets it, and `torn`
  records that this happened. `DecodeFrames` is the inner loop up to the last
  frame of a message, one step because there is no `.await` in it. What
  `from_dataframes` accepts (`Whole`) is external; a message of two frames
  stands for one of many.
- *Closing.* Whatever `process_io` returns in Closing is ignored: drained,
  expired, a broken socket and a full read buffer all end in Closed and `Ok(())`
  (`CloseAnyway`).
- *Handler.* Its `peerSent` and `delivered` are the messages in the frames
  (`Messages`), so a fragment alone is nothing. A connection may end before
  `on_open` without a word; `Handler` allows that where there is a handshake.

Heads and frames are whole, in both directions, and `out_buffer_max` is counted in
frames here: no property of `WsConn` is about that limit, which only decides when a
command has to wait. A head in pieces would restart `timer` more often.

### Server

`TakeSocket` is `accept` and `now()`; `Admit` is `add()` and the hand-over to
`on_accept`; between them connections in other tasks may be dropped
(`DropConn`). `kind` distinguishes the transports where the code does: what the
bind functions keep of the settings (`Kept`), whether `on_open` is called, and
whether there is a limit at all. `DropListener` is the drop of the listener's
own `OnlineCount`, which was never added.

### IdCenter

`FetchAdd` and `Store` are the two atomic accesses of a round of the loop.
`Relaxed` accesses to one location are totally ordered, so interleaving them is
all a weak memory can do here.

## Runs

| Run | Question | Bounds |
|---|---|---|
| `stream_conn` | all properties of a TCP or KCP connection: framed over both, by `run_with_handler`; raw over TCP, by `run_handler`, with and without an `on_logic` | queue 2, buffer 2 bytes, Text frames 2 bytes and others 1, timers 2 ticks, 2 items from the peer, 2 commands |
| `closing_bounded` | is `closing_time` the longest time left for closing? No | queue 2, buffer 2, timers 2 ticks, 1 item, 3 commands; framed TCP |
| `tcp_pair` | what two ends of hcnet promise each other | queue 1, buffer 1, timers 1 tick, window 1, 2 commands at each end: Ping or Close at one, Text or Close at the other |
| `codec` | all properties of the codec, framed and raw | lengths modulo 7, 2 messages of 7 kinds and sizes, every cut; `onemsg_max_size` and `in_buffer_max` 5 and 5, 6 and 5, 6 and 6, raw 5 and 1 |
| `connect` | all properties of making a connection, every constructor | timeouts 0 and 2 ms, default 4, 3 "microseconds" to a millisecond, 2 commands |
| `timeout_kept` | does the connect in the loop keep to `connect_timeout`? No | as `connect`, `NetConn::new` of TCP |
| `ws_conn` | what comes in: handshake, fragments, contract, termination; client and server | queue 1, buffers 2 out and 1 in, timers 1 tick, 3 items from the peer (the head, two frames), 1 command |
| `ws_out` | what goes out: order, one Close, draining | as above, 2 items, 2 commands |
| `fragments_arrive` | does a legal fragmented message arrive? No | as `ws_conn` |
| `server` | all properties of listeners of the three transports | limits 1 and 2, default 3, ids of 3 values, 5 sockets |
| `asked_limit` | does a TCP listener keep the limit it was given? No | 〃 |
| `id_center` | all properties of `next_connect_id` | 3 threads, 2 ids, 8 calls |

Why the bounds are enough. Two commands are a Close and what stands before or
behind it, or two that race the timers, Closing, Closed and the last sleep. A
buffer of two bytes is full behind one Text, full behind two Pongs, and has room
for one byte, so that a Text then takes it over its limit; a Text is also what a
write can cut in two. Two items show order and a Close or an error behind a
message. In `stream_conn` the queue never refuses a command (in `tcp_pair` it has
room for one and does). More than two commands are left to the theorems, which
hold for any number of them, but for `Terminates`, whose run has two. Behind the head two frames make a fragmented
message, or two messages; one command suffices to drop `process()` between them.
A read buffer of one is full as soon as a frame waits in it. One tick separates
*before* from *after* a timeout; two let a timer be restarted half way. Five sockets go once round an id space of three and
past every limit used. In `tcp_pair` two
commands at each end are enough for both to close at once behind data, for an
answer to a Ping to fill the buffer that holds a Close back, and for two full
windows to stop both ends; `on_logic` may complete at any time and so also never.
In `codec` the header of 4 bytes and the modulus 7 leave room for a frame that
fits, one at `onemsg_max_size`, one above it, and one whose length wraps to a
legal or to a too short one; the second message shows what the first has done
to the boundaries. `in_buffer_max` is below `onemsg_max_size` in one of the
settings, so that a legal size can be above it: a Close, of 6 bytes, is too long
for the first settings, above `in_buffer_max` for the second, and legal for the
third. In `connect` a time of 2 has a
before, a within and an after, and its threefold is still above the default.
Eight calls take three threads four times through a range
of two ids, with all three past its end at once.

### Properties

`StreamConn`: `InboundExact` and `OutboundExact` are conservation laws: at every
moment what one side sent is what the other got plus what lies in the buffers
between, in order. `PongsMatch` says the same of answers. `DrainedAll`,
`Backpressure` (the room `recv` saw is still there when its command is encoded,
so that no command is put behind a full buffer), `RefinesHandler` (the `Handler` contract through every error
path) and `Terminates` are described in the module. `WsConn`: `InboundExact`
(only fragments can be lost), `DataExact`, `OpenAfterHandshake`,
`HandshakeFirst`, `CloseOnce`, `PongsMatch`, `DrainedAll`, `RefinesHandler`,
`Terminates`. (`DrainedAll` of `WsConn` is about the end `drained`. A connection in
Closing whose read buffer is full ends as `full`, its Close unwritten:
`CloseAnyway`. No property forbids that, as nothing in the code does.) `TcpPair`: `EndToEnd` (what
one application hears is a beginning of what the other said), `EofMeansNoClose`,
`OneCloser`, `EndsTogether` (even when both are caught in Closing behind full
windows, and though `on_logic` restarts every timer). `Codec`: `DeliveredExact`
(in any cut, the n-th decoded is the n-th encoded), `RawExact`, `FailsForCause`
(no legal message is ever refused), `LegalArrives`. `Connect`: `TimeoutExact`
(Timeout is never reported early, and where milliseconds are taken as such,
never late), `AsAsked`, `Ends`. `Server`: `CountExact`, `LimitKept`, `NoneTurnedAway` (no place
leaks), `IdsApart`. `IdCenter`: `NowBounded`, `IssuedBound`, `CallsReturn`.

### Fairness

`FairSpec` of `StreamConn` and `WsConn` is weak fairness of `Task` (a ready task is polled
again by the runtime; a connect attempt is bounded by its timeout) and of `Tick`
(time goes on). Nothing is assumed of peer, socket or application: they may stop
at any moment. `TryAccept` and `OnOpen` have no fairness: the code puts no bound
on a TLS handshake or a callback. `Terminates` is stated for handlers whose
`on_logic` does not complete: with one that does, every completion restarts the
timers, and a dead connection is kept for ever. `IdCenter` assumes that a thread
with a call under way runs on.

`FairPair` assumes that, of both ends, and of the network between two hosts that
stay up: bytes and the end of a stream arrive, a window that opens is written to,
writing to a connection whose other end is gone fails (`ClientMoves`,
`ServerMoves`), and a task that has left its loop drops its socket. A handshake, a
callback, an `on_logic` or an application that does nothing are not ruled out.
`FairSpec` of `Codec` lets the network and the receiver's task go on; that of
`Connect` only the clock and a timer that is due, and nothing of the network.

## What the code does not do as documented

- `closing_time` (`settings.rs:22`) is restarted by every partial write, command
  and `on_logic`; after the last write TCP sleeps through it once more
  (`ClosingBounded`).
- A WebSocket message in several frames is lost, and the connection with it, when
  a command or `on_logic` completes between two of them (`handler.rs:46`,
  `FragmentsArrive`).
- A TCP listener forgets its settings, `max_connections` (`settings.rs:7`) among
  them (`AskedLimit`); so does a KCP one, which has no limit at all.
- The connect inside a TCP connection's loop waits a thousand times its
  `connect_timeout` (`settings.rs:25`): it hands milliseconds to
  `connect_with_timeout` (`tcp/mod.rs:265`), which stores microseconds (`164`) where
  milliseconds are read (`TimeoutKept`). Callers of `connect_with_timeout` and of
  `connect_tls_with_timeout` (`174`) of TCP meet the same; KCP converts rightly.
  `TimeoutExact` says for all of these only that Timeout is not reported early.

These have a run each. What follows is in the models as the code has it, and
shows in how a property had to be stated, but has no run of its own:

- After Shutdown (`message.rs:88`: a no-write mode) commands are still encoded
  and written, behind the Close frame (`Recv` does not look at the state).
- A connection dropped without an error is not reported (`protocol.rs:23-27`),
  neither with `Abnormal` nor at all (`ReadEof` is a `Leave`). What holds is
  `EofMeansNoClose`: no Close was missed.
- Commands wait behind an empty buffer (`settings.rs:16`): `armed` is evaluated
  only when the loop turns, and a silent peer then costs the connection its
  life at `read_timeout` with the commands still queued. What holds is
  `Terminates`.
- A message of 2^24 bytes or more goes out with a length cut to 24 bits, and
  `onemsg_max_size` (`settings.rs:19`) is the receiver's business alone: the
  receiver then delivers a part of it, or takes payload for a frame. Hence
  `Wraps` in `DeliveredExact` and `Legal`.
- A message above `in_buffer_max` but within `onemsg_max_size` is delivered or
  ends the connection, depending on how the stream is cut (`tcp/mod.rs:211`);
  hence `Legal`.
- A WebSocket connect is under no timeout, a TLS handshake under none anywhere.
- The write buffer exceeds `out_buffer_max` (`settings.rs:16`: the largest capacity
  of written data): `recv` looks only at what is buffered already, and a message of
  any length is then appended (`tcp/mod.rs:333`, `349`; `kcp/mod.rs:277`, `293`); Pongs
  are appended without a look. What holds is `Backpressure`: commands exceed the
  limit by less than one of their frames.
- A connection of `NetConn::new` keeps id 0 and never uses TLS, though
  `settings.rs:37` says that a domain turns it on; hence the exception in
  `AsAsked`. Its attempt starts anew with every command, and `on_open` is called
  before there is a connection.

Seen and not modelled: the default `read_timeout` is 60000, its comment says
30000 (`settings.rs:31-33`, `57`).

## Proofs

All theorems hold for every value of the constants, under each module's one
assumption (`StreamAssumption` and, on it, `PairAssumption`, `CodecAssumption`,
`ConnectAssumption`, `WsAssumption`, `ServerAssumption`, `IdAssumption`): that
limits and times are natural numbers, and that a queue, a window and a read
buffer have room for one.

- `StreamConnProofs!TypeCorrect`, and on it `InboundCorrect` (`InboundExact`).
  It is inductive as it stands; the work is that a read or a write splits a
  sequence and concatenation is associative.
- `Refinement`: `Spec => RefinesHandler`. Each step is matched with a step of
  `Handler` or a stutter. It needs `InboundExact`: only because what was
  delivered is a prefix of what was sent is the next delivery one that
  `Handler` allows.
- `BackpressureCorrect`, for frames of any sizes. `Backpressure` alone is not
  inductive: a command is encoded on the strength of `armed`, a guard evaluated
  earlier. The missing part is `ArmedHasRoom`: while `armed` holds, the buffer is
  below its maximum, as within one turn it only shrinks. A frame's last byte then
  stands less than its own size beyond the limit (`WithinAdd`), and a write only
  moves it forward (`WithinLeft`).
- The data properties speak of `Whole` frames of byte sequences. `WholeEncode` (what
  `Encode` appends is one whole frame), `WholeAdd` and `WholeTake` (a write may cut a
  frame; the two parts together have the same frames) reduce them to frames.
- `DrainedCorrect`, by `CloseInv`: in Closing the Close frame is on the wire or
  in the buffer; Closed with a drained end follows only from an empty buffer;
  and an end is recorded only once the loop is left.
- `TcpPairProofs`: the lemmas about one end taken twice, for the client as they
  stand and for the server as instance `SP`. A step of the pair is one end's own
  (`OwnStep`), which is the other's `OtherStep` (frames arrive) or `HungUpStep` (the
  stream ends). `PInv` adds to both ends' invariants that the end of a stream comes
  only from an end that is done, and so has written its last frame. `EndInv`
  relates Closes to the state of an end: who has one to send has left Open, who
  is told of one was in Open. `EofCorrect` follows from the first,
  `OneCloserCorrect` from the second.
- `CodecProofs`: `TypeCorrect`; `DeliveredCorrect` and `FailsCorrect` by one
  invariant: as long as no length has wrapped, `pos` is the end of the n-th frame
  when n messages are delivered, so that the next header read is that of the next
  frame; and `RawCorrect`.
- `ConnectProofs`: `TypeCorrect`, `TimeoutCorrect` (which needs that the stored
  timeout is at least the asked one, and the same where milliseconds are taken as such), `AsAskedCorrect`.
- `WsConnProofs!TypeCorrect`, and on it `InboundCorrect`. `InboundExact` alone is
  not inductive: handling the peer's head restarts the loop, which empties `vec`,
  and sets `consumed` to the head. `ShakeClean` says that nothing is decoded or
  buffered in the handshake, so that neither loses anything.
- `OpenWaits` (`OpenAfterHandshake`) and `DrainCorrect`
  (`DrainedAll`), by `OutInv`, which relates the state to what was sent or will
  be: in WaitRet the request is; once Open both heads are; a connection that was
  ready and is Closing has its Close there, and so has one that refused its
  peer; drained follows only from an empty buffer.
- `PongsCorrect` (`PongsMatch`, of `StreamConn` and of `WsConn`), `HandshakeCorrect`
  (`HandshakeFirst`) and `CloseCorrect` (`CloseOnce`). An element stands in a
  concatenation as often as in its two parts (`SeqLemmas!PlacesConcat`, a
  bijection between sets of places), so that it is enough to count what one step
  adds: `AnswerStep` for TCP and KCP, `Says` for WebSocket. A step that the loop
  survives adds as many Pongs as it hands over Pings; a head is added only on the
  way out of Wait, a Close only on the way to Closing, and neither state is
  entered again. A queue that is empty before `on_open`, unless a command was
  `early`, keeps commands from going out before the head.
- `IdCenterProofs`: `BoundCorrect` (the set of threads at the store grows and
  shrinks with the excess of `NOW`) and `IssuedCorrect`.
- `ServerProofs`: `CountCorrect`, with `NoFresh` (the socket about to become a
  connection is none yet); `NoneTurnedAwayCorrect` from it; `LimitCorrect`, with
  `RoomSeen` (the room `TakeSocket` saw is still there for `Admit`);
  `IdsCorrect`, with `IdRecent` (which id each of the last `W` sockets drew); and
  `ConnIdInjective` about composite ids.

**What is said, and what is heard.** The properties about data relate whole
sequences: `Spoken`, `Told`, `Data` and `Messages` replace each element of a
sequence by a sequence (`Expand`). `SeqLemmas!ExpandConcat` says what that makes of a
concatenation; it and its companions are proved by induction over lengths, which
`SetInduction` gives from the cardinality of finite sets, since the library's
induction theorems take an operator that these provers cannot instantiate. After
that no proof about a connection needs induction: a step adds to a sequence or
moves a part of it.

- `OutboundCorrect` (`OutboundExact`): by `SayInv`, which adds that the commands
  taken and those in the channel are the commands accepted. `SayStep` reduces a step
  to one of three: a command taken and its frame encoded, one accepted, or only
  what is no command's said or moved.
- `WsConnProofs!DataCorrect` (`DataExact`), by `DataInv`, in the same way
  (`TellStep`): heads, refusals and Pongs carry no data, and a Close and an Unvaid
  none either.
- `WsConnProofs!Refinement`, for which `InboundExact` is too weak: it says nothing
  once fragments were lost. `MessagesInv` holds then too: the *messages* in
  everything handled, held and still in the socket are those the peer sent, because
  while the loop runs `vec` holds parts without an end. A `Last` whose part is lost
  is no message but an error, so the next message in order is never passed over.
  `ReadyInv` (a connection that is Open and in the `select!` is `ready`) places
  `on_open`, and `ShakeClean` the handshake. `InboundMoves` is the one case analysis
  behind both: a step leaves everything the peer sent where it was in order, adds
  to it, or loses `vec`.
- `PromiseKept` and `FinalKept`, of both connections: what `Handler` means for an
  application. `Promise` puts its comment into a formula (a prefix, nothing before
  `on_open`, one `on_close` at most and where it may stand), `Final` says that an
  end is one. `PromiseStep` shows that `Handler`'s steps keep the promise; that the
  connection's steps are `Handler`'s is `StepImplements`.
- `TcpPairProofs!EndToEndCorrect` (`EndToEnd`): `OutboundExact` of one end and
  `InboundExact` of the other meet on the wire; `FlowInv` adds that a Close is the
  last thing heard on a framed connection and that a raw one has none to say, which
  joins the two only because both ends are told the same `is_raw`.

Only model-checked: `Terminates`, `CallsReturn`, `EndsTogether`, `LegalArrives` and
`Ends`. They are liveness properties under fairness, which the provers do not reach.
Every invariant and every refinement that a passing run checks is a theorem.

## Not modelled

Reading certificates and the poll functions of the stream wrappers (pure I/O),
error conversions and re-exports, names for printing, and what other crates do:
tokio, tokio_kcp, rustls, webparse. Two WebSocket ends are not composed: each is
checked against any peer, and what a pair would add is between two instances of
webparse. The examples are not part of the library.

## Plan

1. *Done*: `Handler`, `StreamConn`, `Server`, `IdCenter`, with their proofs.
2. *Done*: `WsConn`, with proofs of its type, of every safety invariant and of
   its refinement of `Handler`.
3. *Done*: `Codec`, `TcpPair` and `Connect`, with their proofs.
4. Left: bounds on how often `closing_time` can restart; a pair of KCP ends,
   whose stream has no end of its own and ends by `session_expire`.

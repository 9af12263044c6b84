------------------------------- MODULE Server -------------------------------
(***************************************************************************)
(* A listening connection and the count of the connections it accepted:    *)
(* the Listener arms of process() in tcp/mod.rs, ws/mod.rs and kcp/mod.rs, *)
(* their loops, WrapListener (listener.rs, kcp/listener.rs), OnlineCount   *)
(* (online_count.rs) and the hand-over of settings in conn.rs.             *)
(*                                                                         *)
(* The listener's task looks at the count and adds to it in two steps;     *)
(* the accepted connections run, and are dropped, in tasks of their own.   *)
(***************************************************************************)
EXTENDS Integers, FiniteSets

CONSTANTS
  Kinds,        \* the transports listened on, among "tcp", "ws" and "kcp"
  Limits,       \* the max_connections an application may ask for
  DefaultMax,   \* max_connections of Settings::default()
  W,            \* values of a u32: 2^32 in the code
  ServerId,     \* the listener's id, from IdCenter
  MaxSockets    \* bound: sockets taken from the listener

ASSUME ServerAssumption ==
  /\ Kinds \subseteq {"tcp", "ws", "kcp"}
  /\ Limits \subseteq Nat
  /\ DefaultMax \in Nat
  /\ W \in Nat \ {0}
  /\ ServerId \in Nat \ {0}
  /\ MaxSockets \in Nat

VARIABLES
  kind,    \* the transport
  pc,      \* where the listener's task stands
  asked,   \* history: the max_connections the application gave last
  max,     \* max_connections of the listener's settings
  next,    \* next_connection_id
  count,   \* the shared count of OnlineCount; unused by kcp
  taken,   \* history: sockets taken from the listener
  conns    \* accepted connections not yet dropped, by the number of their
           \* socket and their connection id

vars == <<kind, pc, asked, max, next, count, taken, conns>>

TypeOK ==
  /\ kind \in Kinds
  /\ pc \in {"bound", "loop", "admit", "on_accept", "failed", "done", "dropped"}
  /\ asked \in Limits
  /\ max \in Limits \cup {DefaultMax}
  /\ next \in 0 .. W - 1
  /\ count \in Nat
  /\ taken \in 0 .. MaxSockets
  /\ IsFiniteSet(conns)
  /\ conns \subseteq [no : 0 .. MaxSockets, id : Nat]

\* What bind_with_listener keeps of the settings it is given: WsConn::new
\* keeps them, StreamConn and KcpConn are left with the default ones.
Kept(k, limit) == IF k = "ws" THEN limit ELSE DefaultMax

Init ==
  /\ kind \in Kinds
  /\ pc = "bound"
  /\ asked \in Limits
  /\ max = Kept(kind, asked)
  /\ next = 0
  /\ count = 0
  /\ taken = 0
  /\ conns = {}

-----------------------------------------------------------------------------
(* Before the loop.                                                        *)

\* NetConn::set_settings on the listening connection.
SetSettings ==
  /\ pc = "bound"
  /\ \E m \in Limits : asked' = m /\ max' = m
  /\ UNCHANGED <<kind, pc, next, count, taken, conns>>

\* The handler's on_open, which may fail. A WebSocket listener is never
\* ready and its on_open never called.
Run ==
  /\ pc = "bound"
  /\ \/ pc' = "loop"
     \/ kind # "ws" /\ pc' = "failed"
  /\ UNCHANGED <<kind, asked, max, next, count, taken, conns>>

-----------------------------------------------------------------------------
(* Accepting.                                                              *)

\* Mutant: one too many.
FullAbove(c) == kind # "kcp" /\ c > max

\* now >= max_connections. kcp has no limit.
Full(c) == kind # "kcp" /\ c >= max

\* Mutant: an addition that does not wrap.
IncrPlain(n) == n + 1

\* Mutant: wraps one early.
IncrEarly(n) == IF n + 2 >= W THEN 0 ELSE n + 1

\* wrapping_add(1).
Incr(n) == IF n = W - 1 THEN 0 ELSE n + 1

\* A socket is accepted and the count read: it goes on or is dropped.
TakeSocket ==
  /\ pc = "loop"
  /\ taken < MaxSockets
  /\ taken' = taken + 1
  /\ next' = Incr(next)
  /\ IF Full(count) THEN UNCHANGED pc ELSE pc' = "admit"
  /\ UNCHANGED <<kind, asked, max, count, conns>>

\* server_id << 32, plus the connection's own number.
ConnId(s, n) == s * W + n

\* The connection is made, count.add() with it, and given to on_accept.
Admit ==
  /\ pc = "admit"
  /\ pc' = "on_accept"
  /\ conns' = conns \cup {[no |-> taken, id |-> ConnId(ServerId, next)]}
  /\ count' = IF kind = "kcp" THEN count ELSE count + 1
  /\ UNCHANGED <<kind, asked, max, next, taken>>

\* on_accept returns; its error ends the listener.
OnAccept ==
  /\ pc = "on_accept"
  /\ pc' \in {"loop", "failed"}
  /\ UNCHANGED <<kind, asked, max, next, count, taken, conns>>

\* listener.accept() or on_logic fails.
LoopFails ==
  /\ pc = "loop"
  /\ pc' = "failed"
  /\ UNCHANGED <<kind, asked, max, next, count, taken, conns>>

\* Any command, and the end of the command channel, ends the listener.
Recv ==
  /\ pc = "loop"
  /\ pc' = "done"
  /\ UNCHANGED <<kind, asked, max, next, count, taken, conns>>

\* on_close with CloseCode::Error.
ReportError ==
  /\ pc = "failed"
  /\ pc' = "done"
  /\ UNCHANGED <<kind, asked, max, next, count, taken, conns>>

-----------------------------------------------------------------------------
(* Drop for OnlineCount: checked_sub(1), or 0.                             *)

\* Mutant: the count is left alone.
DropNothing(c) == c

Dropped(c) == IF kind = "kcp" \/ c = 0 THEN c ELSE c - 1

\* The task is over and the listener is dropped with it. It never added
\* itself to the count it now subtracts itself from.
DropListener ==
  /\ pc = "done"
  /\ pc' = "dropped"
  /\ count' = Dropped(count)
  /\ UNCHANGED <<kind, asked, max, next, taken, conns>>

\* An accepted connection is dropped, by on_accept or by its own task.
DropConn ==
  /\ \E c \in conns : conns' = conns \ {c}
  /\ count' = Dropped(count)
  /\ UNCHANGED <<kind, pc, asked, max, next, taken>>

Finished == pc = "dropped" /\ conns = {} /\ UNCHANGED vars

Next ==
  \/ SetSettings \/ Run
  \/ TakeSocket \/ Admit \/ OnAccept
  \/ LoopFails \/ Recv \/ ReportError
  \/ DropListener \/ DropConn
  \/ Finished

Spec == Init /\ [][Next]_vars

-----------------------------------------------------------------------------
(* Properties.                                                             *)

\* The count is that of the connections alive, at every moment, however
\* their tasks interleave with the listener's. Once the listener is dropped
\* it is one too low, but never below zero.
CountExact ==
  kind # "kcp" =>
    count = IF pc = "dropped" /\ conns # {}
            THEN Cardinality(conns) - 1 ELSE Cardinality(conns)

\* The limit of the listener's settings holds, though now() and add() are
\* two steps and connections are dropped in between.
LimitKept == kind # "kcp" => Cardinality(conns) <= max

\* And no socket is turned away while there is room for it.
NoneTurnedAway ==
  [][(taken' # taken /\ pc' = "loop") =>
       (kind # "kcp" /\ Cardinality(conns) >= max)]_vars

\* Two connections share an id only when W sockets, turned away ones
\* included, lie between them.
IdsApart ==
  \A c, d \in conns :
    (c.id = d.id /\ c.no # d.no) => c.no - d.no >= W \/ d.no - c.no >= W

\* settings.rs:7: max_connections is the largest number of connections
\* listened for. The limit the application gave holds.
AskedLimit == Cardinality(conns) <= asked
=============================================================================

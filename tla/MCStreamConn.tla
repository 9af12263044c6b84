---------------------------- MODULE MCStreamConn ----------------------------
(* The configurations of a connection that the runs of StreamConn look at. *)
EXTENDS StreamConn

\* Framed TCP connections of run_with_handler: the channel can close.
FramedConfs == {[avoid |-> FALSE, logic |-> FALSE, raw |-> FALSE, kcp |-> FALSE]}

\* The same over TCP and over KCP, and raw connections of run_handler, with
\* and without an on_logic.
MixedConfs ==
  [avoid : {FALSE}, logic : {FALSE}, raw : {FALSE}, kcp : BOOLEAN]
    \cup [avoid : {TRUE}, logic : BOOLEAN, raw : {TRUE}, kcp : {FALSE}]

\* A text is longer than the other frames.
TextIsLong == [f \in Frames |-> IF f = "Text" THEN 2 ELSE 1]
=============================================================================

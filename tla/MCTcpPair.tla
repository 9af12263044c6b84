------------------------------ MODULE MCTcpPair ------------------------------
(* The connections of a pair: framed, over TCP.                            *)
EXTENDS TcpPair

\* With an on_logic that may complete at any time, and so also never: what a
\* handler without one sees is among it.
PairConfs == {[avoid |-> TRUE, logic |-> TRUE, raw |-> FALSE, kcp |-> FALSE]}

\* A text is longer than the other frames.
TextIsLong == [f \in Frames |-> IF f = "Text" THEN 2 ELSE 1]
=============================================================================

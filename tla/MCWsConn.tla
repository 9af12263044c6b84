------------------------------ MODULE MCWsConn ------------------------------
(* The configurations of a connection that the runs of WsConn look at.     *)
EXTENDS WsConn

Plain == [client : BOOLEAN, avoid : {FALSE}, logic : {FALSE}]

\* A client and a server of run_with_handler, and a server of run_handler
\* with an on_logic.
MixedConfs == Plain \cup {[client |-> FALSE, avoid |-> TRUE, logic |-> TRUE]}
=============================================================================

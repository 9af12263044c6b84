------------------------------ MODULE MCConnect ------------------------------
(* The calls the runs of Connect look at.                                  *)
EXTENDS Connect

\* Every constructor, with a timeout of 0 or of 2 milliseconds.
AllCalls ==
  {c \in [net : DOMAIN Offered, how : UNION {Offered[n] : n \in DOMAIN Offered},
          ask : [timeout : {0, 2}, domain : BOOLEAN, rest : {"own"}],
          wss : BOOLEAN, logic : BOOLEAN] :
     /\ c.how \in Offered[c.net]
     /\ c.wss => c.net = "Ws"
     /\ c.logic => c.how = "new"}

\* TCP connections that are connected in their own loop.
LoopCalls == {c \in AllCalls : c.net = "Tcp" /\ c.how = "new"}
=============================================================================

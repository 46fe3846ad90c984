------------------------------ MODULE MCTcpEcn ------------------------------
(* Two hosts and their data.                                               *)
EXTENDS TcpEcn

CONSTANTS a, b

MCData == [h \in Hosts |-> IF h = a THEN 4 ELSE 1]
=============================================================================

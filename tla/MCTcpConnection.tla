-------------------------- MODULE MCTcpConnection --------------------------
(* Two hosts and their data.                                               *)
EXTENDS TcpConnection

CONSTANTS a, b

OneWay == [h \in Hosts |-> IF h = a THEN 1 ELSE 0]
TwoSegments == [h \in Hosts |-> IF h = a THEN 2 ELSE 0]
BothWays == [h \in Hosts |-> 1]
NoData == [h \in Hosts |-> 0]
=============================================================================

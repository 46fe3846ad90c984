----------------------------- MODULE MCTcpVegas -----------------------------
(* Small windows and RTTs for the Vegas+ sender.                           *)
EXTENDS TcpVegas

SomeRtts == {1, 3}
SomeSeqs == {0, 1}
SomeWindows == {1, 6}
=============================================================================

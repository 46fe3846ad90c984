----------------------------- MODULE ByteStream -----------------------------
(***************************************************************************)
(* What a TcpSocketBase connection promises its applications, in one       *)
(* direction: what was written is delivered in order, and is forgotten by  *)
(* the sender only after it was delivered; and all of it is, in the end.   *)
(***************************************************************************)
EXTENDS Naturals

VARIABLES
  written,    \* bytes the application handed to Send
  delivered,  \* bytes in order at the receiver
  acked       \* bytes the sender has dropped from its buffer

vars == <<written, delivered, acked>>

\* The application may write before there is a connection.
Init == written \in Nat /\ delivered = 0 /\ acked = 0

Write ==
  /\ written' \in Nat /\ written' > written
  /\ UNCHANGED <<delivered, acked>>

Deliver ==
  /\ delivered' \in delivered + 1 .. written
  /\ UNCHANGED <<written, acked>>

Acknowledge ==
  /\ acked' \in acked + 1 .. delivered
  /\ UNCHANGED <<written, delivered>>

Next == Write \/ Deliver \/ Acknowledge

Spec == Init /\ [][Next]_vars

\* Whatever was written by then is delivered and acknowledged, again and again.
LiveSpec == Spec /\ []<>(acked = written)
=============================================================================

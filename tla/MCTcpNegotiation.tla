-------------------------- MODULE MCTcpNegotiation --------------------------
(* The attributes of the sockets: every option or none (or SACK alone in   *)
(* the listener), and a buffer that needs no scaling or one that does and  *)
(* that the shift does not divide.                                         *)
EXTENDS TcpNegotiation

CONSTANTS c1, c2

Some(ecns, optss, bufs) ==
  {[ecn |-> e, opts |-> o, buf |-> b] : e \in ecns, o \in optss, b \in bufs}

MCClients == Some({"Off", "On"}, {{}, Options}, {1, 3})
MCServers == Some(UseEcn, {{"sack"}, Options}, {3})
=============================================================================

--------------------------- MODULE TcpNegotiation ---------------------------
(***************************************************************************)
(* What a handshake of TcpSocketBase agrees on: ECN, window scaling, SACK  *)
(* and timestamps, between clients that connect and the sockets that one   *)
(* listener forks for them.  The listener reads the options of a SYN into  *)
(* its own fields before the fork copies them.  Segments are reordered,    *)
(* lost (never received) and repeated by the retransmission of SYN and     *)
(* SYN+ACK.  The handshake itself, its sequence numbers and its errors are *)
(* in TcpConnection; here each segment is an acceptable one.               *)
(***************************************************************************)
EXTENDS Naturals, FiniteSets, Bags

CONSTANTS
  Clients,       \* the sockets that call Connect
  ClientConfigs, \* [ecn, opts, buf]: their attributes
  ServerConfigs, \* those of the listener
  MaxWin,        \* m_maxWinSize
  SynRetries     \* m_synRetries

UseEcn == {"Off", "On", "AcceptOnly"}
Options == {"wscale", "sack", "ts"}
Configs == [ecn : UseEcn, opts : SUBSET Options, buf : Nat]

Server == "server"

ASSUME NegotiationAssumption ==
  /\ Server \notin Clients
  /\ ClientConfigs \subseteq Configs /\ ServerConfigs \subseteq Configs
  /\ MaxWin \in Nat \ {0} /\ SynRetries \in Nat \ {0}

VARIABLES
  config,    \* the attributes each side was created with
  client,    \* the socket of each client
  listener,  \* the listening socket
  fork,      \* the socket forked for each client, one at most
  net        \* the segments in flight, a bag

vars == <<config, client, listener, fork, net>>

Shifts == 0..14
Flags == {"SYN", "ACK", "ECE", "CWR"}
States == {"NONE", "CLOSED", "LISTEN", "SYN_SENT", "SYN_RCVD", "ESTABLISHED"}

Socket(c, state) == [
  state |-> state, useEcn |-> c.ecn, ecnState |-> "ECN_DISABLED",
  opts |-> c.opts,                      \* m_winScalingEnabled, m_sackEnabled,
  buf |-> c.buf,                        \* m_timestampEnabled
  rcvWindShift |-> 0, sndWindShift |-> 0, rWnd |-> 0,
  synCount |-> SynRetries, retx |-> {},
  out |-> {}]                           \* the segment the handler sends

Init ==
  /\ config \in [Clients \cup {Server} -> ClientConfigs \cup ServerConfigs]
  /\ config[Server] \in ServerConfigs
  /\ \A c \in Clients : config[c] \in ClientConfigs
  /\ client = [c \in Clients |-> Socket(config[c], "CLOSED")]
  /\ listener = Socket(config[Server], "LISTEN")
  /\ fork = [c \in Clients |-> Socket(config[Server], "NONE")]
  /\ net = EmptyBag

-----------------------------------------------------------------------------
(* Windows and options.                                                    *)

\* The least shift that makes the buffer fit the window field.
CalculateWScale(buf) ==
  LET fits == {k \in Shifts : buf \div 2^k <= MaxWin}
  IN IF fits = {} THEN 14 ELSE CHOOSE k \in fits : \A j \in fits : k <= j

\* Mutant: the window is not shifted.
AdvertisedWindowSizeUnshifted(s, scale) ==
  IF s.buf > MaxWin THEN MaxWin ELSE s.buf

AdvertisedWindowSize(s, scale) ==
  LET w == IF scale THEN s.buf \div 2^s.rcvWindShift ELSE s.buf
  IN IF w > MaxWin THEN MaxWin ELSE w

\* Mutant: one retry more than counted.
NoRetryLeftLate(s) == s.synCount + 1 = 0

NoRetryLeft(s) == s.synCount = 0

SendEmptyPacket(s, flags) ==
  LET syn == "SYN" \in flags
      t == IF syn /\ "wscale" \in s.opts
           THEN [s EXCEPT !.rcvWindShift = CalculateWScale(s.buf)] ELSE s
      m == [flags |-> flags,
            opts |-> IF syn THEN t.opts ELSE t.opts \cap {"ts"},
            scale |-> t.rcvWindShift, win |-> AdvertisedWindowSize(t, ~syn)]
  IN IF ~syn THEN [t EXCEPT !.out = {m}]
     ELSE IF NoRetryLeft(t) THEN [t EXCEPT !.state = "CLOSED", !.retx = {}]
     ELSE [t EXCEPT !.synCount = @ - 1, !.out = {m},
                    !.retx = IF @ = {} THEN flags ELSE @]

\* Mutant: an option the other end did not send stays enabled.
ReceiveSynKeepsOptions(s, m) ==
  [s EXCEPT !.rWnd = m.win,
            !.sndWindShift = IF "wscale" \in m.opts THEN m.scale ELSE @]

\* DoForwardUp of a SYN or SYN+ACK, in whatever state the socket is.
ReceiveSyn(s, m) ==
  LET agreed == s.opts \cap m.opts
  IN [s EXCEPT !.rWnd = m.win, !.opts = agreed,
               !.sndWindShift = IF "wscale" \in agreed THEN m.scale ELSE @]

\* DoForwardUp in ESTABLISHED: CWR ends the echo, whatever ends it was for.
ReceiveCwr(s, m) ==
  IF s.state = "ESTABLISHED" /\ "CWR" \in m.flags
  THEN [s EXCEPT !.ecnState = "ECN_IDLE"] ELSE s

UpdateWindowSize(s, m) == [s EXCEPT !.rWnd = m.win * 2^s.sndWindShift]

EcnSyn(s, m) == s.useEcn # "Off" /\ {"ECE", "CWR"} \subseteq m.flags

\* Mutant: the answer says nothing of ECN.
SendSynAckNoEce(s, m) ==
  [SendEmptyPacket(s, {"SYN", "ACK"}) EXCEPT
     !.ecnState = IF EcnSyn(s, m) THEN "ECN_IDLE" ELSE "ECN_DISABLED"]

SendSynAck(s, m) ==
  LET ecn == EcnSyn(s, m)
  IN [SendEmptyPacket(s, {"SYN", "ACK"} \cup (IF ecn THEN {"ECE"} ELSE {}))
        EXCEPT !.ecnState = IF ecn THEN "ECN_IDLE" ELSE "ECN_DISABLED"]

-----------------------------------------------------------------------------
(* The handlers.                                                           *)

Sent(c, to, s) ==
  SetToBag({[client |-> c, to |-> to, flags |-> m.flags, opts |-> m.opts,
             scale |-> m.scale, win |-> m.win] : m \in s.out})
Quiet(s) == [s EXCEPT !.out = {}]

ClientSteps(c, s, received) ==
  /\ client' = [client EXCEPT ![c] = Quiet(s)]
  /\ net' = (net (-) received) (+) Sent(c, Server, s)
  /\ UNCHANGED <<config, listener, fork>>

ForkSteps(c, s, received) ==
  /\ fork' = [fork EXCEPT ![c] = Quiet(s)]
  /\ net' = (net (-) received) (+) Sent(c, c, s)
  /\ UNCHANGED <<config, client>>

Connect(c) ==
  LET s == client[c]
      flags == IF s.useEcn = "On" THEN {"SYN", "ECE", "CWR"} ELSE {"SYN"}
  IN /\ s.state = "CLOSED" /\ s.synCount = SynRetries
     /\ ClientSteps(c, [SendEmptyPacket(s, flags) EXCEPT
                          !.state = "SYN_SENT", !.ecnState = "ECN_DISABLED"],
                    EmptyBag)

\* m_retxEvent: SendEmptyPacket again with the same flags.
RetransmitSyn(c) ==
  /\ client[c].retx # {}
  /\ ClientSteps(c, SendEmptyPacket([client[c] EXCEPT !.retx = {}],
                                    client[c].retx), EmptyBag)

RetransmitSynAck(c) ==
  /\ fork[c].retx # {}
  /\ ForkSteps(c, SendEmptyPacket([fork[c] EXCEPT !.retx = {}],
                                  fork[c].retx), EmptyBag)
  /\ UNCHANGED listener

\* A SYN for which there is no socket yet: the listener reads it, Fork copies
\* the listener and CompleteFork answers.
ProcessListen(c, m) ==
  LET l == ReceiveSyn(listener, m)
  IN /\ m.to = Server /\ "SYN" \in m.flags /\ fork[c].state = "NONE"
     /\ listener' = l
     /\ ForkSteps(c, SendSynAck([l EXCEPT !.state = "SYN_RCVD"], m),
                  SetToBag({m}))

\* A repeated SYN: answered again in SYN_RCVD, read in every state.
ReceiveSynAgain(c, m) ==
  LET s == ReceiveSyn(ReceiveCwr(fork[c], m), m)
  IN /\ m.to = Server /\ "SYN" \in m.flags
     /\ fork[c].state \in {"SYN_RCVD", "ESTABLISHED"}
     /\ ForkSteps(c, IF s.state = "SYN_RCVD" THEN SendSynAck(s, m) ELSE s,
                  SetToBag({m}))
     /\ UNCHANGED listener

\* The SYN+ACK, in SYN_SENT or repeated in ESTABLISHED.
ProcessSynSent(c, m) ==
  LET s == ReceiveSyn(client[c], m)
      t == SendEmptyPacket([s EXCEPT !.state = "ESTABLISHED", !.retx = {}],
                           {"ACK"})
      ecn == s.useEcn # "Off" /\ m.flags \cap {"ECE", "CWR"} = {"ECE"}
  IN /\ m.to = c /\ client[c].state \in {"SYN_SENT", "ESTABLISHED"}
     /\ ClientSteps(c,
          IF s.state = "ESTABLISHED" THEN s
          ELSE [t EXCEPT !.ecnState =
                  IF ecn THEN "ECN_IDLE" ELSE "ECN_DISABLED"],
          SetToBag({m}))

\* The ACK of the handshake; without a timestamp it is discarded by a socket
\* that expects one.
ProcessSynRcvd(c, m) ==
  /\ m.to = Server /\ m.flags = {"ACK"} /\ fork[c].state = "SYN_RCVD"
  /\ ForkSteps(c,
       IF "ts" \in fork[c].opts /\ "ts" \notin m.opts THEN fork[c]
       ELSE [UpdateWindowSize(fork[c], m) EXCEPT !.state = "ESTABLISHED",
                                                 !.retx = {}],
       SetToBag({m}))
  /\ UNCHANGED listener

Receive(c) ==
  \E m \in BagToSet(net) :
    /\ m.client = c
    /\ \/ ProcessListen(c, m) \/ ReceiveSynAgain(c, m)
       \/ ProcessSynSent(c, m) \/ ProcessSynRcvd(c, m)

Next ==
  \E c \in Clients :
    \/ Connect(c) \/ RetransmitSyn(c) \/ RetransmitSynAck(c) \/ Receive(c)

Spec == Init /\ [][Next]_vars

-----------------------------------------------------------------------------
(* Properties.                                                             *)

\* The fields hold what the code's types and enumerations allow.
SocketOK(s) ==
  /\ s.state \in States /\ s.ecnState \in {"ECN_DISABLED", "ECN_IDLE"}
  /\ s.opts \subseteq Options /\ s.retx \subseteq Flags /\ s.out = {}
  /\ s.rcvWindShift \in Shifts /\ s.sndWindShift \in Shifts
  /\ s.rWnd \in Nat /\ s.synCount \in 0..SynRetries

TypeOK ==
  /\ \A c \in Clients : SocketOK(client[c]) /\ SocketOK(fork[c])
  /\ SocketOK(listener) /\ IsABag(net)

\* A client that got through the handshake and its forked socket have the same
\* options enabled, and each shifts the windows it reads by what the other
\* shifts those it sends (ProcessOptionWScale, AddOptionWScale).
OptionsAgree ==
  \A c \in Clients : client[c].state = "ESTABLISHED" =>
    /\ client[c].opts = fork[c].opts
    /\ "wscale" \in client[c].opts =>
         /\ client[c].sndWindShift = fork[c].rcvWindShift
         /\ fork[c].sndWindShift = client[c].rcvWindShift

\* A client that uses ECN asked for it and has a peer that uses it, and until
\* the handshake is over both ends mean the same by it (DoConnect,
\* CompleteFork, ProcessSynSent).
EcnIsMutual ==
  \A c \in Clients : client[c].state = "ESTABLISHED" =>
    /\ client[c].ecnState = "ECN_IDLE" =>
         config[c].ecn = "On" /\ fork[c].ecnState = "ECN_IDLE"
    /\ fork[c].state = "SYN_RCVD" => client[c].ecnState = fork[c].ecnState

\* Where scaling is agreed, and for every client, no socket takes the window of
\* the other end for larger than the buffer behind it (AdvertisedWindowSize,
\* UpdateWindowSize): it would send what is dropped on arrival.
WindowNotOverstated ==
  \A c \in Clients :
    /\ client[c].rWnd <= config[Server].buf
    /\ "wscale" \in fork[c].opts => fork[c].rWnd <= config[c].buf

\* Not so (FindingsNegotiation): the same where scaling was refused.  The
\* shift of an earlier client stays in the listener and is copied by Fork.
ForkWindowNotOverstated ==
  \A c \in Clients : fork[c].rWnd <= config[c].buf

\* Not so (FindingsNegotiation): the options of a connection depend on its
\* two ends alone.  A client without an option turns it off in the listener.
OptionsOfBothEnds ==
  \A c \in Clients : client[c].state = "ESTABLISHED" =>
    client[c].opts = config[c].opts \cap config[Server].opts

\* Not so (FindingsNegotiation): ECN is on at both ends or at none.
EcnAgreed ==
  \A c \in Clients : client[c].state = "ESTABLISHED" =>
    client[c].ecnState = fork[c].ecnState

\* Not so (FindingsNegotiation): a repeated SYN is ignored in ESTABLISHED.
DuplicateSynIgnored ==
  [][\A c \in Clients :
       fork[c].state = "ESTABLISHED" => fork'[c] = fork[c]]_vars
=============================================================================

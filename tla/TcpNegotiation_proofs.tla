----------------------- MODULE TcpNegotiation_proofs -----------------------
(***************************************************************************)
(* The handshake for any number of clients, any attributes and buffers and *)
(* any number of retries: what both ends agree on.                         *)
(***************************************************************************)
EXTENDS TcpNegotiation, FiniteSetTheorems, TLAPS

-----------------------------------------------------------------------------
(* The inductive invariant.  Below, a is the configuration of a client and *)
(* b that of the listener.                                                 *)

Segments == [flags : SUBSET Flags, opts : SUBSET Options, scale : Shifts,
             win : Nat]

Sockets == [
  state : States, useEcn : UseEcn, ecnState : {"ECN_DISABLED", "ECN_IDLE"},
  opts : SUBSET Options, buf : Nat, rcvWindShift : Shifts,
  sndWindShift : Shifts, rWnd : Nat, synCount : 0..SynRetries,
  retx : SUBSET Flags, out : SUBSET Segments]

\* What the attributes settle for every SYN of a client and for every answer.
ShiftOf(a) == IF "wscale" \in a.opts THEN CalculateWScale(a.buf) ELSE 0
SynFlags(a) == IF a.ecn = "On" THEN {"SYN", "ECE", "CWR"} ELSE {"SYN"}
BothUseEcn(a, b) == b.ecn # "Off" /\ a.ecn = "On"
SynAckFlags(a, b) ==
  {"SYN", "ACK"} \cup (IF BothUseEcn(a, b) THEN {"ECE"} ELSE {})
Outcome(a, b) == IF BothUseEcn(a, b) THEN "ECN_IDLE" ELSE "ECN_DISABLED"

\* The segments of a client: every SYN says the same, and an acknowledgement
\* shifts the window by what the SYN announced.
SynOK(a, m) ==
  /\ m.flags = SynFlags(a) /\ m.opts = a.opts
  /\ m.scale = ShiftOf(a) /\ m.win <= a.buf
AckOK(a, m) == m.flags = {"ACK"} /\ m.win <= a.buf \div 2^ShiftOf(a)

\* The answer of f, the socket forked for the client.
SynAckOK(a, b, m, f) ==
  /\ m.flags = SynAckFlags(a, b) /\ m.opts = f.opts
  /\ m.scale = f.rcvWindShift /\ m.win <= b.buf

ClientOK(a, b, s) ==
  /\ s \in Sockets
  /\ s.state \in {"CLOSED", "SYN_SENT", "ESTABLISHED"}
  /\ s.useEcn = a.ecn /\ s.buf = a.buf
  /\ s.state # "ESTABLISHED" => s.opts = a.opts
  /\ s.state # "CLOSED" =>
       s.rcvWindShift = ShiftOf(a) /\ s.synCount # SynRetries
  /\ s.synCount = SynRetries => s.rcvWindShift = 0
  /\ s.retx # {} => s.state = "SYN_SENT" /\ s.retx = SynFlags(a)
  /\ s.rWnd <= b.buf

\* The options are settled by the first SYN, once the fork exists.
ForkOK(a, b, s) ==
  /\ s \in Sockets
  /\ s.state \in {"NONE", "SYN_RCVD", "ESTABLISHED", "CLOSED"}
  /\ s.useEcn = b.ecn /\ s.buf = b.buf
  /\ s.state = "NONE" => s.rWnd = 0
  /\ s.state # "NONE" =>
       /\ s.opts \subseteq a.opts
       /\ "wscale" \in s.opts => /\ s.rcvWindShift = CalculateWScale(s.buf)
                                 /\ s.sndWindShift = ShiftOf(a)
                                 /\ s.rWnd <= a.buf
       /\ \/ s.ecnState = Outcome(a, b)
          \/ s.state = "ESTABLISHED" /\ s.ecnState = "ECN_IDLE"
  /\ s.retx # {} => s.state = "SYN_RCVD" /\ s.retx = SynAckFlags(a, b)

ListenerOK(b, s) ==
  /\ s \in Sockets
  /\ s.state = "LISTEN" /\ s.synCount = SynRetries
  /\ s.useEcn = b.ecn /\ s.buf = b.buf /\ s.retx = {} /\ s.out = {}

\* Both ends of a connection.
Agreed(a, b, s, f) ==
  s.state = "ESTABLISHED" =>
    /\ f.state # "NONE" /\ s.opts = f.opts
    /\ "wscale" \in f.opts => s.sndWindShift = f.rcvWindShift
    /\ s.ecnState = Outcome(a, b)

Messages == [client : Clients, to : Clients \cup {Server},
             flags : SUBSET Flags, opts : SUBSET Options, scale : Shifts,
             win : Nat]

MessageOK(a, b, m, f) ==
  /\ m \in Messages
  /\ \/ m.to = Server /\ (SynOK(a, m) \/ AckOK(a, m))
     \/ m.to = m.client /\ f.state # "NONE" /\ SynAckOK(a, b, m, f)

IInv ==
  /\ config \in [Clients \cup {Server} -> Configs]
  /\ client \in [Clients -> Sockets] /\ fork \in [Clients -> Sockets]
  /\ \A c \in Clients :
       /\ ClientOK(config[c], config[Server], client[c])
       /\ ForkOK(config[c], config[Server], fork[c])
       /\ Agreed(config[c], config[Server], client[c], fork[c])
       /\ client[c].out = {} /\ fork[c].out = {}
  /\ ListenerOK(config[Server], listener)
  /\ IsABag(net)
  /\ \A m \in BagToSet(net) :
       MessageOK(config[m.client], config[Server], m, fork[m.client])

-----------------------------------------------------------------------------
(* Numbers.                                                                *)

LEMMA LeastExists ==
  ASSUME NEW S \in SUBSET Nat, S # {}
  PROVE  \E n \in S : \A k \in S : n <= k
<1> DEFINE R == {p \in Nat \X Nat : p[1] < p[2]}
<1>1. IsWellFoundedOn(R, Nat)
  BY NatLessThanWellFounded DEF OpToRel
<1>2. \A j, k \in Nat : <<j, k>> \in R <=> j < k
  OBVIOUS
<1> HIDE DEF R
<1>3. PICK n \in S : \A k \in S : ~(<<k, n>> \in R)
  BY <1>1, WFMin, Zenon
<1>4. \A k \in S : ~(k < n)
  BY <1>2, <1>3
<1>5. \A k \in S : k \in Nat /\ n \in Nat
  OBVIOUS
<1> QED
  BY <1>4, <1>5

LEMMA ShiftsExist ==
  ASSUME NEW buf \in Nat
  PROVE  CalculateWScale(buf) \in Shifts
<1> DEFINE fits == {k \in Shifts : buf \div 2^k <= MaxWin}
<1>1. CalculateWScale(buf) =
        IF fits = {} THEN 14 ELSE CHOOSE k \in fits : \A j \in fits : k <= j
  BY DEF CalculateWScale
<1>2. fits \subseteq Shifts /\ 14 \in Shifts /\ Shifts \subseteq Nat
  BY DEF Shifts
<1> HIDE DEF fits
<1>3. CASE fits = {}
  BY <1>1, <1>2, <1>3
<1>4. CASE fits # {}
  <2>1. \E k \in fits : \A j \in fits : k <= j
    BY <1>2, <1>4, LeastExists
  <2>2. (CHOOSE k \in fits : \A j \in fits : k <= j) \in fits
    BY <2>1
  <2> QED
    BY <1>1, <1>2, <1>4, <2>2
<1> QED
  BY <1>3, <1>4

LEMMA Powers ==
  ASSUME NEW k \in Shifts
  PROVE  2^k \in Nat /\ 2^k > 0
<1>1. \/ k = 0 \/ k = 1 \/ k = 2 \/ k = 3 \/ k = 4 \/ k = 5 \/ k = 6 \/ k = 7
      \/ k = 8 \/ k = 9 \/ k = 10 \/ k = 11 \/ k = 12 \/ k = 13 \/ k = 14
  BY DEF Shifts
<1> DEFINE Power(j) == 2^j \in Nat /\ 2^j > 0
<1>2. /\ Power(0) /\ Power(1) /\ Power(2) /\ Power(3) /\ Power(4)
      /\ Power(5) /\ Power(6) /\ Power(7) /\ Power(8) /\ Power(9)
      /\ Power(10) /\ Power(11) /\ Power(12) /\ Power(13) /\ Power(14)
  OBVIOUS
<1> HIDE DEF Power
<1>3. Power(k)
  BY <1>1, <1>2
<1> QED
  BY <1>3 DEF Power

\* Shifted down and up again, a window has not grown.
LEMMA ShiftBack ==
  ASSUME NEW buf \in Nat, NEW k \in Shifts, NEW win \in Nat,
         win <= buf \div 2^k
  PROVE  win * 2^k \in Nat /\ win * 2^k <= buf
<1> DEFINE d == 2^k
<1>1. d \in Nat /\ d > 0
  BY Powers
<1> HIDE DEF d
<1>2. (buf \div d) * d <= buf /\ buf \div d \in Nat
  BY <1>1
<1>3. win <= buf \div d
  BY DEF d
<1>4. win * d <= (buf \div d) * d /\ win * d \in Nat
  <2> DEFINE q == buf \div d
  <2>1. q \in Nat /\ win <= q
    BY <1>2, <1>3
  <2> HIDE DEF q
  <2>2. win * d <= q * d /\ win * d \in Nat
    BY <1>1, <2>1
  <2> QED
    BY <2>2 DEF q
<1>5. (buf \div d) * d \in Nat
  BY <1>1, <1>2
<1> QED
  BY <1>2, <1>4, <1>5 DEF d

\* A window shifted by nothing or by k is no larger than the buffer behind it.
Unshifted(s) == AdvertisedWindowSize(s, FALSE)
Shifted(s) == AdvertisedWindowSize(s, TRUE)

LEMMA Windows ==
  ASSUME NEW s \in Sockets
  PROVE  /\ Unshifted(s) \in Nat /\ Unshifted(s) <= s.buf
         /\ Shifted(s) \in Nat /\ Shifted(s) <= s.buf \div 2^s.rcvWindShift
<1>1. s.buf \in Nat /\ s.rcvWindShift \in Shifts /\ MaxWin \in Nat
  BY NegotiationAssumption DEF Sockets
<1> DEFINE d == 2^s.rcvWindShift
           b == s.buf
<1>2. d \in Nat /\ d > 0
  BY <1>1, Powers
<1>3. /\ Unshifted(s) = IF b > MaxWin THEN MaxWin ELSE b
      /\ Shifted(s) = IF b \div d > MaxWin THEN MaxWin ELSE b \div d
  BY DEF AdvertisedWindowSize, Unshifted, Shifted
<1> HIDE DEF d, b
<1>4. b \in Nat /\ b \div d \in Nat
  BY <1>1, <1>2 DEF b
<1> QED
  BY <1>1, <1>3, <1>4 DEF b, d

-----------------------------------------------------------------------------
(* Sending.                                                                *)

\* What sending leaves alone.
Same(s, t) ==
  /\ t.useEcn = s.useEcn /\ t.ecnState = s.ecnState /\ t.opts = s.opts
  /\ t.buf = s.buf /\ t.sndWindShift = s.sndWindShift /\ t.rWnd = s.rWnd

\* The shift a socket announces.
Announced(s) ==
  IF "wscale" \in s.opts THEN CalculateWScale(s.buf) ELSE s.rcvWindShift

\* m is the SYN or SYN+ACK of s with these flags.
IsSynOf(s, flags, m) ==
  /\ m \in Segments /\ m.flags = flags /\ m.opts = s.opts
  /\ m.scale = Announced(s) /\ m.win <= s.buf

\* s without retries left is closed and sends nothing; otherwise one is used.
SynSent(s, flags, t) ==
  \/ /\ s.synCount = 0 /\ t.synCount = 0
     /\ t.state = "CLOSED" /\ t.retx = {} /\ t.out = {}
  \/ /\ s.synCount > 0 /\ t.synCount = s.synCount - 1
     /\ t.state = s.state /\ t.retx = IF s.retx = {} THEN flags ELSE s.retx
     /\ \A m \in t.out : IsSynOf(s, flags, m)

LEMMA ScaledFacts ==
  ASSUME NEW s \in Sockets,
         NEW t, t = IF "wscale" \in s.opts
                    THEN [s EXCEPT !.rcvWindShift = CalculateWScale(s.buf)]
                    ELSE s
  PROVE  /\ t \in Sockets /\ Same(s, t) /\ t.rcvWindShift = Announced(s)
         /\ t.state = s.state /\ t.synCount = s.synCount
         /\ t.retx = s.retx /\ t.out = s.out
<1>1. CalculateWScale(s.buf) \in Shifts
  BY ShiftsExist DEF Sockets
<1>2. t \in Sockets
  BY <1>1 DEF Sockets
<1> QED
  BY <1>2 DEF Sockets, Same, Announced

LEMMA SendSynFacts ==
  ASSUME NEW s \in Sockets, s.out = {},
         NEW flags \in SUBSET Flags, "SYN" \in flags
  PROVE  LET t == SendEmptyPacket(s, flags)
         IN /\ t \in Sockets /\ Same(s, t) /\ t.rcvWindShift = Announced(s)
            /\ SynSent(s, flags, t)
<1> DEFINE a == IF "wscale" \in s.opts
                THEN [s EXCEPT !.rcvWindShift = CalculateWScale(s.buf)] ELSE s
           m == [flags |-> flags, opts |-> a.opts, scale |-> a.rcvWindShift,
                 win |-> Unshifted(a)]
           t == IF NoRetryLeft(a)
                THEN [a EXCEPT !.state = "CLOSED", !.retx = {}]
                ELSE [a EXCEPT !.synCount = @ - 1, !.out = {m},
                               !.retx = IF @ = {} THEN flags ELSE @]
<1>1. SendEmptyPacket(s, flags) = t
  BY DEF SendEmptyPacket, Unshifted
<1>2. /\ a \in Sockets /\ Same(s, a) /\ a.rcvWindShift = Announced(s)
      /\ a.state = s.state /\ a.synCount = s.synCount
      /\ a.retx = s.retx /\ a.out = s.out
  BY ScaledFacts
<1> HIDE DEF a
<1>3. /\ a.synCount \in 0..SynRetries /\ SynRetries \in Nat
      /\ "CLOSED" \in States /\ a.opts \in SUBSET Options
      /\ a.rcvWindShift \in Shifts /\ a.retx \in SUBSET Flags
  BY <1>2, NegotiationAssumption DEF Sockets, States
<1>4. m \in Segments /\ IsSynOf(s, flags, m)
  <2>1. Unshifted(a) \in Nat /\ Unshifted(a) <= a.buf
    BY <1>2, Windows
  <2>2. m \in Segments
    BY <1>3, <2>1 DEF Segments
  <2> QED
    BY <1>2, <2>1, <2>2 DEF IsSynOf, Same
<1> HIDE DEF m
<1>5. CASE a.synCount = 0
  <2>1. t = [a EXCEPT !.state = "CLOSED", !.retx = {}]
    BY <1>5 DEF NoRetryLeft
  <2> HIDE DEF t
  <2>2. t \in Sockets
    BY <1>2, <1>3, <2>1 DEF Sockets
  <2>3. /\ Same(a, t) /\ t.state = "CLOSED" /\ t.retx = {}
        /\ t.out = a.out /\ t.synCount = a.synCount
        /\ t.rcvWindShift = a.rcvWindShift
    BY <1>2, <2>1 DEF Sockets, Same
  <2>4. SynSent(s, flags, t)
    BY <1>2, <1>5, <2>3 DEF SynSent
  <2> QED
    BY <1>1, <1>2, <2>2, <2>3, <2>4 DEF Same
<1>6. CASE a.synCount # 0
  <2> DEFINE retx == IF a.retx = {} THEN flags ELSE a.retx
  <2>1. t = [a EXCEPT !.synCount = a.synCount - 1, !.out = {m},
                      !.retx = retx]
    BY <1>6 DEF NoRetryLeft
  <2>2. retx \in SUBSET Flags /\ {m} \in SUBSET Segments
    BY <1>3, <1>4
  <2> HIDE DEF t, retx
  <2>3. a.synCount - 1 \in 0..SynRetries
    BY <1>3, <1>6
  <2>4. t \in Sockets
    BY <1>2, <2>1, <2>2, <2>3 DEF Sockets
  <2>5. /\ Same(a, t) /\ t.state = a.state /\ t.retx = retx
        /\ t.out = {m} /\ t.synCount = a.synCount - 1
        /\ t.rcvWindShift = a.rcvWindShift
    BY <1>2, <2>1 DEF Sockets, Same
  <2>6. SynSent(s, flags, t)
    BY <1>2, <1>3, <1>4, <1>6, <2>5 DEF SynSent, retx
  <2> QED
    BY <1>1, <1>2, <2>4, <2>5, <2>6 DEF Same
<1> QED
  BY <1>5, <1>6

LEMMA SendAckFacts ==
  ASSUME NEW s \in Sockets
  PROVE  LET t == SendEmptyPacket(s, {"ACK"})
         IN /\ t \in Sockets /\ Same(s, t) /\ t.rcvWindShift = s.rcvWindShift
            /\ t.state = s.state /\ t.synCount = s.synCount
            /\ t.retx = s.retx
            /\ \A m \in t.out : /\ m \in Segments /\ m.flags = {"ACK"}
                                /\ m.win <= s.buf \div 2^s.rcvWindShift
<1> DEFINE m == [flags |-> {"ACK"}, opts |-> s.opts \cap {"ts"},
                 scale |-> s.rcvWindShift, win |-> Shifted(s)]
           t == [s EXCEPT !.out = {m}]
<1>1. SendEmptyPacket(s, {"ACK"}) = t
  BY DEF SendEmptyPacket, Shifted
<1>2. Shifted(s) \in Nat /\ Shifted(s) <= s.buf \div 2^s.rcvWindShift
  BY Windows
<1>3. /\ m \in Segments /\ m.flags = {"ACK"}
      /\ m.win <= s.buf \div 2^s.rcvWindShift
  BY <1>2 DEF Segments, Sockets, Flags
<1> HIDE DEF m
<1>4. t \in Sockets
  BY <1>3 DEF Sockets
<1>5. /\ Same(s, t) /\ t.rcvWindShift = s.rcvWindShift /\ t.out = {m}
      /\ t.state = s.state /\ t.synCount = s.synCount /\ t.retx = s.retx
  BY DEF Sockets, Same
<1> QED
  BY <1>1, <1>3, <1>4, <1>5

\* s is what the fork of the client may be when it answers a SYN.
Answering(a, b, s) ==
  /\ s \in Sockets /\ s.out = {} /\ s.state = "SYN_RCVD"
  /\ s.useEcn = b.ecn /\ s.buf = b.buf
  /\ s.opts \subseteq a.opts
  /\ "wscale" \in s.opts => s.sndWindShift = ShiftOf(a) /\ s.rWnd <= a.buf
  /\ s.retx # {} => s.retx = SynAckFlags(a, b)

LEMMA EcnFacts ==
  ASSUME NEW a, NEW b, a.ecn \in UseEcn, NEW s, s.useEcn = b.ecn,
         NEW m, m.flags = SynFlags(a)
  PROVE  EcnSyn(s, m) <=> BothUseEcn(a, b)
BY DEF EcnSyn, BothUseEcn, SynFlags, UseEcn

\* The answer of the fork, or its end when no retry is left.
LEMMA SendSynAckFacts ==
  ASSUME NEW a, NEW b, a.ecn \in UseEcn, NEW s, Answering(a, b, s),
         NEW m, m.flags = SynFlags(a)
  PROVE  LET t == SendSynAck(s, m)
         IN /\ ForkOK(a, b, t) /\ t.state # "NONE"
            /\ t.opts = s.opts /\ t.rcvWindShift = Announced(s)
            /\ \A x \in t.out : x \in Segments /\ SynAckOK(a, b, x, t)
<1> DEFINE flags == SynAckFlags(a, b)
           u == SendEmptyPacket(s, flags)
           t == [u EXCEPT !.ecnState = Outcome(a, b)]
<1>1. SendSynAck(s, m) = t
  <2>1. EcnSyn(s, m) <=> BothUseEcn(a, b)
    BY EcnFacts DEF Answering
  <2>2. CASE BothUseEcn(a, b)
    BY <2>1, <2>2 DEF SendSynAck, SynAckFlags, Outcome
  <2>3. CASE ~BothUseEcn(a, b)
    BY <2>1, <2>3 DEF SendSynAck, SynAckFlags, Outcome
  <2> QED
    BY <2>2, <2>3
<1>2. flags \in SUBSET Flags /\ "SYN" \in flags /\ flags # {}
  BY DEF SynAckFlags, Flags
<1>3. s \in Sockets /\ s.out = {}
  BY DEF Answering
<1>4. /\ u \in Sockets /\ Same(s, u) /\ u.rcvWindShift = Announced(s)
      /\ SynSent(s, flags, u)
  <2> HIDE DEF flags, u
  <2> QED
    BY <1>2, <1>3, SendSynFacts DEF u
<1> HIDE DEF u
<1>5. Outcome(a, b) \in {"ECN_DISABLED", "ECN_IDLE"}
  BY DEF Outcome
<1>6. t \in Sockets
  BY <1>4, <1>5 DEF Sockets
<1>7. /\ t.useEcn = s.useEcn /\ t.opts = s.opts /\ t.buf = s.buf
      /\ t.sndWindShift = s.sndWindShift /\ t.rWnd = s.rWnd
      /\ t.rcvWindShift = Announced(s) /\ t.ecnState = Outcome(a, b)
      /\ t.state = u.state /\ t.retx = u.retx /\ t.out = u.out
  BY <1>4 DEF Sockets, Same
<1> HIDE DEF t
<1>8. /\ t.state \in {"SYN_RCVD", "CLOSED"}
      /\ t.retx # {} => t.state = "SYN_RCVD" /\ t.retx = SynAckFlags(a, b)
      /\ \A x \in t.out : IsSynOf(s, flags, x)
  BY <1>4, <1>7 DEF SynSent, Answering
<1>9. ForkOK(a, b, t)
  BY <1>6, <1>7, <1>8 DEF ForkOK, Answering, Announced
<1>10. \A x \in t.out : x \in Segments /\ SynAckOK(a, b, x, t)
  BY <1>7, <1>8 DEF IsSynOf, SynAckOK, Answering
<1> QED
  BY <1>1, <1>7, <1>8, <1>9, <1>10

-----------------------------------------------------------------------------
(* Reading a segment.                                                      *)

LEMMA ReceiveSynFacts ==
  ASSUME NEW s \in Sockets, NEW m, m.opts \in SUBSET Options,
         m.scale \in Shifts, m.win \in Nat
  PROVE  LET t == ReceiveSyn(s, m)
         IN /\ t \in Sockets /\ t.rWnd = m.win
            /\ t.opts = s.opts \cap m.opts
            /\ "wscale" \in t.opts => t.sndWindShift = m.scale
            /\ t.state = s.state /\ t.useEcn = s.useEcn
            /\ t.ecnState = s.ecnState /\ t.buf = s.buf
            /\ t.rcvWindShift = s.rcvWindShift /\ t.synCount = s.synCount
            /\ t.retx = s.retx /\ t.out = s.out
<1> DEFINE shift == IF "wscale" \in s.opts \cap m.opts THEN m.scale
                    ELSE s.sndWindShift
           t == [s EXCEPT !.rWnd = m.win, !.opts = s.opts \cap m.opts,
                          !.sndWindShift = shift]
<1>1. ReceiveSyn(s, m) = t
  BY DEF ReceiveSyn
<1>2. shift \in Shifts /\ s.opts \cap m.opts \in SUBSET Options
  BY DEF Sockets
<1>3. "wscale" \in s.opts \cap m.opts => shift = m.scale
  OBVIOUS
<1> HIDE DEF shift
<1>4. t \in Sockets
  BY <1>2 DEF Sockets
<1> QED
  BY <1>1, <1>3, <1>4 DEF Sockets

LEMMA ReceiveCwrFacts ==
  ASSUME NEW s \in Sockets, NEW m
  PROVE  LET t == ReceiveCwr(s, m)
         IN /\ t \in Sockets /\ t.state = s.state /\ t.useEcn = s.useEcn
            /\ t.opts = s.opts /\ t.buf = s.buf /\ t.rWnd = s.rWnd
            /\ t.rcvWindShift = s.rcvWindShift
            /\ t.sndWindShift = s.sndWindShift
            /\ t.synCount = s.synCount /\ t.retx = s.retx /\ t.out = s.out
            /\ \/ t.ecnState = s.ecnState
               \/ s.state = "ESTABLISHED" /\ t.ecnState = "ECN_IDLE"
<1>1. CASE s.state = "ESTABLISHED" /\ "CWR" \in m.flags
  <2>1. ReceiveCwr(s, m) = [s EXCEPT !.ecnState = "ECN_IDLE"]
    BY <1>1 DEF ReceiveCwr
  <2> QED
    BY <1>1, <2>1 DEF Sockets
<1>2. CASE ~(s.state = "ESTABLISHED" /\ "CWR" \in m.flags)
  BY <1>2 DEF ReceiveCwr
<1> QED
  BY <1>1, <1>2

-----------------------------------------------------------------------------
(* Bags of segments.                                                       *)

LEMMA BagMinusFacts ==
  ASSUME NEW B, IsABag(B), NEW C, IsABag(C)
  PROVE  IsABag(B (-) C) /\ BagToSet(B (-) C) \subseteq BagToSet(B)
BY DEF IsABag, BagToSet, (-)

LEMMA BagPlusFacts ==
  ASSUME NEW B, IsABag(B), NEW C, IsABag(C)
  PROVE  /\ IsABag(B (+) C)
         /\ BagToSet(B (+) C) \subseteq BagToSet(B) \cup BagToSet(C)
BY DEF IsABag, BagToSet, (+)

LEMMA SetToBagFacts ==
  ASSUME NEW S
  PROVE  IsABag(SetToBag(S)) /\ BagToSet(SetToBag(S)) = S
BY DEF IsABag, BagToSet, SetToBag

LEMMA EmptyBagFacts == IsABag(EmptyBag) /\ BagToSet(EmptyBag) = {}
BY SetToBagFacts DEF EmptyBag

\* The segments that s sends for c.
Outgoing(c, to, s) ==
  {[client |-> c, to |-> to, flags |-> m.flags, opts |-> m.opts,
    scale |-> m.scale, win |-> m.win] : m \in s.out}

LEMMA SentFacts ==
  ASSUME NEW B, IsABag(B), NEW C, IsABag(C), NEW c, NEW to, NEW s
  PROVE  LET D == (B (-) C) (+) Sent(c, to, s)
         IN /\ IsABag(D)
            /\ BagToSet(D) \subseteq BagToSet(B) \cup Outgoing(c, to, s)
<1>1. IsABag(B (-) C) /\ BagToSet(B (-) C) \subseteq BagToSet(B)
  BY BagMinusFacts
<1> DEFINE new == Outgoing(c, to, s)
<1>2. Sent(c, to, s) = SetToBag(new)
  BY DEF Sent, Outgoing
<1> HIDE DEF new
<1>3. IsABag(SetToBag(new)) /\ BagToSet(SetToBag(new)) = new
  BY SetToBagFacts
<1>4. /\ IsABag((B (-) C) (+) SetToBag(new))
      /\ BagToSet((B (-) C) (+) SetToBag(new))
           \subseteq BagToSet(B (-) C) \cup BagToSet(SetToBag(new))
  BY <1>1, <1>3, BagPlusFacts
<1> QED
  BY <1>1, <1>2, <1>3, <1>4 DEF new

-----------------------------------------------------------------------------
(* The steps.                                                              *)

LEMMA Parts ==
  ASSUME IInv, NEW c \in Clients
  PROVE  /\ c # Server
         /\ config[c] \in Configs /\ config[Server] \in Configs
         /\ config[c].ecn \in UseEcn /\ config[c].opts \in SUBSET Options
         /\ config[c].buf \in Nat /\ config[Server].buf \in Nat
         /\ client[c] \in Sockets /\ fork[c] \in Sockets
         /\ ClientOK(config[c], config[Server], client[c])
         /\ ForkOK(config[c], config[Server], fork[c])
         /\ Agreed(config[c], config[Server], client[c], fork[c])
         /\ client[c].out = {} /\ fork[c].out = {}
<1>1. config[c] \in Configs /\ config[Server] \in Configs
  BY DEF IInv
<1>2. /\ config[c].ecn \in UseEcn /\ config[c].opts \in SUBSET Options
      /\ config[c].buf \in Nat /\ config[Server].buf \in Nat
  BY <1>1 DEF Configs
<1> QED
  BY <1>1, <1>2, NegotiationAssumption DEF IInv

LEMMA ClientStepsKeep ==
  ASSUME IInv, NEW c \in Clients, NEW s, NEW received, IsABag(received),
         ClientOK(config[c], config[Server], s),
         Agreed(config[c], config[Server], s, fork[c]),
         \A m \in s.out : /\ m \in Segments
                          /\ SynOK(config[c], m) \/ AckOK(config[c], m),
         ClientSteps(c, s, received)
  PROVE  IInv'
<1> DEFINE t == Quiet(s)
           a == config[c]
           b == config[Server]
<1>1. /\ client' = [client EXCEPT ![c] = t]
      /\ net' = (net (-) received) (+) Sent(c, Server, s)
      /\ config' = config /\ listener' = listener /\ fork' = fork
  BY DEF ClientSteps
<1>2. /\ t \in Sockets /\ ClientOK(a, b, t) /\ Agreed(a, b, t, fork[c])
      /\ t.out = {}
  <2>1. t = [s EXCEPT !.out = {}] /\ s \in Sockets
    BY DEF Quiet, ClientOK
  <2>2. t \in Sockets
    BY <2>1 DEF Sockets
  <2>3. /\ t.state = s.state /\ t.useEcn = s.useEcn /\ t.buf = s.buf
        /\ t.opts = s.opts /\ t.rcvWindShift = s.rcvWindShift
        /\ t.synCount = s.synCount /\ t.retx = s.retx /\ t.rWnd = s.rWnd
        /\ t.sndWindShift = s.sndWindShift /\ t.ecnState = s.ecnState
        /\ t.out = {}
    BY <2>1 DEF Sockets
  <2> HIDE DEF t
  <2>4. ClientOK(a, b, t)
    BY <2>2, <2>3 DEF ClientOK
  <2>5. Agreed(a, b, t, fork[c])
    BY <2>3 DEF Agreed
  <2> QED
    BY <2>2, <2>3, <2>4, <2>5
<1> HIDE DEF t, a, b
<1>3. /\ IsABag(net')
      /\ BagToSet(net') \subseteq BagToSet(net) \cup Outgoing(c, Server, s)
  BY <1>1, SentFacts DEF IInv
<1>4. ASSUME NEW m \in Outgoing(c, Server, s)
      PROVE  m.client = c /\ MessageOK(a, b, m, fork[c])
  <2>1. PICK x \in s.out :
          m = [client |-> c, to |-> Server, flags |-> x.flags,
               opts |-> x.opts, scale |-> x.scale, win |-> x.win]
    BY DEF Outgoing
  <2>2. x \in Segments /\ (SynOK(a, x) \/ AckOK(a, x))
    BY DEF a
  <2>3. m \in Messages
    BY <2>1, <2>2 DEF Segments, Messages
  <2>4. /\ m.client = c /\ m.to = Server /\ m.flags = x.flags
        /\ m.opts = x.opts /\ m.scale = x.scale /\ m.win = x.win
    BY <2>1
  <2>5. SynOK(a, m) \/ AckOK(a, m)
    BY <2>2, <2>4 DEF SynOK, AckOK
  <2> QED
    BY <2>3, <2>4, <2>5 DEF MessageOK
<1>5. \A m \in BagToSet(net') :
        MessageOK(config[m.client], config[Server], m, fork[m.client])
  BY <1>3, <1>4 DEF IInv, a, b
<1>6. /\ client' \in [Clients -> Sockets] /\ client'[c] = t
      /\ \A d \in Clients \ {c} : client'[d] = client[d]
  BY <1>1, <1>2 DEF IInv
<1>7. \A d \in Clients :
        /\ ClientOK(config[d], config[Server], client'[d])
        /\ ForkOK(config[d], config[Server], fork[d])
        /\ Agreed(config[d], config[Server], client'[d], fork[d])
        /\ client'[d].out = {} /\ fork[d].out = {}
  BY <1>2, <1>6 DEF IInv, a, b
<1> QED
  BY <1>1, <1>3, <1>5, <1>6, <1>7 DEF IInv

\* What the other end may have been told of a fork stays as it is.
Kept(f, s) ==
  /\ s.state # "NONE"
  /\ f.state # "NONE" => s.opts = f.opts /\ s.rcvWindShift = f.rcvWindShift

LEMMA ForkStepsKeep ==
  ASSUME IInv, NEW c \in Clients, NEW s, NEW received, IsABag(received),
         ForkOK(config[c], config[Server], s), Kept(fork[c], s),
         \A m \in s.out : /\ m \in Segments
                          /\ SynAckOK(config[c], config[Server], m, s),
         ForkSteps(c, s, received), ListenerOK(config[Server], listener')
  PROVE  IInv'
<1> DEFINE t == Quiet(s)
           a == config[c]
           b == config[Server]
<1>1. /\ fork' = [fork EXCEPT ![c] = t]
      /\ net' = (net (-) received) (+) Sent(c, c, s)
      /\ config' = config /\ client' = client
  BY DEF ForkSteps
<1>2. t = [s EXCEPT !.out = {}] /\ s \in Sockets
  BY DEF Quiet, ForkOK
<1>3. t \in Sockets
  BY <1>2 DEF Sockets
<1>4. /\ t.state = s.state /\ t.useEcn = s.useEcn /\ t.buf = s.buf
      /\ t.opts = s.opts /\ t.rcvWindShift = s.rcvWindShift
      /\ t.synCount = s.synCount /\ t.retx = s.retx /\ t.rWnd = s.rWnd
      /\ t.sndWindShift = s.sndWindShift /\ t.ecnState = s.ecnState
      /\ t.out = {}
  BY <1>2 DEF Sockets
<1> HIDE DEF t
<1>5. ForkOK(a, b, t)
  BY <1>3, <1>4 DEF ForkOK
<1>6. Agreed(a, b, client[c], t)
  <2>1. Agreed(a, b, client[c], fork[c])
    BY Parts
  <2> QED
    BY <1>4, <2>1 DEF Agreed, Kept
<1> HIDE DEF a, b
<1>7. /\ IsABag(net')
      /\ BagToSet(net') \subseteq BagToSet(net) \cup Outgoing(c, c, s)
  BY <1>1, SentFacts DEF IInv
<1>8. ASSUME NEW m \in Outgoing(c, c, s)
      PROVE  m.client = c /\ MessageOK(a, b, m, t)
  <2>1. PICK x \in s.out :
          m = [client |-> c, to |-> c, flags |-> x.flags,
               opts |-> x.opts, scale |-> x.scale, win |-> x.win]
    BY DEF Outgoing
  <2>2. x \in Segments /\ SynAckOK(a, b, x, s)
    BY DEF a, b
  <2>3. m \in Messages
    BY <2>1, <2>2 DEF Segments, Messages
  <2>4. /\ m.client = c /\ m.to = c /\ m.flags = x.flags
        /\ m.opts = x.opts /\ m.scale = x.scale /\ m.win = x.win
    BY <2>1
  <2>5. SynAckOK(a, b, m, t)
    BY <1>4, <2>2, <2>4 DEF SynAckOK
  <2> QED
    BY <1>4, <2>3, <2>4, <2>5 DEF MessageOK, Kept
<1>9. /\ fork' \in [Clients -> Sockets] /\ fork'[c] = t
      /\ \A d \in Clients \ {c} : fork'[d] = fork[d]
  BY <1>1, <1>3 DEF IInv
<1>10. ASSUME NEW m \in BagToSet(net)
       PROVE  MessageOK(config[m.client], config[Server], m, fork'[m.client])
  <2>1. MessageOK(config[m.client], config[Server], m, fork[m.client])
        /\ m.client \in Clients
    BY DEF IInv, MessageOK, Messages
  <2>2. CASE m.client = c
    BY <1>4, <1>9, <2>1, <2>2 DEF MessageOK, SynAckOK, Kept
  <2>3. CASE m.client # c
    BY <1>9, <2>1, <2>3
  <2> QED
    BY <2>2, <2>3
<1>11. \A m \in BagToSet(net') :
         MessageOK(config[m.client], config[Server], m, fork'[m.client])
  BY <1>7, <1>8, <1>9, <1>10 DEF a, b
<1>12. \A d \in Clients :
         /\ ClientOK(config[d], config[Server], client[d])
         /\ ForkOK(config[d], config[Server], fork'[d])
         /\ Agreed(config[d], config[Server], client[d], fork'[d])
         /\ client[d].out = {} /\ fork'[d].out = {}
  BY <1>4, <1>5, <1>6, <1>9 DEF IInv, a, b
<1> QED
  BY <1>1, <1>7, <1>9, <1>11, <1>12 DEF IInv

\* What a segment says depends on where it goes.
LEMMA SegmentFacts ==
  ASSUME IInv, NEW c \in Clients, NEW m \in BagToSet(net), m.client = c
  PROVE  /\ m.flags \in SUBSET Flags /\ m.opts \in SUBSET Options
         /\ m.scale \in Shifts /\ m.win \in Nat
         /\ m.to = Server /\ "SYN" \in m.flags => SynOK(config[c], m)
         /\ m.to = Server /\ m.flags = {"ACK"} => AckOK(config[c], m)
         /\ m.to = c => /\ fork[c].state # "NONE"
                        /\ SynAckOK(config[c], config[Server], m, fork[c])
<1>1. MessageOK(config[c], config[Server], m, fork[c]) /\ c # Server
  BY Parts DEF IInv
<1>2. /\ m.flags \in SUBSET Flags /\ m.opts \in SUBSET Options
      /\ m.scale \in Shifts /\ m.win \in Nat
  BY <1>1 DEF MessageOK, Messages
<1>3. m.to = Server => SynOK(config[c], m) \/ AckOK(config[c], m)
  BY <1>1 DEF MessageOK
<1>4. AckOK(config[c], m) => "SYN" \notin m.flags
  BY DEF AckOK
<1>5. SynOK(config[c], m) => m.flags # {"ACK"}
  BY DEF SynOK, SynFlags
<1>6. m.to = c => /\ fork[c].state # "NONE"
                  /\ SynAckOK(config[c], config[Server], m, fork[c])
  BY <1>1 DEF MessageOK
<1> QED
  BY <1>2, <1>3, <1>4, <1>5, <1>6

\* A SYN of the client, the first or a repeated one.
LEMMA ClientSyn ==
  ASSUME NEW a, NEW b, NEW s \in Sockets, s.out = {}, s.retx = {},
         s.state \in {"CLOSED", "SYN_SENT"},
         s.useEcn = a.ecn, s.buf = a.buf, s.opts = a.opts,
         Announced(s) = ShiftOf(a), s.rWnd <= b.buf,
         NEW t, t = SendEmptyPacket(s, SynFlags(a))
  PROVE  /\ t \in Sockets /\ t.useEcn = a.ecn /\ t.buf = a.buf
         /\ t.opts = a.opts /\ t.rcvWindShift = ShiftOf(a)
         /\ t.rWnd <= b.buf /\ t.synCount # SynRetries
         /\ SynSent(s, SynFlags(a), t)
         /\ \A m \in t.out : m \in Segments /\ SynOK(a, m)
<1>1. SynFlags(a) \in SUBSET Flags /\ "SYN" \in SynFlags(a)
  BY DEF SynFlags, Flags
<1>2. /\ t \in Sockets /\ Same(s, t) /\ t.rcvWindShift = Announced(s)
      /\ SynSent(s, SynFlags(a), t)
  BY <1>1, SendSynFacts
<1>3. t.synCount # SynRetries
  <2>1. s.synCount \in 0..SynRetries /\ SynRetries \in Nat /\ SynRetries # 0
    BY NegotiationAssumption DEF Sockets
  <2> QED
    BY <1>2, <2>1 DEF SynSent
<1>4. \A m \in t.out : m \in Segments /\ SynOK(a, m)
  BY <1>2 DEF SynSent, IsSynOf, SynOK
<1> QED
  BY <1>2, <1>3, <1>4 DEF Same

LEMMA ConnectKeeps ==
  ASSUME IInv, NEW c \in Clients, Connect(c)
  PROVE  IInv'
<1> DEFINE a == config[c]
           b == config[Server]
           s == client[c]
           u == SendEmptyPacket(s, SynFlags(a))
           t == [u EXCEPT !.state = "SYN_SENT", !.ecnState = "ECN_DISABLED"]
<1>1. /\ ClientOK(a, b, s) /\ s \in Sockets /\ s.out = {}
      /\ Agreed(a, b, s, fork[c])
  BY Parts
<1>2. /\ s.state = "CLOSED" /\ s.synCount = SynRetries
      /\ ClientSteps(c, t, EmptyBag)
  BY <1>1 DEF Connect, ClientOK, SynFlags
<1> HIDE DEF a, b, s
<1>3. /\ s.retx = {} /\ s.useEcn = a.ecn /\ s.buf = a.buf /\ s.opts = a.opts
      /\ s.rcvWindShift = 0 /\ s.rWnd <= b.buf
  BY <1>1, <1>2 DEF ClientOK
<1>4. Announced(s) = ShiftOf(a)
  BY <1>3 DEF Announced, ShiftOf
<1> HIDE DEF u
<1>5. /\ u \in Sockets /\ u.useEcn = a.ecn /\ u.buf = a.buf
      /\ u.opts = a.opts /\ u.rcvWindShift = ShiftOf(a)
      /\ u.rWnd <= b.buf /\ u.synCount # SynRetries
      /\ SynSent(s, SynFlags(a), u)
      /\ \A m \in u.out : m \in Segments /\ SynOK(a, m)
  BY <1>1, <1>2, <1>3, <1>4, ClientSyn DEF u
<1>6. u.retx \in {{}, SynFlags(a)}
  BY <1>3, <1>5 DEF SynSent
<1>7. /\ t \in Sockets /\ t.useEcn = u.useEcn /\ t.buf = u.buf
      /\ t.opts = u.opts /\ t.rcvWindShift = u.rcvWindShift
      /\ t.rWnd = u.rWnd /\ t.synCount = u.synCount /\ t.retx = u.retx
      /\ t.out = u.out /\ t.state = "SYN_SENT"
  <2>1. "SYN_SENT" \in States
    BY DEF States
  <2>2. t \in Sockets
    BY <1>5, <2>1 DEF Sockets
  <2> QED
    BY <1>5, <2>2 DEF Sockets
<1> HIDE DEF t
<1>8. ClientOK(a, b, t)
  BY <1>5, <1>6, <1>7 DEF ClientOK
<1>9. Agreed(a, b, t, fork[c])
  BY <1>7 DEF Agreed
<1>10. \A m \in t.out : m \in Segments /\ (SynOK(a, m) \/ AckOK(a, m))
  BY <1>5, <1>7
<1> QED
  BY <1>2, <1>8, <1>9, <1>10, EmptyBagFacts, ClientStepsKeep DEF a, b

LEMMA RetransmitSynKeeps ==
  ASSUME IInv, NEW c \in Clients, RetransmitSyn(c)
  PROVE  IInv'
<1> DEFINE a == config[c]
           b == config[Server]
           s == [client[c] EXCEPT !.retx = {}]
           t == SendEmptyPacket(s, SynFlags(a))
<1>1. ClientOK(a, b, client[c]) /\ client[c] \in Sockets /\ client[c].out = {}
  BY Parts
<1>2. /\ client[c].retx = SynFlags(a) /\ client[c].state = "SYN_SENT"
  BY <1>1 DEF RetransmitSyn, ClientOK
<1>3. ClientSteps(c, t, EmptyBag)
  BY <1>2 DEF RetransmitSyn
<1>4. s \in Sockets
  BY <1>1 DEF Sockets
<1>5. /\ s.state = client[c].state /\ s.useEcn = client[c].useEcn
      /\ s.buf = client[c].buf /\ s.opts = client[c].opts
      /\ s.rcvWindShift = client[c].rcvWindShift /\ s.rWnd = client[c].rWnd
      /\ s.retx = {} /\ s.out = {}
  BY <1>1 DEF Sockets
<1> HIDE DEF s, a, b
<1>6. /\ s.useEcn = a.ecn /\ s.buf = a.buf /\ s.opts = a.opts
      /\ s.rcvWindShift = ShiftOf(a) /\ s.rWnd <= b.buf
      /\ s.state = "SYN_SENT"
  BY <1>1, <1>2, <1>5 DEF ClientOK
<1>7. Announced(s) = ShiftOf(a)
  BY <1>6 DEF Announced, ShiftOf
<1> HIDE DEF t
<1>8. /\ t \in Sockets /\ t.useEcn = a.ecn /\ t.buf = a.buf
      /\ t.opts = a.opts /\ t.rcvWindShift = ShiftOf(a)
      /\ t.rWnd <= b.buf /\ t.synCount # SynRetries
      /\ SynSent(s, SynFlags(a), t)
      /\ \A m \in t.out : m \in Segments /\ SynOK(a, m)
  BY <1>4, <1>5, <1>6, <1>7, ClientSyn DEF t
<1>9. /\ t.state \in {"CLOSED", "SYN_SENT"}
      /\ t.retx # {} => t.state = "SYN_SENT" /\ t.retx = SynFlags(a)
  BY <1>5, <1>6, <1>8 DEF SynSent
<1>10. ClientOK(a, b, t)
  BY <1>8, <1>9 DEF ClientOK
<1>11. Agreed(a, b, t, fork[c])
  BY <1>9 DEF Agreed
<1> QED
  BY <1>3, <1>8, <1>10, <1>11, EmptyBagFacts, ClientStepsKeep DEF a, b

LEMMA RetransmitSynAckKeeps ==
  ASSUME IInv, NEW c \in Clients, RetransmitSynAck(c)
  PROVE  IInv'
<1> DEFINE a == config[c]
           b == config[Server]
           flags == SynAckFlags(a, b)
           s == [fork[c] EXCEPT !.retx = {}]
           t == SendEmptyPacket(s, flags)
<1>1. ForkOK(a, b, fork[c]) /\ fork[c] \in Sockets /\ fork[c].out = {}
  BY Parts
<1>2. fork[c].retx = flags /\ fork[c].state = "SYN_RCVD"
  BY <1>1 DEF RetransmitSynAck, ForkOK
<1>3. ForkSteps(c, t, EmptyBag) /\ listener' = listener
  BY <1>2 DEF RetransmitSynAck
<1>4. s \in Sockets
  BY <1>1 DEF Sockets
<1>5. /\ s.state = "SYN_RCVD" /\ s.useEcn = fork[c].useEcn
      /\ s.buf = fork[c].buf /\ s.opts = fork[c].opts
      /\ s.rcvWindShift = fork[c].rcvWindShift /\ s.rWnd = fork[c].rWnd
      /\ s.sndWindShift = fork[c].sndWindShift
      /\ s.ecnState = fork[c].ecnState /\ s.retx = {} /\ s.out = {}
  BY <1>1, <1>2 DEF Sockets
<1> HIDE DEF s, a, b
<1>6. /\ s.useEcn = b.ecn /\ s.buf = b.buf /\ s.opts \subseteq a.opts
      /\ "wscale" \in s.opts => /\ s.rcvWindShift = CalculateWScale(s.buf)
                                /\ s.sndWindShift = ShiftOf(a)
                                /\ s.rWnd <= a.buf
      /\ s.ecnState = Outcome(a, b)
  BY <1>1, <1>2, <1>5 DEF ForkOK
<1>7. Announced(s) = s.rcvWindShift
  BY <1>6 DEF Announced
<1>8. flags \in SUBSET Flags /\ "SYN" \in flags
  BY DEF SynAckFlags, Flags
<1> HIDE DEF flags, t
<1>9. /\ t \in Sockets /\ Same(s, t) /\ t.rcvWindShift = Announced(s)
      /\ SynSent(s, flags, t)
  BY <1>4, <1>5, <1>8, SendSynFacts DEF t
<1>10. /\ t.state \in {"CLOSED", "SYN_RCVD"}
       /\ t.retx # {} => t.state = "SYN_RCVD" /\ t.retx = flags
       /\ \A m \in t.out : IsSynOf(s, flags, m)
  BY <1>5, <1>9 DEF SynSent
<1>11. ForkOK(a, b, t)
  BY <1>6, <1>7, <1>9, <1>10 DEF ForkOK, Same, flags
<1>12. Kept(fork[c], t)
  BY <1>5, <1>7, <1>9, <1>10 DEF Kept, Same
<1>13. \A m \in t.out : m \in Segments /\ SynAckOK(a, b, m, t)
  BY <1>6, <1>9, <1>10 DEF IsSynOf, SynAckOK, Same, flags
<1>14. ListenerOK(b, listener')
  BY <1>3 DEF IInv, b
<1> QED
  BY <1>3, <1>11, <1>12, <1>13, <1>14, EmptyBagFacts, ForkStepsKeep DEF a, b

LEMMA ProcessListenKeeps ==
  ASSUME IInv, NEW c \in Clients, NEW m \in BagToSet(net), m.client = c,
         ProcessListen(c, m)
  PROVE  IInv'
<1> DEFINE a == config[c]
           b == config[Server]
           l == ReceiveSyn(listener, m)
           s == [l EXCEPT !.state = "SYN_RCVD"]
           t == SendSynAck(s, m)
<1>1. /\ m.opts \in SUBSET Options /\ m.scale \in Shifts /\ m.win \in Nat
      /\ SynOK(a, m) /\ a.ecn \in UseEcn
  BY SegmentFacts, Parts DEF ProcessListen
<1>2. /\ listener' = l /\ fork[c].state = "NONE"
      /\ ForkSteps(c, t, SetToBag({m}))
  BY DEF ProcessListen
<1>3. ListenerOK(b, listener) /\ listener \in Sockets
  BY DEF IInv, ListenerOK
<1> HIDE DEF a, b
<1>4. /\ l \in Sockets /\ l.rWnd = m.win
      /\ l.opts = listener.opts \cap m.opts
      /\ "wscale" \in l.opts => l.sndWindShift = m.scale
      /\ l.state = listener.state /\ l.useEcn = listener.useEcn
      /\ l.buf = listener.buf /\ l.synCount = listener.synCount
      /\ l.retx = listener.retx /\ l.out = listener.out
  BY <1>1, <1>3, ReceiveSynFacts
<1> HIDE DEF l
<1>5. ListenerOK(b, l)
  BY <1>3, <1>4 DEF ListenerOK
<1>6. Answering(a, b, s)
  <2>1. "SYN_RCVD" \in States
    BY DEF States
  <2>2. s \in Sockets
    BY <1>4, <2>1 DEF Sockets
  <2>3. /\ s.state = "SYN_RCVD" /\ s.useEcn = l.useEcn /\ s.buf = l.buf
        /\ s.opts = l.opts /\ s.sndWindShift = l.sndWindShift
        /\ s.rWnd = l.rWnd /\ s.retx = l.retx /\ s.out = l.out
    BY <1>4 DEF Sockets
  <2> HIDE DEF s
  <2> QED
    BY <1>1, <1>4, <1>5, <2>2, <2>3 DEF Answering, ListenerOK, SynOK
<1> HIDE DEF s
<1>7. m.flags = SynFlags(a)
  BY <1>1 DEF SynOK
<1>8. /\ ForkOK(a, b, t) /\ t.state # "NONE"
      /\ \A x \in t.out : x \in Segments /\ SynAckOK(a, b, x, t)
  BY <1>1, <1>6, <1>7, SendSynAckFacts
<1> HIDE DEF t
<1>9. Kept(fork[c], t)
  BY <1>2, <1>8 DEF Kept
<1>10. IsABag(SetToBag({m}))
  BY SetToBagFacts
<1>11. ListenerOK(b, listener')
  BY <1>2, <1>5
<1> QED
  BY <1>2, <1>8, <1>9, <1>10, <1>11, ForkStepsKeep DEF a, b

LEMMA ReceiveSynAgainKeeps ==
  ASSUME IInv, NEW c \in Clients, NEW m \in BagToSet(net), m.client = c,
         ReceiveSynAgain(c, m)
  PROVE  IInv'
<1> DEFINE a == config[c]
           b == config[Server]
           f == fork[c]
           r == ReceiveCwr(f, m)
           s == ReceiveSyn(r, m)
           t == IF s.state = "SYN_RCVD" THEN SendSynAck(s, m) ELSE s
<1>1. /\ m.opts \in SUBSET Options /\ m.scale \in Shifts /\ m.win \in Nat
      /\ SynOK(a, m) /\ a.ecn \in UseEcn
      /\ ForkOK(a, b, f) /\ f \in Sockets /\ f.out = {}
  BY SegmentFacts, Parts DEF ReceiveSynAgain
<1>2. /\ f.state \in {"SYN_RCVD", "ESTABLISHED"} /\ listener' = listener
      /\ ForkSteps(c, t, SetToBag({m}))
  BY DEF ReceiveSynAgain
<1> HIDE DEF a, b, f
<1>3. /\ r \in Sockets /\ r.state = f.state /\ r.useEcn = f.useEcn
      /\ r.opts = f.opts /\ r.buf = f.buf /\ r.rWnd = f.rWnd
      /\ r.rcvWindShift = f.rcvWindShift
      /\ r.sndWindShift = f.sndWindShift
      /\ r.synCount = f.synCount /\ r.retx = f.retx /\ r.out = f.out
      /\ \/ r.ecnState = f.ecnState
         \/ f.state = "ESTABLISHED" /\ r.ecnState = "ECN_IDLE"
  BY <1>1, ReceiveCwrFacts
<1> HIDE DEF r
<1>4. /\ s \in Sockets /\ s.rWnd = m.win
      /\ s.opts = r.opts \cap m.opts
      /\ "wscale" \in s.opts => s.sndWindShift = m.scale
      /\ s.state = r.state /\ s.useEcn = r.useEcn
      /\ s.ecnState = r.ecnState /\ s.buf = r.buf
      /\ s.rcvWindShift = r.rcvWindShift
      /\ s.retx = r.retx /\ s.out = r.out
  BY <1>1, <1>3, ReceiveSynFacts
<1> HIDE DEF s
<1>5. /\ f.opts \subseteq a.opts
      /\ "wscale" \in f.opts => f.rcvWindShift = CalculateWScale(f.buf)
      /\ f.useEcn = b.ecn /\ f.buf = b.buf
      /\ f.retx # {} => f.state = "SYN_RCVD" /\ f.retx = SynAckFlags(a, b)
      /\ \/ f.ecnState = Outcome(a, b)
         \/ f.state = "ESTABLISHED" /\ f.ecnState = "ECN_IDLE"
  BY <1>1, <1>2 DEF ForkOK
<1>6. /\ s.opts = f.opts /\ s.rcvWindShift = f.rcvWindShift
      /\ "wscale" \in s.opts => s.sndWindShift = ShiftOf(a)
      /\ s.rWnd <= a.buf /\ Announced(s) = f.rcvWindShift
  BY <1>1, <1>3, <1>4, <1>5 DEF SynOK, Announced
<1>7. IsABag(SetToBag({m})) /\ ListenerOK(b, listener')
  BY <1>2, SetToBagFacts DEF IInv, b
<1>8. CASE s.state = "SYN_RCVD"
  <2>1. Answering(a, b, s)
    BY <1>1, <1>3, <1>4, <1>5, <1>6, <1>8 DEF Answering
  <2>2. t = SendSynAck(s, m) /\ m.flags = SynFlags(a)
    BY <1>1, <1>8 DEF SynOK
  <2> HIDE DEF t
  <2>3. /\ ForkOK(a, b, t) /\ t.state # "NONE"
        /\ t.opts = s.opts /\ t.rcvWindShift = Announced(s)
        /\ \A x \in t.out : x \in Segments /\ SynAckOK(a, b, x, t)
    BY <1>1, <2>1, <2>2, SendSynAckFacts
  <2>4. Kept(f, t)
    BY <1>6, <2>3 DEF Kept
  <2> QED
    BY <1>2, <1>7, <2>3, <2>4, ForkStepsKeep DEF a, b, f
<1>9. CASE s.state # "SYN_RCVD"
  <2>1. t = s
    BY <1>9
  <2> HIDE DEF t
  <2>2. s.state = "ESTABLISHED"
    BY <1>2, <1>3, <1>4, <1>9
  <2>3. ForkOK(a, b, s)
    BY <1>3, <1>4, <1>5, <1>6, <2>2 DEF ForkOK
  <2>4. Kept(f, s) /\ s.out = {}
    BY <1>1, <1>3, <1>4, <1>6, <2>2 DEF Kept
  <2> QED
    BY <1>2, <1>7, <2>1, <2>3, <2>4, ForkStepsKeep DEF a, b, f
<1> QED
  BY <1>8, <1>9

LEMMA ProcessSynSentKeeps ==
  ASSUME IInv, NEW c \in Clients, NEW m \in BagToSet(net), m.client = c,
         ProcessSynSent(c, m)
  PROVE  IInv'
<1> DEFINE a == config[c]
           b == config[Server]
           k == client[c]
           f == fork[c]
           s == ReceiveSyn(k, m)
           u == [s EXCEPT !.state = "ESTABLISHED", !.retx = {}]
           v == SendEmptyPacket(u, {"ACK"})
           ecn == s.useEcn # "Off" /\ m.flags \cap {"ECE", "CWR"} = {"ECE"}
           w == [v EXCEPT !.ecnState =
                   IF ecn THEN "ECN_IDLE" ELSE "ECN_DISABLED"]
           t == IF s.state = "ESTABLISHED" THEN s ELSE w
<1>1. /\ m.opts \in SUBSET Options /\ m.scale \in Shifts /\ m.win \in Nat
      /\ f.state # "NONE" /\ SynAckOK(a, b, m, f) /\ a.ecn \in UseEcn
      /\ ClientOK(a, b, k) /\ k \in Sockets /\ k.out = {}
      /\ ForkOK(a, b, f) /\ Agreed(a, b, k, f)
  BY SegmentFacts, Parts DEF ProcessSynSent
<1>2. /\ k.state \in {"SYN_SENT", "ESTABLISHED"}
      /\ ClientSteps(c, t, SetToBag({m}))
  BY DEF ProcessSynSent
<1> HIDE DEF a, b, k, f
<1>3. /\ s \in Sockets /\ s.rWnd = m.win
      /\ s.opts = k.opts \cap m.opts
      /\ "wscale" \in s.opts => s.sndWindShift = m.scale
      /\ s.state = k.state /\ s.useEcn = k.useEcn
      /\ s.ecnState = k.ecnState /\ s.buf = k.buf
      /\ s.rcvWindShift = k.rcvWindShift /\ s.synCount = k.synCount
      /\ s.retx = k.retx /\ s.out = k.out
  BY <1>1, ReceiveSynFacts
<1> HIDE DEF s
<1>4. /\ m.opts = f.opts /\ m.scale = f.rcvWindShift /\ m.win <= b.buf
      /\ m.flags = SynAckFlags(a, b) /\ f.opts \subseteq a.opts
  BY <1>1 DEF SynAckOK, ForkOK
<1>5. /\ s.opts = f.opts /\ s.rWnd <= b.buf
      /\ "wscale" \in f.opts => s.sndWindShift = f.rcvWindShift
  <2>1. CASE k.state = "ESTABLISHED"
    BY <1>1, <1>3, <1>4, <2>1 DEF Agreed
  <2>2. CASE k.state # "ESTABLISHED"
    BY <1>1, <1>3, <1>4, <2>2 DEF ClientOK
  <2> QED
    BY <2>1, <2>2
<1>6. /\ s.useEcn = a.ecn /\ s.buf = a.buf /\ s.rcvWindShift = ShiftOf(a)
      /\ s.synCount # SynRetries
      /\ s.retx # {} => s.state = "SYN_SENT" /\ s.retx = SynFlags(a)
  BY <1>1, <1>2, <1>3 DEF ClientOK
<1>7. IsABag(SetToBag({m}))
  BY SetToBagFacts
<1>8. CASE s.state = "ESTABLISHED"
  <2>1. t = s
    BY <1>8
  <2> HIDE DEF t
  <2>2. ClientOK(a, b, s)
    BY <1>3, <1>5, <1>6, <1>8 DEF ClientOK
  <2>3. Agreed(a, b, s, f) /\ s.out = {}
    BY <1>1, <1>3, <1>5, <1>8 DEF Agreed
  <2> QED
    BY <1>2, <1>7, <2>1, <2>2, <2>3, ClientStepsKeep DEF a, b, f
<1>9. CASE s.state # "ESTABLISHED"
  <2>1. t = w
    BY <1>9
  <2>2. /\ u \in Sockets /\ u.state = "ESTABLISHED" /\ u.retx = {}
        /\ u.useEcn = s.useEcn /\ u.buf = s.buf /\ u.opts = s.opts
        /\ u.rcvWindShift = s.rcvWindShift /\ u.rWnd = s.rWnd
        /\ u.sndWindShift = s.sndWindShift /\ u.synCount = s.synCount
    <3>1. "ESTABLISHED" \in States
      BY DEF States
    <3>2. u \in Sockets
      BY <1>3, <3>1 DEF Sockets
    <3> QED
      BY <1>3, <3>2 DEF Sockets
  <2> HIDE DEF u, t
  <2>3. /\ v \in Sockets /\ Same(u, v) /\ v.rcvWindShift = u.rcvWindShift
        /\ v.state = u.state /\ v.synCount = u.synCount
        /\ v.retx = u.retx
        /\ \A x \in v.out : /\ x \in Segments /\ x.flags = {"ACK"}
                            /\ x.win <= u.buf \div 2^u.rcvWindShift
    BY <2>2, SendAckFacts
  <2> HIDE DEF v
  <2>4. ecn <=> BothUseEcn(a, b)
    BY <1>1, <1>4, <1>6 DEF BothUseEcn, SynAckFlags, UseEcn
  <2> HIDE DEF ecn
  <2>5. w = [v EXCEPT !.ecnState = Outcome(a, b)]
    BY <2>4 DEF Outcome
  <2>6. Outcome(a, b) \in {"ECN_DISABLED", "ECN_IDLE"}
    BY DEF Outcome
  <2> HIDE DEF w
  <2>7. w \in Sockets
    BY <2>3, <2>5, <2>6 DEF Sockets
  <2>8. /\ w.state = "ESTABLISHED" /\ w.retx = {} /\ w.useEcn = s.useEcn
        /\ w.buf = s.buf /\ w.opts = s.opts /\ w.rWnd = s.rWnd
        /\ w.rcvWindShift = s.rcvWindShift
        /\ w.sndWindShift = s.sndWindShift /\ w.synCount = s.synCount
        /\ w.ecnState = Outcome(a, b) /\ w.out = v.out
    BY <2>2, <2>3, <2>5 DEF Sockets, Same
  <2>9. ClientOK(a, b, w)
    BY <1>5, <1>6, <2>7, <2>8 DEF ClientOK
  <2>10. Agreed(a, b, w, f)
    BY <1>1, <1>5, <2>8 DEF Agreed
  <2>11. \A x \in w.out : x \in Segments /\ (SynOK(a, x) \/ AckOK(a, x))
    BY <1>6, <2>2, <2>3, <2>8 DEF AckOK
  <2> QED
    BY <1>2, <1>7, <2>1, <2>9, <2>10, <2>11, ClientStepsKeep DEF a, b, f
<1> QED
  BY <1>8, <1>9

LEMMA ProcessSynRcvdKeeps ==
  ASSUME IInv, NEW c \in Clients, NEW m \in BagToSet(net), m.client = c,
         ProcessSynRcvd(c, m)
  PROVE  IInv'
<1> DEFINE a == config[c]
           b == config[Server]
           f == fork[c]
           w == m.win * 2^f.sndWindShift
           s == [f EXCEPT !.rWnd = w, !.state = "ESTABLISHED", !.retx = {}]
           t == IF "ts" \in f.opts /\ "ts" \notin m.opts THEN f
                ELSE [UpdateWindowSize(f, m) EXCEPT !.state = "ESTABLISHED",
                                                    !.retx = {}]
<1>1. /\ m.win \in Nat /\ AckOK(a, m)
      /\ ForkOK(a, b, f) /\ f \in Sockets /\ f.out = {} /\ a.buf \in Nat
  BY SegmentFacts, Parts DEF ProcessSynRcvd
<1>2. /\ f.state = "SYN_RCVD" /\ listener' = listener
      /\ ForkSteps(c, t, SetToBag({m}))
  BY DEF ProcessSynRcvd
<1>3. IsABag(SetToBag({m})) /\ ListenerOK(b, listener')
  BY <1>2, SetToBagFacts DEF IInv
<1> HIDE DEF a, b, f
<1>4. t = f \/ t = s
  BY DEF UpdateWindowSize
<1>5. CASE t = f
  <2>1. Kept(f, f)
    BY <1>2 DEF Kept
  <2> HIDE DEF t
  <2> QED
    BY <1>1, <1>2, <1>3, <1>5, <2>1, ForkStepsKeep DEF a, b, f
<1>6. CASE t = s
  <2>1. f.sndWindShift \in Shifts
    BY <1>1 DEF Sockets
  <2>2. w \in Nat
    <3> DEFINE d == 2^f.sndWindShift
    <3>1. d \in Nat
      BY <2>1, Powers
    <3> HIDE DEF d
    <3>2. m.win * d \in Nat
      BY <1>1, <3>1
    <3> QED
      BY <3>2 DEF d
  <2>3. "wscale" \in f.opts => w <= a.buf
    <3> SUFFICES ASSUME "wscale" \in f.opts PROVE w <= a.buf
      OBVIOUS
    <3>1. f.sndWindShift = ShiftOf(a)
      BY <1>1, <1>2 DEF ForkOK
    <3>2. m.win <= a.buf \div 2^f.sndWindShift
      BY <1>1, <3>1 DEF AckOK
    <3> QED
      BY <1>1, <2>1, <3>2, ShiftBack
  <2> HIDE DEF w, t
  <2>4. "ESTABLISHED" \in States
    BY DEF States
  <2>5. s \in Sockets
    BY <1>1, <2>2, <2>4 DEF Sockets
  <2>6. /\ s.state = "ESTABLISHED" /\ s.retx = {} /\ s.rWnd = w
        /\ s.useEcn = f.useEcn /\ s.buf = f.buf /\ s.opts = f.opts
        /\ s.rcvWindShift = f.rcvWindShift
        /\ s.sndWindShift = f.sndWindShift
        /\ s.ecnState = f.ecnState /\ s.out = {}
    BY <1>1 DEF Sockets
  <2> HIDE DEF s
  <2>7. ForkOK(a, b, s)
    BY <1>1, <1>2, <2>3, <2>5, <2>6 DEF ForkOK
  <2>8. Kept(f, s)
    BY <2>6 DEF Kept
  <2> QED
    BY <1>2, <1>3, <1>6, <2>6, <2>7, <2>8, ForkStepsKeep DEF a, b, f
<1> QED
  BY <1>4, <1>5, <1>6

-----------------------------------------------------------------------------
(* The theorems.                                                           *)

LEMMA InitEstablishes == Init => IInv
<1> SUFFICES ASSUME Init PROVE IInv
  OBVIOUS
<1>1. config \in [Clients \cup {Server} -> Configs]
  BY NegotiationAssumption DEF Init
<1>2. ASSUME NEW a \in Configs,
             NEW state \in {"CLOSED", "LISTEN", "NONE"}
      PROVE  LET s == Socket(a, state)
             IN /\ s \in Sockets /\ s.state = state /\ s.out = {}
                /\ s.useEcn = a.ecn /\ s.buf = a.buf /\ s.opts = a.opts
                /\ s.retx = {} /\ s.rWnd = 0 /\ s.rcvWindShift = 0
                /\ s.synCount = SynRetries
  <2>1. /\ state \in States /\ 0 \in Shifts /\ SynRetries \in 0..SynRetries
        /\ a.ecn \in UseEcn /\ a.opts \in SUBSET Options /\ a.buf \in Nat
    BY <1>2, NegotiationAssumption DEF States, Shifts, Configs
  <2> QED
    BY <2>1 DEF Socket, Sockets
<1>3. ASSUME NEW c \in Clients
      PROVE  /\ client[c] \in Sockets /\ fork[c] \in Sockets
             /\ ClientOK(config[c], config[Server], client[c])
             /\ ForkOK(config[c], config[Server], fork[c])
             /\ Agreed(config[c], config[Server], client[c], fork[c])
             /\ client[c].out = {} /\ fork[c].out = {}
  <2>1. /\ client[c] = Socket(config[c], "CLOSED")
        /\ fork[c] = Socket(config[Server], "NONE")
        /\ config[c] \in Configs /\ config[Server] \in Configs
    BY <1>1 DEF Init
  <2> DEFINE a == config[c]
             b == config[Server]
             s == client[c]
             f == fork[c]
  <2>2. /\ s \in Sockets /\ s.state = "CLOSED" /\ s.out = {}
        /\ s.useEcn = a.ecn /\ s.buf = a.buf /\ s.opts = a.opts
        /\ s.retx = {} /\ s.rWnd = 0 /\ s.rcvWindShift = 0
        /\ b.buf \in Nat
    BY <1>2, <2>1 DEF Configs
  <2>3. /\ f \in Sockets /\ f.state = "NONE" /\ f.out = {}
        /\ f.useEcn = b.ecn /\ f.buf = b.buf
        /\ f.retx = {} /\ f.rWnd = 0
    BY <1>2, <2>1
  <2> HIDE DEF a, b, s, f
  <2>4. ClientOK(a, b, s)
    BY <2>2 DEF ClientOK
  <2>5. ForkOK(a, b, f)
    BY <2>3 DEF ForkOK
  <2>6. Agreed(a, b, s, f)
    BY <2>2 DEF Agreed
  <2> QED
    BY <2>2, <2>3, <2>4, <2>5, <2>6 DEF a, b, s, f
<1>4. ListenerOK(config[Server], listener)
  <2>1. config[Server] \in Configs /\ listener = Socket(config[Server], "LISTEN")
    BY <1>1 DEF Init
  <2> QED
    BY <1>2, <2>1 DEF ListenerOK
<1>5. IsABag(net) /\ BagToSet(net) = {}
  BY EmptyBagFacts DEF Init
<1>6. client \in [Clients -> Sockets] /\ fork \in [Clients -> Sockets]
  BY <1>3 DEF Init
<1> QED
  BY <1>1, <1>3, <1>4, <1>5, <1>6 DEF IInv

LEMMA NextKeeps == IInv /\ [Next]_vars => IInv'
<1> SUFFICES ASSUME IInv, [Next]_vars PROVE IInv'
  OBVIOUS
<1>1. ASSUME NEW c \in Clients, Receive(c) PROVE IInv'
  <2>1. PICK m \in BagToSet(net) :
          /\ m.client = c
          /\ \/ ProcessListen(c, m) \/ ReceiveSynAgain(c, m)
             \/ ProcessSynSent(c, m) \/ ProcessSynRcvd(c, m)
    BY <1>1 DEF Receive
  <2> QED
    BY <2>1, ProcessListenKeeps, ReceiveSynAgainKeeps, ProcessSynSentKeeps,
       ProcessSynRcvdKeeps
<1>2. ASSUME NEW c \in Clients,
             Connect(c) \/ RetransmitSyn(c) \/ RetransmitSynAck(c)
      PROVE  IInv'
  BY <1>2, ConnectKeeps, RetransmitSynKeeps, RetransmitSynAckKeeps
<1>3. CASE UNCHANGED vars
  BY <1>3 DEF vars, IInv
<1> QED
  BY <1>1, <1>2, <1>3 DEF Next

\* The invariant the results below rest on: every segment in flight says what
\* its sender's attributes settle, and each fork what its client's SYN said.
THEOREM Inductive == Spec => []IInv
BY InitEstablishes, NextKeeps, PTL DEF Spec

LEMMA IInvTypes == IInv => TypeOK
<1>1. ASSUME NEW s \in Sockets, s.out = {} PROVE SocketOK(s)
  BY <1>1 DEF Sockets, SocketOK
<1> QED
  BY <1>1 DEF IInv, ListenerOK, TypeOK

\* The fields of every socket hold what the code's types allow, whatever is
\* lost, repeated or given up.
THEOREM TypeCorrect == Spec => []TypeOK
BY Inductive, IInvTypes, PTL

\* A client that got through the handshake and the socket forked for it have
\* the same options and the same shifts, whatever the listener has read from
\* other clients and however often SYN and SYN+ACK are repeated
\* (ProcessOptionWScale 3674, AddOptionWScale 3715).
THEOREM OptionsAlwaysAgree == Spec => []OptionsAgree
<1>1. ASSUME IInv PROVE OptionsAgree
  <2>1. ASSUME NEW c \in Clients, client[c].state = "ESTABLISHED"
        PROVE  /\ client[c].opts = fork[c].opts
               /\ "wscale" \in client[c].opts =>
                    /\ client[c].sndWindShift = fork[c].rcvWindShift
                    /\ fork[c].sndWindShift = client[c].rcvWindShift
    <3>1. /\ ClientOK(config[c], config[Server], client[c])
          /\ ForkOK(config[c], config[Server], fork[c])
          /\ Agreed(config[c], config[Server], client[c], fork[c])
      BY <1>1, Parts
    <3> QED
      BY <2>1, <3>1 DEF ClientOK, ForkOK, Agreed
  <2> QED
    BY <2>1 DEF OptionsAgree
<1> QED
  BY <1>1, Inductive, PTL

\* A client uses ECN only if it asked for it and its peer uses it, and until
\* the handshake is over both ends mean the same by it (CompleteFork 2608,
\* ProcessSynSent 1977).
THEOREM EcnAlwaysMutual == Spec => []EcnIsMutual
<1>1. ASSUME IInv PROVE EcnIsMutual
  <2>1. ASSUME NEW c \in Clients, client[c].state = "ESTABLISHED"
        PROVE  /\ client[c].ecnState = "ECN_IDLE" =>
                    config[c].ecn = "On" /\ fork[c].ecnState = "ECN_IDLE"
               /\ fork[c].state = "SYN_RCVD" =>
                    client[c].ecnState = fork[c].ecnState
    <3>1. /\ ForkOK(config[c], config[Server], fork[c])
          /\ Agreed(config[c], config[Server], client[c], fork[c])
      BY <1>1, Parts
    <3> QED
      BY <2>1, <3>1 DEF ForkOK, Agreed, Outcome, BothUseEcn
  <2> QED
    BY <2>1 DEF EcnIsMutual
<1> QED
  BY <1>1, Inductive, PTL

\* No client, and where scaling is agreed no forked socket, takes the window of
\* the other end for larger than its buffer, for any buffer and shift
\* (AdvertisedWindowSize 3062, UpdateWindowSize 3826).
THEOREM WindowNeverOverstated == Spec => []WindowNotOverstated
<1>1. ASSUME IInv PROVE WindowNotOverstated
  <2>1. ASSUME NEW c \in Clients
        PROVE  /\ client[c].rWnd <= config[Server].buf
               /\ "wscale" \in fork[c].opts => fork[c].rWnd <= config[c].buf
    <3>1. /\ ClientOK(config[c], config[Server], client[c])
          /\ ForkOK(config[c], config[Server], fork[c])
          /\ config[c].buf \in Nat
      BY <1>1, Parts
    <3> QED
      BY <3>1 DEF ClientOK, ForkOK
  <2> QED
    BY <2>1 DEF WindowNotOverstated
<1> QED
  BY <1>1, Inductive, PTL
=============================================================================

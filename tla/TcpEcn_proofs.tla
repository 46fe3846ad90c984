---------------------------- MODULE TcpEcn_proofs ----------------------------
(***************************************************************************)
(* ECN for any amount of data, any number of marks and timeouts and any    *)
(* capacity of the network: the two ends never disagree about what was     *)
(* sent, every CWR flag is backed by a reduction, and the window is        *)
(* reduced once per window.                                                *)
(***************************************************************************)
EXTENDS TcpEcn, FiniteSetTheorems, TLAPS

-----------------------------------------------------------------------------
(* The inductive invariant.                                                *)

Sendings == [seq : Nat, len : {0, 1}, ack : Nat, ece : BOOLEAN, cwr : BOOLEAN]

Socks ==
  [ecnState : EcnStates, ecnCESeq : Nat, ecnEchoSeq : Nat, ecnCWRSeq : Nat,
   congState : CongStates, recover : Nat, head : Nat, highTx : Nat,
   nextRx : Nat, stored : SUBSET Nat, delAck : BOOLEAN, pending : BOOLEAN,
   cuts : Nat, cwrs : Nat, cutAt : Nat, out : SUBSET Sendings]

\* m may be sent by an end that is about to send highTx and expects nextRx.
Sendable(m, highTx, nextRx) ==
  /\ 1 <= m.seq /\ m.seq + m.len <= highTx
  /\ 1 <= m.ack /\ m.ack <= nextRx

\* A socket with so much data, whose peer has sent all before high.
Sane(s, data, high) ==
  /\ s \in Socks
  /\ 1 <= s.head /\ s.head <= s.highTx /\ s.highTx <= data + 1
  /\ s.recover <= s.highTx /\ s.ecnEchoSeq <= s.head
  /\ s.ecnCWRSeq <= s.highTx /\ s.cutAt <= s.highTx
  /\ 1 <= s.nextRx /\ s.nextRx <= high /\ s.ecnCESeq <= high
  /\ \A n \in s.stored : s.nextRx < n /\ n < high
  /\ \A m \in s.out : Sendable(m, s.highTx, s.nextRx)

\* A reduction is left over for an echo that a CWR flag may still answer, and
\* in CWR for the echoes of the window that was reduced.
Backed(s) ==
  /\ s.cwrs <= s.cuts
  /\ s.ecnEchoSeq > s.ecnCWRSeq => s.cwrs < s.cuts
  /\ s.congState = "CWR" => s.ecnCWRSeq >= s.recover \/ s.cwrs < s.cuts

\* Only what was out at the last reduction is waited for.
Once(s) ==
  /\ s.congState = "CWR" => s.recover = s.cutAt
  /\ s.congState = "LOSS" => s.recover >= s.cutAt
  /\ s.congState \in {"OPEN", "RECOVERY"} => s.head >= s.cutAt

Good(s, data, high) == Sane(s, data, high) /\ Backed(s) /\ Once(s)

Messages == [to : Hosts, seq : Nat, len : {0, 1}, ack : Nat, ece : BOOLEAN,
             cwr : BOOLEAN]

NetOK ==
  /\ IsABag(net)
  /\ \A m \in BagToSet(net) :
       /\ m \in Messages
       /\ Sendable(m, sock[Peer(m.to)].highTx, sock[Peer(m.to)].nextRx)

IInv ==
  /\ sock \in [Hosts -> Socks]
  /\ \A h \in Hosts : /\ Good(sock[h], Data[h], sock[Peer(h)].highTx)
                      /\ sock[h].out = {}
  /\ NetOK
  /\ marks \in 0 .. MaxMarks /\ rtos \in 0 .. MaxRtos

-----------------------------------------------------------------------------
(* The two ends.                                                           *)

LEMMA Bounds ==
  /\ MaxMarks \in Nat /\ MaxRtos \in Nat
  /\ \A h \in Hosts : Data[h] \in Nat
BY EcnAssumption

LEMMA Peers ==
  ASSUME NEW h \in Hosts
  PROVE  /\ Peer(h) \in Hosts /\ Peer(h) # h /\ Peer(Peer(h)) = h
         /\ Hosts = {h, Peer(h)}
<1>1. IsFiniteSet(Hosts \ {h}) /\ Cardinality(Hosts \ {h}) = 1
  BY EcnAssumption, FS_RemoveElement
<1>2. PICK p : Hosts \ {h} = {p}
  BY <1>1, FS_Singleton
<1>3. p \in Hosts /\ p # h /\ Hosts = {h, p}
  BY <1>2
<1>4. Peer(h) = p
  BY <1>3 DEF Peer
<1>5. Peer(p) = h
  BY <1>3 DEF Peer
<1> QED
  BY <1>3, <1>4, <1>5

\* The types a handler looks at.
LEMMA SaneTypes ==
  ASSUME NEW s, NEW data \in Nat, NEW high \in Nat, Sane(s, data, high)
  PROVE  /\ s \in Socks
         /\ s.head \in Nat /\ s.highTx \in Nat /\ s.nextRx \in Nat
         /\ s.recover \in Nat /\ s.ecnEchoSeq \in Nat /\ s.ecnCWRSeq \in Nat
         /\ s.ecnCESeq \in Nat /\ s.cutAt \in Nat
         /\ s.cuts \in Nat /\ s.cwrs \in Nat /\ s.stored \in SUBSET Nat
         /\ s.congState \in CongStates /\ s.ecnState \in EcnStates
         /\ s.delAck \in BOOLEAN
         /\ \A m \in s.out : m \in Sendings
         /\ 1 <= s.head /\ s.head <= s.highTx /\ s.highTx <= data + 1
         /\ s.recover <= s.highTx /\ s.ecnEchoSeq <= s.head
         /\ s.ecnCWRSeq <= s.highTx /\ s.cutAt <= s.highTx
         /\ 1 <= s.nextRx /\ s.nextRx <= high /\ s.ecnCESeq <= high
BY DEF Sane, Socks

\* What the sender remembers of its window and of its reductions.
SameSender(s, t) ==
  /\ t.congState = s.congState /\ t.recover = s.recover
  /\ t.head = s.head /\ t.cuts = s.cuts /\ t.cutAt = s.cutAt

\* What the receiver remembers.
SameReceiver(s, t) ==
  /\ t.nextRx = s.nextRx /\ t.stored = s.stored /\ t.ecnCESeq = s.ecnCESeq

\* Nothing is taken back.
Later(s, t) ==
  s.head <= t.head /\ s.highTx <= t.highTx /\ s.nextRx <= t.nextRx

-----------------------------------------------------------------------------
(* Sending.                                                                *)

\* t is s after it has handed m to the network.
Sent(s, m, t) == t = [s EXCEPT !.delAck = FALSE, !.out = s.out \cup {m}]

LEMMA SendFacts ==
  ASSUME NEW s \in Socks, NEW m \in Sendings,
         NEW t, Sent(s, m, t)
  PROVE  /\ t \in Socks /\ t.out = s.out \cup {m}
         /\ SameSender(s, t) /\ SameReceiver(s, t)
         /\ t.highTx = s.highTx /\ t.ecnEchoSeq = s.ecnEchoSeq
         /\ t.ecnCWRSeq = s.ecnCWRSeq /\ t.cwrs = s.cwrs
<1>1. s.out \cup {m} \in SUBSET Sendings
  BY DEF Socks
<1>2. t \in Socks
  BY <1>1 DEF Sent, Socks
<1>3. /\ t.out = s.out \cup {m}
      /\ SameSender(s, t) /\ SameReceiver(s, t)
      /\ t.highTx = s.highTx /\ t.ecnEchoSeq = s.ecnEchoSeq
      /\ t.ecnCWRSeq = s.ecnCWRSeq /\ t.cwrs = s.cwrs
  BY DEF Sent, Socks, SameSender, SameReceiver
<1> QED
  BY <1>2, <1>3

\* A segment that repeats what was sent disturbs nothing.
LEMMA SendGood ==
  ASSUME NEW s, NEW data \in Nat, NEW high \in Nat, Good(s, data, high),
         NEW m \in Sendings, Sendable(m, s.highTx, s.nextRx),
         NEW t, Sent(s, m, t)
  PROVE  /\ Good(t, data, high) /\ SameSender(s, t) /\ SameReceiver(s, t)
         /\ t.highTx = s.highTx
<1>1. Sane(s, data, high) /\ Backed(s) /\ Once(s) /\ s \in Socks
  BY DEF Good, Sane
<1>2. /\ t \in Socks /\ t.out = s.out \cup {m}
      /\ SameSender(s, t) /\ SameReceiver(s, t)
      /\ t.highTx = s.highTx /\ t.ecnEchoSeq = s.ecnEchoSeq
      /\ t.ecnCWRSeq = s.ecnCWRSeq /\ t.cwrs = s.cwrs
  BY <1>1, SendFacts
<1>3. Sane(t, data, high)
  BY <1>1, <1>2 DEF Sane, SameSender, SameReceiver
<1>4. Backed(t) /\ Once(t)
  BY <1>1, <1>2 DEF Backed, Once, SameSender
<1> QED
  BY <1>2, <1>3, <1>4 DEF Good

\* t is s after a pure acknowledgement, with an echo or without.
PureAck(s, t) == \E ece \in BOOLEAN : t = Send(s, s.highTx, 0, ece, FALSE)

LEMMA AckGood ==
  ASSUME NEW s, NEW data \in Nat, NEW high \in Nat, Good(s, data, high),
         NEW t, PureAck(s, t)
  PROVE  /\ Good(t, data, high) /\ SameSender(s, t) /\ SameReceiver(s, t)
         /\ t.highTx = s.highTx
<1>1. s.highTx \in Nat /\ s.nextRx \in Nat /\ 1 <= s.highTx /\ 1 <= s.nextRx
  BY SaneTypes DEF Good
<1>2. PICK m \in Sendings :
        /\ m.seq = s.highTx /\ m.len = 0 /\ m.ack = s.nextRx
        /\ Sent(s, m, t)
  BY <1>1 DEF PureAck, Sent, Send, Sendings
<1>3. Sendable(m, s.highTx, s.nextRx)
  BY <1>1, <1>2 DEF Sendable
<1> QED
  BY <1>2, <1>3, SendGood

\* The ECN state itself may change at will.
LEMMA StateChangeGood ==
  ASSUME NEW s, NEW data \in Nat, NEW high \in Nat, Good(s, data, high),
         NEW state \in EcnStates
  PROVE  LET t == [s EXCEPT !.ecnState = state]
         IN /\ Good(t, data, high) /\ SameSender(s, t) /\ SameReceiver(s, t)
            /\ t.highTx = s.highTx
<1> DEFINE t == [s EXCEPT !.ecnState = state]
<1>1. Sane(s, data, high) /\ Backed(s) /\ Once(s) /\ s \in Socks
  BY DEF Good, Sane
<1>2. /\ t \in Socks /\ SameSender(s, t) /\ SameReceiver(s, t)
      /\ t.highTx = s.highTx /\ t.ecnEchoSeq = s.ecnEchoSeq
      /\ t.ecnCWRSeq = s.ecnCWRSeq /\ t.cwrs = s.cwrs /\ t.out = s.out
  BY <1>1 DEF Socks, SameSender, SameReceiver
<1> HIDE DEF t
<1>3. Sane(t, data, high)
  BY <1>1, <1>2 DEF Sane, SameSender, SameReceiver
<1>4. Backed(t) /\ Once(t)
  BY <1>1, <1>2 DEF Backed, Once, SameSender
<1> QED
  BY <1>2, <1>3, <1>4 DEF Good, t

LEMMA SendAckFacts ==
  ASSUME NEW s, NEW data \in Nat, NEW high \in Nat, Good(s, data, high)
  PROVE  LET t == SendAck(s)
         IN /\ Good(t, data, high) /\ SameSender(s, t) /\ SameReceiver(s, t)
            /\ t.highTx = s.highTx
<1> DEFINE u == Send(s, s.highTx, 0, TRUE, FALSE)
<1>1. CASE s.ecnState \in {"CE_RCVD", "SENDING_ECE"}
  <2>1. Good(u, data, high) /\ SameSender(s, u) /\ SameReceiver(s, u)
        /\ u.highTx = s.highTx
    BY AckGood DEF PureAck
  <2>2. SendAck(s) = [u EXCEPT !.ecnState = "SENDING_ECE"]
    BY <1>1 DEF SendAck
  <2> HIDE DEF u
  <2>3. "SENDING_ECE" \in EcnStates
    BY DEF EcnStates
  <2> QED
    BY <2>1, <2>2, <2>3, StateChangeGood DEF SameSender, SameReceiver
<1>2. CASE s.ecnState \notin {"CE_RCVD", "SENDING_ECE"}
  <2>1. SendAck(s) = Send(s, s.highTx, 0, FALSE, FALSE)
    BY <1>2 DEF SendAck
  <2> QED
    BY <2>1, AckGood DEF PureAck
<1> QED
  BY <1>1, <1>2

\* A segment of data, new or again: CWR takes the reduction that backs it.
LEMMA SendDataPacketFacts ==
  ASSUME NEW s, NEW data \in Nat, NEW high \in Nat, Good(s, data, high),
         NEW seq \in Nat, s.head <= seq, seq <= s.highTx, seq <= data
  PROVE  LET t == SendDataPacket(s, seq)
         IN /\ Good(t, data, high) /\ SameSender(s, t) /\ SameReceiver(s, t)
            /\ t.highTx = IF seq = s.highTx THEN seq + 1 ELSE s.highTx
<1> DEFINE cwr == CwrDue(s, seq)
           w == IF cwr THEN [s EXCEPT !.ecnState = "CWR_SENT",
                                      !.ecnCWRSeq = seq, !.cwrs = @ + 1]
                ELSE s
           m == [seq |-> seq, len |-> 1, ack |-> w.nextRx, ece |-> FALSE,
                 cwr |-> cwr]
           u == Send(w, seq, 1, FALSE, cwr)
           h == IF seq = s.highTx THEN seq + 1 ELSE s.highTx
           t == SendDataPacket(s, seq)
<1>1. Sane(s, data, high) /\ Backed(s) /\ Once(s)
  BY DEF Good
<1>2. /\ s \in Socks /\ s.highTx \in Nat /\ s.nextRx \in Nat
      /\ s.head \in Nat /\ 1 <= s.head /\ s.head <= s.highTx
      /\ s.highTx <= data + 1 /\ 1 <= s.nextRx
      /\ s.recover \in Nat /\ s.recover <= s.highTx
      /\ s.ecnEchoSeq \in Nat /\ s.ecnEchoSeq <= s.head
      /\ s.ecnCWRSeq \in Nat /\ s.ecnCWRSeq <= s.highTx
      /\ s.cwrs \in Nat /\ s.cuts \in Nat
      /\ s.cutAt \in Nat /\ s.cutAt <= s.highTx
  BY <1>1, SaneTypes
<1>3. /\ cwr \in BOOLEAN
      /\ cwr => s.ecnEchoSeq > s.ecnCWRSeq /\ seq = s.highTx
  BY <1>2 DEF CwrDue
<1>4. t = [u EXCEPT !.highTx = IF seq >= @ THEN seq + 1 ELSE @]
  BY DEF SendDataPacket
<1> HIDE DEF cwr, t
<1>5. /\ w \in Socks /\ SameSender(s, w) /\ SameReceiver(s, w)
      /\ w.highTx = s.highTx /\ w.ecnEchoSeq = s.ecnEchoSeq
      /\ w.out = s.out
      /\ cwr => w.ecnCWRSeq = seq /\ w.cwrs = s.cwrs + 1
      /\ ~cwr => w.ecnCWRSeq = s.ecnCWRSeq /\ w.cwrs = s.cwrs
  <2>1. CASE cwr
    <3>1. "CWR_SENT" \in EcnStates /\ s.cwrs + 1 \in Nat
      BY <1>2 DEF EcnStates
    <3>2. w = [s EXCEPT !.ecnState = "CWR_SENT", !.ecnCWRSeq = seq,
                        !.cwrs = s.cwrs + 1]
      BY <2>1
    <3> HIDE DEF w
    <3>3. w \in Socks
      BY <1>2, <3>1, <3>2 DEF Socks
    <3> QED
      BY <1>2, <2>1, <3>2, <3>3 DEF Socks, SameSender, SameReceiver
  <2>2. CASE ~cwr
    BY <1>2, <2>2 DEF SameSender, SameReceiver
  <2> QED
    BY <2>1, <2>2
<1> HIDE DEF w
<1>6. /\ u \in Socks /\ m \in Sendings /\ u.out = w.out \cup {m}
      /\ SameSender(w, u) /\ SameReceiver(w, u)
      /\ u.highTx = w.highTx /\ u.ecnEchoSeq = w.ecnEchoSeq
      /\ u.ecnCWRSeq = w.ecnCWRSeq /\ u.cwrs = w.cwrs
  <2>1. Sent(w, m, u)
    BY DEF Sent, Send
  <2>2. m \in Sendings
    BY <1>2, <1>3, <1>5 DEF Sendings, SameReceiver
  <2> HIDE DEF u, m
  <2>3. w \in Socks
    BY <1>5
  <2> QED
    BY <2>1, <2>2, <2>3, SendFacts
<1>7. /\ m.seq = seq /\ m.len = 1 /\ m.ack = s.nextRx
  BY <1>5 DEF SameReceiver
<1> HIDE DEF u, m
<1>8. h \in Nat /\ s.highTx <= h /\ h <= data + 1 /\ seq + 1 <= h
  BY <1>2
<1>9. t = [u EXCEPT !.highTx = h]
  BY <1>2, <1>4, <1>5, <1>6
<1> HIDE DEF h
<1>10. /\ t \in Socks /\ t.highTx = h
       /\ SameSender(s, t) /\ SameReceiver(s, t)
       /\ t.ecnEchoSeq = s.ecnEchoSeq /\ t.out = s.out \cup {m}
       /\ t.ecnCWRSeq = w.ecnCWRSeq /\ t.cwrs = w.cwrs
  BY <1>5, <1>6, <1>8, <1>9 DEF Socks, SameSender, SameReceiver
<1>11. \A x \in t.out : Sendable(x, h, s.nextRx)
  <2>1. Sendable(m, h, s.nextRx)
    BY <1>2, <1>7, <1>8 DEF Sendable
  <2>2. ASSUME NEW x \in s.out PROVE Sendable(x, h, s.nextRx)
    <3>1. x.seq \in Nat /\ x.len \in {0, 1} /\ Sendable(x, s.highTx, s.nextRx)
      BY <1>1, <1>2 DEF Sane, Socks, Sendings
    <3> QED
      BY <1>2, <1>8, <3>1 DEF Sendable
  <2> QED
    BY <1>10, <2>1, <2>2
<1>12. t.ecnCWRSeq \in Nat /\ t.ecnCWRSeq <= h
  BY <1>2, <1>3, <1>5, <1>8, <1>10
<1>13. Sane(t, data, high)
  <2>1. s.recover <= h /\ s.cutAt <= h /\ s.head <= h
    BY <1>2, <1>8
  <2> QED
    BY <1>1, <1>8, <1>10, <1>11, <1>12, <2>1
       DEF Sane, SameSender, SameReceiver
<1>14. Backed(t)
  <2>1. CASE cwr
    BY <1>1, <1>2, <1>3, <1>5, <1>10, <2>1 DEF Backed, SameSender
  <2>2. CASE ~cwr
    BY <1>1, <1>5, <1>10, <2>2 DEF Backed, SameSender
  <2> QED
    BY <2>1, <2>2
<1>15. Once(t)
  BY <1>1, <1>10 DEF Once, SameSender
<1> QED
  BY <1>10, <1>13, <1>14, <1>15 DEF Good, t, h

\* The new segments of a handler, n of them.
LEMMA SendNewFacts ==
  ASSUME NEW s, NEW data \in Nat, NEW high \in Nat, Good(s, data, high),
         NEW n \in Nat, s.highTx + n <= data + 1
  PROVE  LET t == SendNew(s, n)
         IN /\ Good(t, data, high) /\ SameSender(s, t) /\ SameReceiver(s, t)
            /\ s.highTx <= t.highTx
<1>1. /\ Sane(s, data, high) /\ s.highTx \in Nat /\ s.head \in Nat
      /\ s.head <= s.highTx /\ s.nextRx \in Nat /\ 1 <= s.nextRx
      /\ 1 <= s.highTx
  BY SaneTypes DEF Good
<1>2. CASE n = 0
  BY <1>1, <1>2 DEF SendNew, SameSender, SameReceiver
<1>3. CASE n # 0
  <2> DEFINE a == SendDataPacket(s, s.highTx)
             h == s.highTx + n
             new == [seq : s.highTx + 1 .. s.highTx + n - 1, len : {1},
                     ack : {s.nextRx}, ece : {FALSE}, cwr : {FALSE}]
             t == [a EXCEPT !.highTx = h, !.out = @ \cup new]
  <2>1. SendNew(s, n) = t
    BY <1>3 DEF SendNew
  <2>2. /\ Good(a, data, high) /\ SameSender(s, a) /\ SameReceiver(s, a)
        /\ a.highTx = s.highTx + 1
    <3>1. s.highTx <= s.highTx /\ s.highTx <= data
      BY <1>1, <1>3
    <3> QED
      BY <1>1, <3>1, SendDataPacketFacts
  <2> HIDE DEF a
  <2>3. /\ Sane(a, data, high) /\ Backed(a) /\ Once(a) /\ a \in Socks
        /\ a.recover \in Nat /\ a.recover <= a.highTx /\ a.cutAt \in Nat
        /\ a.cutAt <= a.highTx /\ a.ecnCWRSeq \in Nat /\ a.head \in Nat
        /\ a.ecnCWRSeq <= a.highTx /\ a.head <= a.highTx
        /\ a.out \in SUBSET Sendings
    BY <2>2, SaneTypes DEF Good, Socks
  <2>4. h \in Nat /\ a.highTx <= h /\ h <= data + 1
    BY <1>1, <1>3, <2>2
  <2>5. \A m \in new : m \in Sendings /\ Sendable(m, h, s.nextRx)
    <3> SUFFICES ASSUME NEW m \in new
                 PROVE  m \in Sendings /\ Sendable(m, h, s.nextRx)
      OBVIOUS
    <3>1. PICK q \in s.highTx + 1 .. s.highTx + n - 1 :
            m = [seq |-> q, len |-> 1, ack |-> s.nextRx, ece |-> FALSE,
                 cwr |-> FALSE]
      OBVIOUS
    <3>2. q \in Nat /\ q + 1 <= h /\ 1 <= q
      BY <1>1
    <3> HIDE DEF h
    <3>3. m \in Sendings
      BY <1>1, <3>1, <3>2 DEF Sendings
    <3>4. m.seq = q /\ m.len = 1 /\ m.ack = s.nextRx
      BY <3>1
    <3> QED
      BY <1>1, <3>2, <3>3, <3>4 DEF Sendable
  <2> HIDE DEF new
  <2>6. a.out \cup new \in SUBSET Sendings
    BY <2>3, <2>5
  <2> HIDE DEF h
  <2>7. /\ t \in Socks /\ t.highTx = h /\ t.out = a.out \cup new
        /\ SameSender(a, t) /\ SameReceiver(a, t)
        /\ t.ecnEchoSeq = a.ecnEchoSeq /\ t.ecnCWRSeq = a.ecnCWRSeq
        /\ t.cwrs = a.cwrs
    <3>1. t \in Socks
      BY <2>3, <2>4, <2>6 DEF Socks
    <3> QED
      BY <2>3, <3>1 DEF Socks, SameSender, SameReceiver
  <2> HIDE DEF t
  <2>8. \A m \in t.out : Sendable(m, h, s.nextRx)
    <3>1. ASSUME NEW m \in a.out PROVE Sendable(m, h, s.nextRx)
      <4>1. m.seq \in Nat /\ m.len \in {0, 1} /\ Sendable(m, a.highTx, a.nextRx)
        BY <2>3 DEF Sane, Sendings
      <4> QED
        BY <1>1, <2>2, <2>4, <4>1 DEF Sendable, SameReceiver
    <3> QED
      BY <2>5, <2>7, <3>1
  <2>9. Sane(t, data, high)
    <3>1. a.recover <= h /\ a.cutAt <= h /\ a.head <= h /\ a.ecnCWRSeq <= h
      BY <1>1, <2>2, <2>3, <2>4
    <3> QED
      BY <2>2, <2>3, <2>4, <2>7, <2>8, <3>1 DEF Sane, SameSender, SameReceiver
  <2>10. Backed(t) /\ Once(t)
    BY <2>3, <2>7 DEF Backed, Once, SameSender
  <2>11. s.highTx <= h
    BY <1>1, <2>2, <2>4
  <2> QED
    BY <2>1, <2>2, <2>7, <2>9, <2>10, <2>11
       DEF Good, SameSender, SameReceiver
<1> QED
  BY <1>2, <1>3

\* What ends every acknowledgement: a repetition, if any, and what is new.
LEMMA SendPendingDataFacts ==
  ASSUME NEW s, NEW data \in Nat, NEW high \in Nat, Good(s, data, high),
         NEW lost, NEW k \in Nat
  PROVE  LET t == SendPendingData(s, lost, k, data)
         IN /\ Good(t, data, high) /\ SameSender(s, t) /\ SameReceiver(s, t)
            /\ s.highTx <= t.highTx
<1> DEFINE a == IF lost \in s.head .. s.highTx - 1
                THEN SendDataPacket(s, lost) ELSE s
           left == data + 1 - s.highTx
           new == IF s.head = s.highTx /\ k = 0 THEN 1 ELSE k
           n == IF new < left THEN new ELSE left
<1>1. /\ Sane(s, data, high) /\ s.highTx \in Nat /\ s.head \in Nat
      /\ s.head <= s.highTx /\ s.highTx <= data + 1
  BY SaneTypes DEF Good
<1>2. SendPendingData(s, lost, k, data) = SendNew(a, n)
  BY DEF SendPendingData
<1>3. /\ Good(a, data, high) /\ SameSender(s, a) /\ SameReceiver(s, a)
      /\ a.highTx = s.highTx
  <2>1. CASE lost \in s.head .. s.highTx - 1
    <3>1. lost \in Nat /\ s.head <= lost /\ lost <= s.highTx /\ lost <= data
          /\ lost # s.highTx
      BY <1>1, <2>1
    <3> QED
      BY <2>1, <3>1, SendDataPacketFacts
  <2>2. CASE lost \notin s.head .. s.highTx - 1
    BY <1>1, <2>2 DEF SameSender, SameReceiver
  <2> QED
    BY <2>1, <2>2
<1> HIDE DEF a
<1>4. n \in Nat /\ a.highTx + n <= data + 1
  BY <1>1, <1>3
<1> HIDE DEF n
<1>5. LET t == SendNew(a, n)
      IN /\ Good(t, data, high) /\ SameSender(a, t) /\ SameReceiver(a, t)
         /\ a.highTx <= t.highTx
  BY <1>3, <1>4, SendNewFacts
<1> QED
  BY <1>2, <1>3, <1>5 DEF SameSender, SameReceiver

-----------------------------------------------------------------------------
(* The answer to an acknowledgement.                                       *)

\* t is s when ack has moved its head there and, perhaps, ended its CWR.
Acked(s, t, ack) ==
  t = IF s.congState = "CWR" /\ ack > s.recover
      THEN [s EXCEPT !.head = ack, !.congState = "OPEN"]
      ELSE [s EXCEPT !.head = ack]

\* In CWR only for what is in the window that was reduced, and otherwise past
\* that window, but for a timeout.
LEMMA AckedFacts ==
  ASSUME NEW s, NEW data \in Nat, NEW high \in Nat, Good(s, data, high),
         NEW ack \in Nat, s.head <= ack, ack <= s.highTx,
         NEW t, Acked(s, t, ack)
  PROVE  /\ Good(t, data, high) /\ SameReceiver(s, t)
         /\ t.head = ack /\ t.highTx = s.highTx /\ t.cuts = s.cuts
         /\ t.cutAt = s.cutAt
         /\ t.congState = "CWR" => ack <= t.recover
         /\ t.congState = "LOSS" => s.congState = "LOSS"
         /\ t.congState = "OPEN" =>
              s.congState = "OPEN" \/ (s.congState = "CWR" /\ ack > t.cutAt)
         /\ t.congState = "RECOVERY" => s.congState = "RECOVERY"
<1>1. Sane(s, data, high) /\ Backed(s) /\ Once(s)
  BY DEF Good
<1>2. /\ s \in Socks /\ s.head \in Nat /\ s.recover \in Nat
      /\ s.ecnEchoSeq \in Nat /\ s.ecnEchoSeq <= s.head /\ s.cutAt \in Nat
      /\ 1 <= s.head /\ s.congState \in CongStates
  BY <1>1, SaneTypes
<1>3. /\ t \in Socks /\ SameReceiver(s, t) /\ t.head = ack
      /\ t.highTx = s.highTx /\ t.recover = s.recover
      /\ t.cuts = s.cuts /\ t.cwrs = s.cwrs /\ t.cutAt = s.cutAt
      /\ t.ecnEchoSeq = s.ecnEchoSeq /\ t.ecnCWRSeq = s.ecnCWRSeq
      /\ t.out = s.out
  <2>1. CASE s.congState = "CWR" /\ ack > s.recover
    <3>1. "OPEN" \in CongStates
      BY DEF CongStates
    <3>2. t = [s EXCEPT !.head = ack, !.congState = "OPEN"]
      BY <2>1 DEF Acked
    <3>3. t \in Socks
      BY <1>2, <3>1, <3>2 DEF Socks
    <3> QED
      BY <1>2, <3>2, <3>3 DEF Socks, SameReceiver
  <2>2. CASE ~(s.congState = "CWR" /\ ack > s.recover)
    <3>2. t = [s EXCEPT !.head = ack]
      BY <2>2 DEF Acked
    <3>3. t \in Socks
      BY <1>2, <3>2 DEF Socks
    <3> QED
      BY <1>2, <3>2, <3>3 DEF Socks, SameReceiver
  <2> QED
    BY <2>1, <2>2
<1>4. t.congState = IF s.congState = "CWR" /\ ack > s.recover THEN "OPEN"
                    ELSE s.congState
  BY <1>2 DEF Acked, Socks
<1>5. /\ t.congState = "CWR" => s.congState = "CWR" /\ ack <= t.recover
      /\ t.congState = "LOSS" => s.congState = "LOSS"
      /\ t.congState = "OPEN" =>
           s.congState = "OPEN" \/ (s.congState = "CWR" /\ ack > t.cutAt)
      /\ t.congState = "RECOVERY" => s.congState = "RECOVERY"
  BY <1>1, <1>2, <1>3, <1>4 DEF Once
<1>6. Sane(t, data, high)
  <2>1. 1 <= ack /\ s.ecnEchoSeq <= ack
    BY <1>2
  <2> QED
    BY <1>1, <1>3, <2>1 DEF Sane, SameReceiver
<1>7. Backed(t)
  BY <1>1, <1>3, <1>5 DEF Backed
<1>8. Once(t)
  <2>1. CASE t.congState \in {"CWR", "LOSS"}
    BY <1>1, <1>3, <1>5, <2>1 DEF Once
  <2>2. CASE t.congState \in {"OPEN", "RECOVERY"}
    <3>1. t.head >= t.cutAt
      BY <1>1, <1>2, <1>3, <1>5, <2>2 DEF Once
    <3> QED
      BY <2>2, <3>1 DEF Once
  <2> QED
    BY <1>2, <1>4, <2>1, <2>2 DEF CongStates
<1> QED
  BY <1>3, <1>5, <1>6, <1>7, <1>8 DEF Good

\* t is s after it has heard an echo for ack, with a reduction or without.
Echoed(s, t, ack) ==
  t = IF s.congState # "CWR"
      THEN [s EXCEPT !.ecnEchoSeq = ack, !.ecnState = "ECE_RCVD",
                     !.congState = "CWR", !.recover = s.highTx,
                     !.cuts = s.cuts + 1, !.cutAt = s.highTx]
      ELSE [s EXCEPT !.ecnEchoSeq = ack, !.ecnState = "ECE_RCVD"]

LEMMA EchoedFacts ==
  ASSUME NEW s, NEW data \in Nat, NEW high \in Nat, Good(s, data, high),
         s.congState = "CWR" => s.head <= s.recover,
         NEW t, Echoed(s, t, s.head)
  PROVE  /\ Good(t, data, high) /\ SameReceiver(s, t)
         /\ t.head = s.head /\ t.highTx = s.highTx /\ t.congState = "CWR"
         /\ t.cuts > s.cuts => s.congState # "CWR"
<1>1. Sane(s, data, high) /\ Backed(s) /\ Once(s)
  BY DEF Good
<1>2. /\ s \in Socks /\ s.head \in Nat /\ s.highTx \in Nat
      /\ s.recover \in Nat /\ s.cuts \in Nat /\ s.cwrs \in Nat
      /\ s.ecnCWRSeq \in Nat /\ s.ecnCWRSeq <= s.highTx
      /\ s.head <= s.highTx
      /\ "ECE_RCVD" \in EcnStates /\ "CWR" \in CongStates
  BY <1>1, SaneTypes DEF EcnStates, CongStates
<1>3. CASE s.congState # "CWR"
  <2>1. t = [s EXCEPT !.ecnEchoSeq = s.head, !.ecnState = "ECE_RCVD",
                      !.congState = "CWR", !.recover = s.highTx,
                      !.cuts = s.cuts + 1, !.cutAt = s.highTx]
    BY <1>3 DEF Echoed
  <2>2. t \in Socks
    <3>1. s.cuts + 1 \in Nat
      BY <1>2
    <3> QED
      BY <1>2, <2>1, <3>1 DEF Socks
  <2>3. /\ SameReceiver(s, t) /\ t.head = s.head /\ t.highTx = s.highTx
        /\ t.recover = s.highTx /\ t.cutAt = s.highTx
        /\ t.cuts = s.cuts + 1 /\ t.cwrs = s.cwrs /\ t.out = s.out
        /\ t.ecnEchoSeq = s.head /\ t.ecnCWRSeq = s.ecnCWRSeq
        /\ t.congState = "CWR"
    BY <1>2, <2>1, <2>2 DEF Socks, SameReceiver
  <2>4. Sane(t, data, high)
    <3>1. s.head <= s.head /\ s.highTx <= s.highTx
      BY <1>2
    <3> QED
      BY <1>1, <2>2, <2>3, <3>1 DEF Sane, SameReceiver
  <2>5. Backed(t)
    <3>1. t.cwrs < t.cuts /\ t.cwrs <= t.cuts
      BY <1>1, <1>2, <2>3 DEF Backed
    <3> QED
      BY <3>1 DEF Backed
  <2>6. Once(t)
    BY <2>3 DEF Once
  <2> QED
    BY <1>3, <2>3, <2>4, <2>5, <2>6 DEF Good
<1>4. CASE s.congState = "CWR"
  <2>1. t = [s EXCEPT !.ecnEchoSeq = s.head, !.ecnState = "ECE_RCVD"]
    BY <1>4 DEF Echoed
  <2>2. t \in Socks
    BY <1>2, <2>1 DEF Socks
  <2>3. /\ SameReceiver(s, t) /\ t.head = s.head /\ t.highTx = s.highTx
        /\ t.recover = s.recover /\ t.cutAt = s.cutAt
        /\ t.cuts = s.cuts /\ t.cwrs = s.cwrs /\ t.out = s.out
        /\ t.ecnEchoSeq = s.head /\ t.ecnCWRSeq = s.ecnCWRSeq
        /\ t.congState = "CWR"
    BY <1>2, <1>4, <2>1, <2>2 DEF Socks, SameReceiver
  <2>4. Sane(t, data, high)
    <3>1. s.head <= s.head
      BY <1>2
    <3> QED
      BY <1>1, <2>2, <2>3, <3>1 DEF Sane, SameReceiver
  <2>5. Backed(t)
    <3>1. s.ecnCWRSeq >= s.recover \/ s.cwrs < s.cuts
      BY <1>1, <1>4 DEF Backed
    <3>2. t.ecnEchoSeq > t.ecnCWRSeq => s.cwrs < s.cuts
      BY <1>2, <1>4, <2>3, <3>1
    <3> QED
      BY <1>1, <2>3, <3>1, <3>2 DEF Backed
  <2>6. Once(t)
    BY <1>1, <1>4, <2>3 DEF Once
  <2>7. ~(t.cuts > s.cuts)
    BY <1>2, <2>3
  <2> QED
    BY <2>3, <2>4, <2>5, <2>6, <2>7 DEF Good
<1> QED
  BY <1>3, <1>4

\* The window is reduced past what was out at the last reduction, except after
\* a timeout.
CutAllowed(s, t, ack) ==
  t.cuts > s.cuts => ack > s.cutAt \/ s.congState = "LOSS"

LEMMA ProcessEchoFacts ==
  ASSUME NEW s, NEW data \in Nat, NEW high \in Nat, Good(s, data, high),
         NEW m, m.ack = s.head, NEW old \in Nat, old <= m.ack,
         s.congState = "CWR" => s.head <= s.recover,
         s.congState = "OPEN" => m.ack > s.cutAt \/ old >= s.cutAt,
         s.congState = "RECOVERY" => old >= s.cutAt
  PROVE  LET t == ProcessEcho(s, m, old)
         IN /\ Good(t, data, high) /\ SameReceiver(s, t)
            /\ t.head = s.head /\ t.highTx = s.highTx
            /\ CutAllowed(s, t, m.ack)
            /\ m.ack = old => t.congState = s.congState
<1> DEFINE t == ProcessEcho(s, m, old)
<1>1. /\ s \in Socks /\ s.head \in Nat /\ s.cuts \in Nat /\ s.cutAt \in Nat
      /\ s.congState \in CongStates
  BY SaneTypes DEF Good
<1>2. CASE t = s
  <2>1. ~(s.cuts > s.cuts)
    BY <1>1
  <2> QED
    BY <1>2, <2>1 DEF CutAllowed, SameReceiver
<1>3. CASE t = [s EXCEPT !.ecnState = "IDLE"]
  <2>1. "IDLE" \in EcnStates
    BY DEF EcnStates
  <2>2. /\ Good(t, data, high) /\ SameSender(s, t) /\ SameReceiver(s, t)
        /\ t.highTx = s.highTx
    BY <1>3, <2>1, StateChangeGood
  <2>3. ~(s.cuts > s.cuts)
    BY <1>1
  <2> HIDE DEF t
  <2> QED
    BY <2>2, <2>3 DEF CutAllowed, SameSender, t
<1>4. CASE m.ack > old /\ Echoed(s, t, s.head)
  <2> HIDE DEF t
  <2>1. /\ Good(t, data, high) /\ SameReceiver(s, t)
        /\ t.head = s.head /\ t.highTx = s.highTx
        /\ t.cuts > s.cuts => s.congState # "CWR"
    BY <1>4, EchoedFacts
  <2>2. s.congState \in {"OPEN", "RECOVERY"} => m.ack > s.cutAt
    BY <1>1, <1>4
  <2>3. CutAllowed(s, t, m.ack)
    BY <1>1, <2>1, <2>2 DEF CutAllowed, CongStates
  <2>4. m.ack # old
    BY <1>1, <1>4
  <2> QED
    BY <2>1, <2>3, <2>4 DEF t
<1>5. \/ t = s \/ t = [s EXCEPT !.ecnState = "IDLE"]
      \/ (m.ack > old /\ Echoed(s, t, s.head))
  <2>1. CASE m.ack > old /\ m.ece
    BY <1>1, <2>1 DEF ProcessEcho, EnterCwr, MayReduce, Echoed
  <2>2. CASE ~(m.ack > old /\ m.ece)
    BY <2>2 DEF ProcessEcho
  <2> QED
    BY <2>1, <2>2
<1> QED
  BY <1>2, <1>3, <1>4, <1>5

\* t is s in another congestion state that waits for recover.
Moved(s, t, state, recover) ==
  t = [s EXCEPT !.congState = state, !.recover = recover]

LEMMA MovedFacts ==
  ASSUME NEW s, NEW data \in Nat, NEW high \in Nat, Good(s, data, high),
         NEW state \in CongStates, NEW recover \in Nat, recover <= s.highTx,
         state # "CWR", state = "LOSS" => recover >= s.cutAt,
         state \in {"OPEN", "RECOVERY"} => s.head >= s.cutAt,
         NEW t, Moved(s, t, state, recover)
  PROVE  /\ Good(t, data, high) /\ SameReceiver(s, t)
         /\ t.head = s.head /\ t.highTx = s.highTx /\ t.cuts = s.cuts
         /\ t.cutAt = s.cutAt /\ t.congState = state /\ t.recover = recover
<1>1. Sane(s, data, high) /\ Backed(s) /\ Once(s) /\ s \in Socks
  BY DEF Good, Sane
<1>2. t \in Socks
  BY <1>1 DEF Moved, Socks
<1>3. /\ SameReceiver(s, t) /\ t.head = s.head /\ t.highTx = s.highTx
      /\ t.recover = recover /\ t.cutAt = s.cutAt /\ t.congState = state
      /\ t.cuts = s.cuts /\ t.cwrs = s.cwrs /\ t.out = s.out
      /\ t.ecnEchoSeq = s.ecnEchoSeq /\ t.ecnCWRSeq = s.ecnCWRSeq
  BY <1>1, <1>2 DEF Moved, Socks, SameReceiver
<1>4. Sane(t, data, high)
  BY <1>1, <1>2, <1>3 DEF Sane, SameReceiver
<1>5. Backed(t)
  BY <1>1, <1>3 DEF Backed
<1>6. Once(t)
  BY <1>3 DEF Once
<1> QED
  BY <1>3, <1>4, <1>5, <1>6 DEF Good

LEMMA ProcessAckFacts ==
  ASSUME NEW s, NEW data \in Nat, NEW high \in Nat, Good(s, data, high),
         NEW m, m.ack = s.head, NEW old \in Nat, old <= m.ack,
         NEW dup, dup => s.head < s.highTx, NEW lost
  PROVE  LET t == ProcessAck(s, m, old, dup, lost)
         IN /\ Good(t, data, high) /\ SameReceiver(s, t)
            /\ t.head = s.head /\ t.highTx = s.highTx
            /\ t.cuts = s.cuts
<1> DEFINE again == SendDataPacket(s, s.head)
           a == IF dup /\ s.congState = "OPEN"
                THEN [again EXCEPT !.congState = "RECOVERY",
                                   !.recover = s.highTx]
                ELSE s
           t == ProcessAck(s, m, old, dup, lost)
<1>1. /\ s.head \in Nat /\ s.highTx \in Nat /\ s.highTx <= data + 1
      /\ s.head <= s.highTx /\ s.cutAt \in Nat /\ Once(s)
  BY SaneTypes DEF Good
<1>2. /\ Good(a, data, high) /\ SameReceiver(s, a)
      /\ a.head = s.head /\ a.highTx = s.highTx /\ a.cuts = s.cuts
  <2>1. CASE dup /\ s.congState = "OPEN"
    <3>1. s.head <= s.head /\ s.head <= data /\ s.head # s.highTx
      BY <1>1, <2>1
    <3>2. /\ Good(again, data, high) /\ SameSender(s, again)
          /\ SameReceiver(s, again) /\ again.highTx = s.highTx
      BY <1>1, <3>1, SendDataPacketFacts
    <3>3. Moved(again, a, "RECOVERY", s.highTx)
      BY <2>1 DEF Moved
    <3> HIDE DEF again, a
    <3>4. /\ again.head >= again.cutAt /\ s.highTx <= again.highTx
          /\ "RECOVERY" \in CongStates
      BY <1>1, <2>1, <3>2 DEF Once, SameSender, CongStates
    <3> QED
      BY <1>1, <3>2, <3>3, <3>4, MovedFacts DEF SameSender, SameReceiver
  <2>2. CASE ~(dup /\ s.congState = "OPEN")
    BY <1>1, <2>2 DEF SameReceiver
  <2> QED
    BY <2>1, <2>2
<1>3. \/ t = a
      \/ /\ m.ack > old /\ m.ack < a.recover /\ a.congState = "RECOVERY"
         /\ lost \in a.head .. a.highTx - 1 /\ t = SendDataPacket(a, lost)
      \/ /\ m.ack > old /\ m.ack >= a.recover
         /\ a.congState \in {"RECOVERY", "LOSS"}
         /\ t = [a EXCEPT !.congState = "OPEN"]
  <2>1. t = CASE m.ack = old -> a
              [] m.ack > old /\ m.ack < a.recover /\ a.congState = "RECOVERY" ->
                   IF lost \in a.head .. a.highTx - 1
                   THEN SendDataPacket(a, lost) ELSE a
              [] m.ack > old /\ m.ack >= a.recover
                   /\ a.congState \in {"RECOVERY", "LOSS"} ->
                   [a EXCEPT !.congState = "OPEN"]
              [] OTHER -> a
    BY DEF ProcessAck
  <2> HIDE DEF a, t
  <2>2. a.recover \in Nat /\ a.congState \in CongStates
    BY <1>2, SaneTypes DEF Good
  <2>3. ~(m.ack = old /\ m.ack > old)
        /\ ~(m.ack < a.recover /\ m.ack >= a.recover)
    BY <1>1, <2>2
  <2> QED
    BY <2>1, <2>3, Zenon
<1> HIDE DEF again, a, t
<1>4. /\ a.recover \in Nat /\ a.head \in Nat /\ a.highTx \in Nat
      /\ a.highTx <= data + 1 /\ a.recover <= a.highTx /\ a.cutAt \in Nat
      /\ a \in Socks /\ Once(a)
  BY <1>2, SaneTypes DEF Good
<1>5. CASE t = a
  BY <1>2, <1>5 DEF t
<1>6. CASE lost \in a.head .. a.highTx - 1 /\ t = SendDataPacket(a, lost)
  <2>1. lost \in Nat /\ a.head <= lost /\ lost <= a.highTx /\ lost <= data
        /\ lost # a.highTx
    BY <1>4, <1>6
  <2>2. /\ Good(t, data, high) /\ SameSender(a, t) /\ SameReceiver(a, t)
        /\ t.highTx = a.highTx
    BY <1>2, <1>6, <2>1, SendDataPacketFacts
  <2> QED
    BY <1>2, <2>2 DEF t, SameSender, SameReceiver
<1>7. CASE /\ m.ack > old /\ m.ack >= a.recover
           /\ a.congState \in {"RECOVERY", "LOSS"}
           /\ t = [a EXCEPT !.congState = "OPEN"]
  <2>1. Moved(a, t, "OPEN", a.recover)
    BY <1>4, <1>7 DEF Moved, Socks
  <2>2. a.head >= a.cutAt /\ "OPEN" \in CongStates
    BY <1>1, <1>2, <1>4, <1>7 DEF Once, CongStates
  <2>3. /\ Good(t, data, high) /\ SameReceiver(a, t)
        /\ t.head = a.head /\ t.highTx = a.highTx /\ t.cuts = a.cuts
    BY <1>2, <1>4, <2>1, <2>2, MovedFacts
  <2> QED
    BY <1>2, <2>3 DEF t, SameReceiver
<1> QED
  BY <1>3, <1>5, <1>6, <1>7

-----------------------------------------------------------------------------
(* The receiver.                                                           *)

\* A nonempty set of numbers has a least one.
LEMMA LeastExists ==
  ASSUME NEW S \in SUBSET Nat, S # {}
  PROVE  \E n \in S : \A k \in S : n <= k
<1> DEFINE R == {p \in Nat \X Nat : p[1] < p[2]}
<1>1. IsWellFoundedOn(R, Nat)
  BY NatLessThanWellFounded DEF OpToRel
<1>2. \A j, k \in Nat : <<j, k>> \in R <=> j < k
  OBVIOUS
<1> HIDE DEF R
<1>3. PICK n \in S : \A k \in S : ~(<<k, n>> \in R)
  BY <1>1, WFMin, Zenon
<1>4. \A k \in S : ~(k < n)
  BY <1>2, <1>3
<1>5. \A k \in S : k \in Nat /\ n \in Nat
  OBVIOUS
<1>6. \A k \in S : n <= k
  BY <1>4, <1>5
<1> QED
  BY <1>6

\* The receiver expects the first segment it does not have.
LEMMA AddRxNext ==
  ASSUME NEW next \in Nat, NEW high \in Nat, NEW got \in SUBSET Nat,
         next <= high, \A i \in got : i < high
  PROVE  \E n \in next .. next + Cardinality(got) :
           n \notin got /\ \A i \in next .. n - 1 : i \in got
<1> DEFINE S == {n \in Nat : next <= n /\ n \notin got}
<1>1. high \in S
  OBVIOUS
<1>2. PICK n \in S : \A i \in S : n <= i
  <2>1. S \in SUBSET Nat /\ S # {}
    BY <1>1
  <2> HIDE DEF S
  <2> QED
    BY <2>1, LeastExists
<1>3. n \in Nat /\ next <= n /\ n \notin got /\ n <= high
  BY <1>1, <1>2
<1>4. \A i \in next .. n - 1 : i \in got
  BY <1>2, <1>3
<1>5. IsFiniteSet(got) /\ Cardinality(got) \in Nat
  <2>1. got \subseteq 0 .. high
    OBVIOUS
  <2>2. IsFiniteSet(0 .. high)
    BY FS_Interval
  <2> QED
    BY <2>1, <2>2, FS_Subset, FS_CardinalityType
<1>6. Cardinality(next .. n - 1) = n - next
  <2>1. next \in Int /\ n - 1 \in Int
    BY <1>3
  <2>2. Cardinality(next .. n - 1) =
          IF next > n - 1 THEN 0 ELSE (n - 1) - next + 1
    BY <2>1, FS_Interval
  <2> QED
    BY <1>3, <2>2
<1>7. Cardinality(next .. n - 1) <= Cardinality(got)
  BY <1>4, <1>5, FS_Subset
<1>8. n \in next .. next + Cardinality(got)
  BY <1>3, <1>5, <1>6, <1>7
<1> QED
  BY <1>3, <1>4, <1>8

\* t is s with another receive buffer.
Stored(s, t, next, stored) ==
  t = [s EXCEPT !.nextRx = next, !.stored = stored]

LEMMA StoredFacts ==
  ASSUME NEW s, NEW data \in Nat, NEW high \in Nat, Good(s, data, high),
         NEW next \in Nat, s.nextRx <= next, next <= high,
         NEW stored \in SUBSET Nat,
         \A n \in stored : next < n /\ n < high,
         NEW t, Stored(s, t, next, stored)
  PROVE  /\ Good(t, data, high) /\ SameSender(s, t)
         /\ t.highTx = s.highTx /\ t.nextRx = next
<1>1. Sane(s, data, high) /\ Backed(s) /\ Once(s)
  BY DEF Good
<1>2. /\ s \in Socks /\ s.nextRx \in Nat /\ 1 <= s.nextRx
      /\ s.out \in SUBSET Sendings
  BY <1>1, SaneTypes DEF Socks
<1>3. t \in Socks
  BY <1>2 DEF Stored, Socks
<1>4. /\ SameSender(s, t) /\ t.highTx = s.highTx /\ t.nextRx = next
      /\ t.stored = stored /\ t.ecnCESeq = s.ecnCESeq
      /\ t.cwrs = s.cwrs /\ t.out = s.out
      /\ t.ecnEchoSeq = s.ecnEchoSeq /\ t.ecnCWRSeq = s.ecnCWRSeq
  BY <1>2, <1>3 DEF Stored, Socks, SameSender
<1>5. \A m \in t.out : Sendable(m, s.highTx, next)
  <2> SUFFICES ASSUME NEW m \in s.out PROVE Sendable(m, s.highTx, next)
    BY <1>4
  <2>1. m.ack \in Nat /\ Sendable(m, s.highTx, s.nextRx)
    BY <1>1, <1>2 DEF Sane, Sendings
  <2> QED
    BY <1>2, <2>1 DEF Sendable
<1>6. Sane(t, data, high)
  <2>1. 1 <= next
    BY <1>2
  <2> QED
    BY <1>1, <1>3, <1>4, <1>5, <2>1 DEF Sane, SameSender
<1>7. Backed(t) /\ Once(t)
  BY <1>1, <1>4 DEF Backed, Once, SameSender
<1> QED
  BY <1>4, <1>6, <1>7 DEF Good

LEMMA AddRxFacts ==
  ASSUME NEW s, NEW data \in Nat, NEW high \in Nat, Good(s, data, high),
         NEW seq \in Nat, seq < high
  PROVE  LET t == AddRx(s, seq)
         IN /\ Good(t, data, high) /\ SameSender(s, t)
            /\ t.highTx = s.highTx /\ s.nextRx <= t.nextRx
<1> DEFINE got == s.stored \cup {seq}
           next == CHOOSE n \in s.nextRx .. s.nextRx + Cardinality(got) :
                     n \notin got /\ \A i \in s.nextRx .. n - 1 : i \in got
           kept == {i \in got : i > next}
           t == AddRx(s, seq)
<1>1. /\ s.nextRx \in Nat /\ s.nextRx <= high /\ s.stored \in SUBSET Nat
      /\ \A n \in s.stored : n < high
  BY SaneTypes DEF Good, Sane
<1>2. got \in SUBSET Nat /\ \A i \in got : i < high
  BY <1>1
<1>3. Stored(s, t, next, kept)
  BY DEF Stored, AddRx
<1> HIDE DEF got, t
<1>4. \E n \in s.nextRx .. s.nextRx + Cardinality(got) :
        n \notin got /\ \A i \in s.nextRx .. n - 1 : i \in got
  BY <1>1, <1>2, AddRxNext
<1>5. /\ next \in s.nextRx .. s.nextRx + Cardinality(got)
      /\ next \notin got
      /\ \A i \in s.nextRx .. next - 1 : i \in got
  BY <1>4
<1> HIDE DEF next
<1>6. next \in Nat /\ s.nextRx <= next
  BY <1>1, <1>5
<1>7. next <= high
  <2>1. CASE next = s.nextRx
    BY <1>1, <2>1
  <2>2. CASE next # s.nextRx
    <3>1. next - 1 \in s.nextRx .. next - 1
      BY <1>1, <1>6, <2>2
    <3>2. next - 1 < high
      BY <1>2, <1>5, <3>1
    <3> QED
      BY <1>6, <3>2
  <2> QED
    BY <2>1, <2>2
<1>8. kept \in SUBSET Nat /\ \A n \in kept : next < n /\ n < high
  BY <1>2, <1>6
<1> HIDE DEF kept
<1>9. /\ Good(t, data, high) /\ SameSender(s, t)
      /\ t.highTx = s.highTx /\ t.nextRx = next
  BY <1>3, <1>6, <1>7, <1>8, StoredFacts
<1> QED
  BY <1>6, <1>9 DEF t

LEMMA ReceivedDataFacts ==
  ASSUME NEW s, NEW data \in Nat, NEW high \in Nat, Good(s, data, high),
         NEW m, m.seq \in Nat, m.seq < high, NEW delay
  PROVE  LET t == ReceivedData(s, m, delay)
         IN /\ Good(t, data, high) /\ SameSender(s, t)
            /\ t.highTx = s.highTx /\ s.nextRx <= t.nextRx
<1> DEFINE a == AddRx(s, m.seq)
           t == ReceivedData(s, m, delay)
<1>1. /\ Good(a, data, high) /\ SameSender(s, a)
      /\ a.highTx = s.highTx /\ s.nextRx <= a.nextRx
  BY AddRxFacts
<1>2. /\ s \in Socks /\ s.nextRx \in Nat
      /\ a \in Socks /\ a.nextRx \in Nat
  BY <1>1, SaneTypes DEF Good
<1>3. t = SendAck(s) \/ t = SendAck(a) \/ t = [a EXCEPT !.delAck = TRUE]
  BY DEF ReceivedData
<1> HIDE DEF a, t
<1>4. CASE t = SendAck(s)
  <2>1. s.nextRx <= s.nextRx
    BY <1>2
  <2> QED
    BY <1>4, <2>1, SendAckFacts DEF t, SameReceiver
<1>5. CASE t = SendAck(a)
  BY <1>1, <1>5, SendAckFacts DEF t, SameReceiver, SameSender
<1>6. CASE t = [a EXCEPT !.delAck = TRUE]
  <2>1. t \in Socks
    BY <1>2, <1>6 DEF Socks
  <2>2. /\ SameSender(a, t) /\ SameReceiver(a, t) /\ t.highTx = a.highTx
        /\ t.cwrs = a.cwrs /\ t.out = a.out
        /\ t.ecnEchoSeq = a.ecnEchoSeq /\ t.ecnCWRSeq = a.ecnCWRSeq
    BY <1>2, <1>6, <2>1 DEF Socks, SameSender, SameReceiver
  <2>3. Sane(t, data, high)
    BY <1>1, <2>1, <2>2 DEF Good, Sane, SameSender, SameReceiver
  <2>4. Backed(t) /\ Once(t)
    BY <1>1, <2>2 DEF Good, Backed, Once, SameSender
  <2> QED
    BY <1>1, <2>2, <2>3, <2>4 DEF Good, t, SameSender, SameReceiver
<1> QED
  BY <1>3, <1>4, <1>5, <1>6

\* t is s when it has heard of a mark on seq.
Marked(s, t, seq) ==
  t = [s EXCEPT !.ecnCESeq = seq, !.ecnState = "CE_RCVD"]

LEMMA MarkedFacts ==
  ASSUME NEW s, NEW data \in Nat, NEW high \in Nat, Good(s, data, high),
         NEW seq \in Nat, seq <= high, NEW t, Marked(s, t, seq)
  PROVE  /\ Good(t, data, high) /\ SameSender(s, t)
         /\ t.highTx = s.highTx /\ t.nextRx = s.nextRx
<1>1. Sane(s, data, high) /\ Backed(s) /\ Once(s) /\ s \in Socks
      /\ "CE_RCVD" \in EcnStates
  BY DEF Good, Sane, EcnStates
<1>2. t \in Socks
  BY <1>1 DEF Marked, Socks
<1>3. /\ SameSender(s, t) /\ t.highTx = s.highTx /\ t.nextRx = s.nextRx
      /\ t.stored = s.stored /\ t.ecnCESeq = seq
      /\ t.cwrs = s.cwrs /\ t.out = s.out
      /\ t.ecnEchoSeq = s.ecnEchoSeq /\ t.ecnCWRSeq = s.ecnCWRSeq
  BY <1>1, <1>2 DEF Marked, Socks, SameSender
<1>4. Sane(t, data, high)
  BY <1>1, <1>2, <1>3 DEF Sane, SameSender
<1>5. Backed(t) /\ Once(t)
  BY <1>1, <1>3 DEF Backed, Once, SameSender
<1> QED
  BY <1>3, <1>4, <1>5 DEF Good

LEMMA ReadEcnFacts ==
  ASSUME NEW s, NEW data \in Nat, NEW high \in Nat, Good(s, data, high),
         NEW m, m.seq \in Nat, m.seq <= high, NEW ce
  PROVE  LET t == ReadEcn(s, m, ce)
         IN /\ Good(t, data, high) /\ SameSender(s, t)
            /\ t.highTx = s.highTx /\ t.nextRx = s.nextRx
<1> DEFINE a == IF ce /\ s.ecnCESeq < m.seq
                THEN [s EXCEPT !.ecnCESeq = m.seq, !.ecnState = "CE_RCVD"]
                ELSE s
           t == ReadEcn(s, m, ce)
<1>1. /\ Good(a, data, high) /\ SameSender(s, a)
      /\ a.highTx = s.highTx /\ a.nextRx = s.nextRx
  <2>1. CASE ce /\ s.ecnCESeq < m.seq
    <3>1. Marked(s, a, m.seq)
      BY <2>1 DEF Marked
    <3> HIDE DEF a
    <3> QED
      BY <3>1, MarkedFacts
  <2>2. CASE ~(ce /\ s.ecnCESeq < m.seq)
    BY <2>2 DEF SameSender
  <2> QED
    BY <2>1, <2>2
<1>2. t = a \/ t = [a EXCEPT !.ecnState = "IDLE"]
  BY DEF ReadEcn
<1>3. "IDLE" \in EcnStates
  BY DEF EcnStates
<1> HIDE DEF a
<1>4. CASE t = a
  BY <1>1, <1>4
<1>5. CASE t = [a EXCEPT !.ecnState = "IDLE"]
  <2> DEFINE b == [a EXCEPT !.ecnState = "IDLE"]
  <2>1. /\ Good(b, data, high) /\ SameSender(a, b) /\ SameReceiver(a, b)
        /\ b.highTx = a.highTx
    BY <1>1, <1>3, StateChangeGood
  <2>2. t = b
    BY <1>5
  <2> HIDE DEF b, t
  <2> QED
    BY <1>1, <2>1, <2>2 DEF t, SameSender, SameReceiver
<1> QED
  BY <1>2, <1>4, <1>5

-----------------------------------------------------------------------------
(* A segment that arrives.                                                 *)

LEMMA ReceivedAckFacts ==
  ASSUME NEW s, NEW data \in Nat, NEW high \in Nat, Good(s, data, high),
         NEW m, m.ack \in Nat, s.head <= m.ack, m.ack <= s.highTx,
         m.seq \in Nat, m.len \in {0, 1}, m.seq + m.len <= high,
         NEW in, in.k \in Nat, in.dup => m.ack < s.highTx
  PROVE  LET t == ReceivedAck(s, m, in, data)
         IN /\ Good(t, data, high) /\ Later(s, t)
            /\ CutAllowed(s, t, t.head)
<1> DEFINE open == IF s.congState = "CWR" /\ m.ack > s.recover
                   THEN [[s EXCEPT !.head = m.ack] EXCEPT !.congState = "OPEN"]
                   ELSE [s EXCEPT !.head = m.ack]
           a == ProcessEcho(open, m, s.head)
           b == ProcessAck(a, m, s.head, in.dup, in.lost)
           u == IF m.len > 0 THEN ReceivedData(b, m, in.delay) ELSE b
           t == SendPendingData(u, in.lost, in.k, data)
<1>1. ReceivedAck(s, m, in, data) = t
  BY DEF ReceivedAck
<1>2. /\ s \in Socks /\ s.head \in Nat /\ s.highTx \in Nat
      /\ s.nextRx \in Nat /\ s.cuts \in Nat /\ s.cutAt \in Nat /\ Once(s)
      /\ s.congState \in CongStates
  BY SaneTypes DEF Good
<1>3. Acked(s, open, m.ack)
  BY <1>2 DEF Acked, Socks
<1> HIDE DEF open
<1>4. /\ Good(open, data, high) /\ SameReceiver(s, open)
      /\ open.head = m.ack /\ open.highTx = s.highTx
      /\ open.cuts = s.cuts /\ open.cutAt = s.cutAt
      /\ open.congState = "CWR" => m.ack <= open.recover
      /\ open.congState = "LOSS" => s.congState = "LOSS"
      /\ open.congState = "OPEN" =>
           \/ s.congState = "OPEN"
           \/ s.congState = "CWR" /\ m.ack > open.cutAt
      /\ open.congState = "RECOVERY" => s.congState = "RECOVERY"
  BY <1>3, AckedFacts
<1>5. /\ open.congState = "OPEN" => m.ack > open.cutAt \/ s.head >= open.cutAt
      /\ open.congState = "RECOVERY" => s.head >= open.cutAt
  BY <1>2, <1>4 DEF Once
<1>6. /\ Good(a, data, high) /\ SameReceiver(open, a)
      /\ a.head = open.head /\ a.highTx = open.highTx
      /\ CutAllowed(open, a, m.ack)
  BY <1>2, <1>4, <1>5, ProcessEchoFacts
<1> HIDE DEF a
<1>7. /\ Good(b, data, high) /\ SameReceiver(a, b)
      /\ b.head = a.head /\ b.highTx = a.highTx /\ b.cuts = a.cuts
  <2>1. in.dup => a.head < a.highTx
    BY <1>4, <1>6
  <2>2. m.ack = a.head
    BY <1>4, <1>6
  <2> QED
    BY <1>2, <1>6, <2>1, <2>2, ProcessAckFacts
<1> HIDE DEF b
<1>8. /\ Good(u, data, high) /\ SameSender(b, u)
      /\ u.highTx = b.highTx /\ b.nextRx <= u.nextRx
  <2>1. CASE m.len > 0
    <3>1. m.seq < high
      BY <2>1
    <3> QED
      BY <1>7, <2>1, <3>1, ReceivedDataFacts
  <2>2. CASE ~(m.len > 0)
    <3>1. b.nextRx <= b.nextRx
      BY <1>7, SaneTypes DEF Good
    <3> QED
      BY <1>7, <2>2, <3>1 DEF SameSender
  <2> QED
    BY <2>1, <2>2
<1> HIDE DEF u
<1>9. /\ Good(t, data, high) /\ SameSender(u, t) /\ SameReceiver(u, t)
      /\ u.highTx <= t.highTx
  BY <1>8, SendPendingDataFacts
<1> HIDE DEF t
<1>10. t.head = m.ack /\ t.cuts = a.cuts
  BY <1>4, <1>6, <1>7, <1>8, <1>9 DEF SameSender
<1>11. s.nextRx <= t.nextRx
  BY <1>2, <1>4, <1>6, <1>7, <1>8, <1>9 DEF SameReceiver
<1>12. s.highTx <= t.highTx
  BY <1>4, <1>6, <1>7, <1>8, <1>9
<1>13. CutAllowed(s, t, t.head)
  BY <1>4, <1>6, <1>10 DEF CutAllowed
<1> QED
  BY <1>1, <1>9, <1>10, <1>11, <1>12, <1>13 DEF Later

LEMMA ForwardUpFacts ==
  ASSUME NEW s, NEW data \in Nat, NEW high \in Nat, Good(s, data, high),
         NEW m, m.ack \in Nat, m.ack <= s.highTx,
         m.seq \in Nat, m.len \in {0, 1}, m.seq + m.len <= high,
         NEW ce, NEW in, in.k \in Nat, in.dup => m.ack < s.highTx
  PROVE  LET t == ForwardUp(s, m, ce, in, data)
         IN /\ Good(t, data, high) /\ Later(s, t)
            /\ CutAllowed(s, t, t.head)
<1> DEFINE a == ReadEcn(s, m, ce)
           t == ForwardUp(s, m, ce, in, data)
<1>1. /\ s.head \in Nat /\ s.highTx \in Nat /\ s.nextRx \in Nat
      /\ s.head <= s.head /\ s.highTx <= s.highTx /\ s.nextRx <= s.nextRx
      /\ ~(s.cuts > s.cuts)
  BY SaneTypes DEF Good
<1>2. m.seq <= high
  OBVIOUS
<1>3. /\ Good(a, data, high) /\ SameSender(s, a)
      /\ a.highTx = s.highTx /\ a.nextRx = s.nextRx
  BY <1>2, ReadEcnFacts
<1>4. CASE OutOfRange(s, m)
  <2>1. PureAck(s, t)
    BY <1>4 DEF ForwardUp, PureAck
  <2> HIDE DEF a, t
  <2>2. /\ Good(t, data, high) /\ SameSender(s, t) /\ SameReceiver(s, t)
        /\ t.highTx = s.highTx
    BY <2>1, AckGood
  <2> QED
    BY <1>1, <2>2 DEF t, Later, CutAllowed, SameSender, SameReceiver
<1>5. CASE ~OutOfRange(s, m) /\ m.ack < a.head
  <2>1. t = a
    BY <1>5 DEF ForwardUp
  <2> HIDE DEF a, t
  <2> QED
    BY <1>1, <1>3, <2>1 DEF t, Later, CutAllowed, SameSender
<1>6. CASE ~OutOfRange(s, m) /\ ~(m.ack < a.head)
  <2>1. t = ReceivedAck(a, m, in, data)
    BY <1>6 DEF ForwardUp
  <2> HIDE DEF a, t
  <2>2. /\ a.head <= m.ack /\ m.ack <= a.highTx
        /\ in.dup => m.ack < a.highTx
    BY <1>1, <1>3, <1>6 DEF SameSender
  <2>3. /\ Good(t, data, high) /\ Later(a, t) /\ CutAllowed(a, t, t.head)
    BY <1>3, <2>1, <2>2, ReceivedAckFacts
  <2> QED
    BY <1>3, <2>3 DEF t, Later, CutAllowed, SameSender
<1> QED
  BY <1>4, <1>5, <1>6

-----------------------------------------------------------------------------
(* The steps.                                                              *)

\* More that the peer has sent does no harm.
LEMMA GoodMonotone ==
  ASSUME NEW s, NEW data \in Nat, NEW high \in Nat, Good(s, data, high),
         NEW higher \in Nat, high <= higher
  PROVE  Good(s, data, higher)
<1>1. /\ s.nextRx \in Nat /\ s.nextRx <= high /\ s.ecnCESeq \in Nat
      /\ s.ecnCESeq <= high /\ s.stored \in SUBSET Nat
  BY SaneTypes DEF Good
<1>2. s.nextRx <= higher /\ s.ecnCESeq <= higher
  BY <1>1
<1>3. \A n \in s.stored : s.nextRx < n /\ n < higher
  <2>1. \A n \in s.stored : n \in Nat /\ s.nextRx < n /\ n < high
    BY <1>1 DEF Good, Sane
  <2> QED
    BY <2>1
<1> QED
  BY <1>2, <1>3 DEF Good, Sane

\* What was handed over is in the network, the handler is done.
LEMMA EmptiedFacts ==
  ASSUME NEW s, NEW data \in Nat, NEW high \in Nat, Good(s, data, high)
  PROVE  LET t == [s EXCEPT !.out = {}]
         IN /\ Good(t, data, high) /\ t.out = {} /\ t \in Socks
            /\ t.head = s.head /\ t.highTx = s.highTx /\ t.nextRx = s.nextRx
            /\ t.cuts = s.cuts
<1> DEFINE t == [s EXCEPT !.out = {}]
<1>1. Sane(s, data, high) /\ Backed(s) /\ Once(s) /\ s \in Socks
  BY DEF Good, Sane
<1>2. t \in Socks
  BY <1>1 DEF Socks
<1>3. /\ t.out = {} /\ SameSender(s, t) /\ SameReceiver(s, t)
      /\ t.highTx = s.highTx /\ t.cwrs = s.cwrs
      /\ t.ecnEchoSeq = s.ecnEchoSeq /\ t.ecnCWRSeq = s.ecnCWRSeq
  BY <1>1 DEF Socks, SameSender, SameReceiver
<1> HIDE DEF t
<1>4. Sane(t, data, high)
  BY <1>1, <1>2, <1>3 DEF Sane, SameSender, SameReceiver
<1>5. Backed(t) /\ Once(t)
  BY <1>1, <1>3 DEF Backed, Once, SameSender
<1> QED
  BY <1>2, <1>3, <1>4, <1>5 DEF Good, SameSender, SameReceiver, t

\* Taking from a bag and adding a set to one: a bag again, of no other
\* elements.
LEMMA BagMinusFacts ==
  ASSUME NEW B, IsABag(B), NEW C, IsABag(C)
  PROVE  IsABag(B (-) C) /\ BagToSet(B (-) C) \subseteq BagToSet(B)
BY DEF IsABag, BagToSet, (-)

LEMMA BagPlusFacts ==
  ASSUME NEW B, IsABag(B), NEW C, IsABag(C)
  PROVE  /\ IsABag(B (+) C)
         /\ BagToSet(B (+) C) \subseteq BagToSet(B) \cup BagToSet(C)
BY DEF IsABag, BagToSet, (+)

LEMMA SetToBagFacts ==
  ASSUME NEW S
  PROVE  IsABag(SetToBag(S)) /\ BagToSet(SetToBag(S)) = S
BY DEF IsABag, BagToSet, SetToBag

LEMMA EmptyBagFacts == IsABag(EmptyBag) /\ BagToSet(EmptyBag) = {}
BY SetToBagFacts DEF EmptyBag

\* What h leaves behind when its handler ends with s.
LEMMA StepsFacts ==
  ASSUME IInv, NEW h \in Hosts, NEW s, NEW received, IsABag(received),
         Good(s, Data[h], sock[Peer(h)].highTx), Later(sock[h], s),
         Steps(h, s, received)
  PROVE  /\ sock' \in [Hosts -> Socks]
         /\ \A g \in Hosts :
              /\ Good(sock'[g], Data[g], sock'[Peer(g)].highTx)
              /\ sock'[g].out = {}
         /\ NetOK'
         /\ sock'[h].cuts = s.cuts /\ sock'[h].head = s.head
         /\ sock'[Peer(h)] = sock[Peer(h)]
<1> DEFINE p == Peer(h)
           t == [s EXCEPT !.out = {}]
           new == {[to |-> Peer(h), seq |-> m.seq, len |-> m.len,
                    ack |-> m.ack, ece |-> m.ece, cwr |-> m.cwr] : m \in s.out}
<1>1. /\ p \in Hosts /\ p # h /\ Peer(p) = h /\ Hosts = {h, p}
      /\ Data[h] \in Nat /\ Data[p] \in Nat
  BY Peers, Bounds
<1>2. /\ Good(sock[h], Data[h], sock[p].highTx) /\ sock[h] \in Socks
      /\ Good(sock[p], Data[p], sock[h].highTx) /\ sock[p] \in Socks
      /\ sock[p].out = {}
  BY <1>1 DEF IInv
<1>3. /\ sock[h].highTx \in Nat /\ sock[p].highTx \in Nat
      /\ sock[h].nextRx \in Nat
  BY <1>2 DEF Socks
<1>4. /\ s \in Socks /\ s.highTx \in Nat /\ s.nextRx \in Nat
      /\ s.out \in SUBSET Sendings
      /\ \A m \in s.out : Sendable(m, s.highTx, s.nextRx)
  BY <1>1, <1>3, SaneTypes DEF Good, Sane, Socks
<1>5. /\ sock[h].highTx <= s.highTx /\ sock[h].nextRx <= s.nextRx
  BY DEF Later
<1>6. /\ Good(t, Data[h], sock[p].highTx) /\ t.out = {} /\ t \in Socks
      /\ t.head = s.head /\ t.highTx = s.highTx /\ t.nextRx = s.nextRx
      /\ t.cuts = s.cuts
  BY <1>1, <1>3, EmptiedFacts
<1>7. /\ sock' = [sock EXCEPT ![h] = t]
      /\ net' = (net (-) received) (+) SetToBag(new)
  BY DEF Steps
<1> HIDE DEF t, new
<1>8. sock' \in [Hosts -> Socks] /\ sock'[h] = t /\ sock'[p] = sock[p]
  BY <1>1, <1>6, <1>7 DEF IInv
<1>9. /\ Good(sock'[h], Data[h], sock'[p].highTx) /\ sock'[h].out = {}
      /\ sock'[p].out = {}
  BY <1>2, <1>6, <1>8
<1>10. Good(sock'[p], Data[p], sock'[h].highTx)
  BY <1>1, <1>2, <1>3, <1>4, <1>5, <1>6, <1>8, GoodMonotone
<1>11. IsABag(net') /\ BagToSet(net') \subseteq BagToSet(net) \cup new
  <2>1. IsABag(net)
    BY DEF IInv, NetOK
  <2>2. /\ IsABag(net (-) received)
        /\ BagToSet(net (-) received) \subseteq BagToSet(net)
    BY <2>1, BagMinusFacts
  <2>3. IsABag(SetToBag(new)) /\ BagToSet(SetToBag(new)) = new
    BY SetToBagFacts
  <2>4. /\ IsABag((net (-) received) (+) SetToBag(new))
        /\ BagToSet((net (-) received) (+) SetToBag(new))
             \subseteq BagToSet(net (-) received) \cup BagToSet(SetToBag(new))
    BY <2>2, <2>3, BagPlusFacts
  <2> QED
    BY <1>7, <2>2, <2>3, <2>4
<1>12. ASSUME NEW m \in new
       PROVE  /\ m \in Messages
              /\ Sendable(m, sock'[Peer(m.to)].highTx,
                          sock'[Peer(m.to)].nextRx)
  <2>1. PICK x \in s.out :
          m = [to |-> p, seq |-> x.seq, len |-> x.len, ack |-> x.ack,
               ece |-> x.ece, cwr |-> x.cwr]
    BY DEF new
  <2>2. x \in Sendings /\ Sendable(x, s.highTx, s.nextRx)
    BY <1>4
  <2>3. m \in Messages
    BY <1>1, <2>1, <2>2 DEF Sendings, Messages
  <2>4. m.to = p /\ m.seq = x.seq /\ m.len = x.len /\ m.ack = x.ack
    BY <2>1
  <2>5. Sendable(m, s.highTx, s.nextRx)
    BY <2>2, <2>4 DEF Sendable
  <2> HIDE DEF p
  <2> QED
    BY <1>1, <1>6, <1>8, <2>3, <2>4, <2>5
<1>13. ASSUME NEW m \in BagToSet(net)
       PROVE  /\ m \in Messages
              /\ Sendable(m, sock'[Peer(m.to)].highTx,
                          sock'[Peer(m.to)].nextRx)
  <2>1. /\ m \in Messages
        /\ Sendable(m, sock[Peer(m.to)].highTx, sock[Peer(m.to)].nextRx)
    BY DEF IInv, NetOK
  <2>2. /\ m.to \in Hosts /\ m.seq \in Nat /\ m.len \in {0, 1}
        /\ m.ack \in Nat
    BY <2>1 DEF Messages
  <2>3. CASE m.to = h
    <3>1. Peer(m.to) = p
      BY <2>3
    <3> HIDE DEF p
    <3> QED
      BY <1>8, <2>1, <3>1
  <2>4. CASE m.to = p
    <3>1. Peer(m.to) = h
      BY <1>1, <2>4
    <3>2. Sendable(m, sock[h].highTx, sock[h].nextRx)
      BY <2>1, <3>1
    <3>3. Sendable(m, s.highTx, s.nextRx)
      BY <1>3, <1>4, <1>5, <2>2, <3>2 DEF Sendable
    <3> QED
      BY <1>6, <1>8, <2>1, <3>1, <3>3
  <2> QED
    BY <1>1, <2>2, <2>3, <2>4
<1>14. NetOK'
  BY <1>11, <1>12, <1>13 DEF NetOK
<1>15. \A g \in Hosts : /\ Good(sock'[g], Data[g], sock'[Peer(g)].highTx)
                        /\ sock'[g].out = {}
  <2>1. ASSUME NEW g \in Hosts
        PROVE  /\ Good(sock'[g], Data[g], sock'[Peer(g)].highTx)
               /\ sock'[g].out = {}
    <3>1. CASE g = h
      BY <1>9, <3>1
    <3>2. CASE g = p
      BY <1>1, <1>9, <1>10, <3>2
    <3> QED
      BY <1>1, <3>1, <3>2
  <2> QED
    BY <2>1
<1> QED
  BY <1>6, <1>8, <1>14, <1>15

\* The step of h keeps the invariant and cuts the window when it may.
CutOK(h) == CutAllowed(sock[h], sock'[h], sock'[h].head)

LEMMA StepKeeps ==
  ASSUME IInv, NEW h \in Hosts, NEW s, NEW received, IsABag(received),
         Good(s, Data[h], sock[Peer(h)].highTx), Later(sock[h], s),
         CutAllowed(sock[h], s, s.head), Steps(h, s, received),
         marks' \in 0 .. MaxMarks, rtos' \in 0 .. MaxRtos
  PROVE  IInv' /\ \A g \in Hosts : CutOK(g)
<1>1. /\ sock' \in [Hosts -> Socks]
      /\ \A g \in Hosts :
           /\ Good(sock'[g], Data[g], sock'[Peer(g)].highTx)
           /\ sock'[g].out = {}
      /\ NetOK'
      /\ sock'[h].cuts = s.cuts /\ sock'[h].head = s.head
      /\ sock'[Peer(h)] = sock[Peer(h)]
  BY StepsFacts
<1>2. IInv'
  BY <1>1 DEF IInv
<1>3. CutOK(h)
  BY <1>1 DEF CutOK, CutAllowed
<1>4. CutOK(Peer(h))
  <2>1. sock[Peer(h)].cuts \in Nat
    BY Peers DEF IInv, Socks
  <2> QED
    BY <1>1, <2>1 DEF CutOK, CutAllowed
<1>5. Hosts = {h, Peer(h)}
  BY Peers
<1>6. \A g \in Hosts : CutOK(g)
  BY <1>3, <1>4, <1>5
<1> QED
  BY <1>2, <1>6

\* An end as the invariant has it.
LEMMA EndFacts ==
  ASSUME IInv, NEW h \in Hosts
  PROVE  /\ Data[h] \in Nat /\ sock[Peer(h)].highTx \in Nat
         /\ Good(sock[h], Data[h], sock[Peer(h)].highTx)
         /\ sock[h] \in Socks /\ sock[h].head \in Nat
         /\ sock[h].highTx \in Nat /\ sock[h].nextRx \in Nat
         /\ sock[h].cuts \in Nat
         /\ sock[Peer(h)].nextRx \in Nat
         /\ sock[Peer(h)].nextRx <= sock[h].highTx
<1>1. /\ Peer(h) \in Hosts /\ Peer(Peer(h)) = h
      /\ Data[h] \in Nat /\ Data[Peer(h)] \in Nat
  BY Peers, Bounds
<1>2. /\ Good(sock[h], Data[h], sock[Peer(h)].highTx)
      /\ Good(sock[Peer(h)], Data[Peer(h)], sock[h].highTx)
      /\ sock[h] \in Socks /\ sock[Peer(h)] \in Socks
  BY <1>1 DEF IInv
<1>3. /\ sock[Peer(h)].highTx \in Nat /\ sock[h].highTx \in Nat
      /\ sock[h].head \in Nat /\ sock[h].nextRx \in Nat
      /\ sock[h].cuts \in Nat
  BY <1>2 DEF Socks
<1>4. /\ sock[Peer(h)].nextRx \in Nat
      /\ sock[Peer(h)].nextRx <= sock[h].highTx
  BY <1>1, <1>2, <1>3, SaneTypes DEF Good
<1> QED
  BY <1>1, <1>2, <1>3, <1>4

LEMMA ReceiveKeeps ==
  ASSUME IInv, NEW h \in Hosts, Receive(h)
  PROVE  IInv' /\ \A g \in Hosts : CutOK(g)
<1>1. PICK m \in BagToSet(net), ce \in BOOLEAN,
           in \in Inputs(sock[h], Data[h]) :
        /\ m.to = h
        /\ ce => m.len = 1 /\ marks < MaxMarks
        /\ in.dup => m.ack < sock[h].highTx
        /\ Steps(h, ForwardUp(sock[h], m, ce, in, Data[h]), SetToBag({m}))
        /\ marks' = IF ce THEN marks + 1 ELSE marks
        /\ rtos' = rtos
  BY DEF Receive
<1> DEFINE s == ForwardUp(sock[h], m, ce, in, Data[h])
<1>2. /\ Data[h] \in Nat /\ sock[Peer(h)].highTx \in Nat
      /\ Good(sock[h], Data[h], sock[Peer(h)].highTx)
      /\ sock[h].highTx \in Nat
      /\ sock[Peer(h)].nextRx \in Nat
      /\ sock[Peer(h)].nextRx <= sock[h].highTx
  BY EndFacts
<1>3. /\ m \in Messages
      /\ Sendable(m, sock[Peer(h)].highTx, sock[Peer(h)].nextRx)
  BY <1>1 DEF IInv, NetOK
<1>4. /\ m.ack \in Nat /\ m.seq \in Nat /\ m.len \in {0, 1}
      /\ m.ack <= sock[h].highTx /\ m.seq + m.len <= sock[Peer(h)].highTx
  BY <1>2, <1>3 DEF Messages, Sendable
<1>5. in.k \in Nat
  BY <1>2 DEF Inputs
<1>6. /\ Good(s, Data[h], sock[Peer(h)].highTx) /\ Later(sock[h], s)
      /\ CutAllowed(sock[h], s, s.head)
  BY <1>1, <1>2, <1>4, <1>5, ForwardUpFacts
<1>7. marks' \in 0 .. MaxMarks /\ rtos' \in 0 .. MaxRtos
  BY <1>1, Bounds DEF IInv
<1> HIDE DEF s
<1>8. IsABag(SetToBag({m}))
  BY SetToBagFacts
<1>9. Steps(h, s, SetToBag({m}))
  BY <1>1 DEF s
<1> QED
  BY <1>6, <1>7, <1>8, <1>9, StepKeeps

LEMMA PendingEventKeeps ==
  ASSUME IInv, NEW h \in Hosts, PendingEvent(h)
  PROVE  IInv' /\ \A g \in Hosts : CutOK(g)
<1> DEFINE a == [sock[h] EXCEPT !.pending = FALSE]
<1>1. PICK k \in 1 .. Data[h] :
        Steps(h, SendPendingData(a, 0, k, Data[h]), EmptyBag)
  BY DEF PendingEvent
<1> DEFINE s == SendPendingData(a, 0, k, Data[h])
<1>2. /\ Data[h] \in Nat /\ sock[Peer(h)].highTx \in Nat
      /\ Good(sock[h], Data[h], sock[Peer(h)].highTx)
      /\ sock[h] \in Socks /\ sock[h].head \in Nat /\ sock[h].highTx \in Nat
      /\ sock[h].nextRx \in Nat /\ sock[h].cuts \in Nat
  BY EndFacts
<1>3. /\ a \in Socks /\ SameSender(sock[h], a) /\ SameReceiver(sock[h], a)
      /\ a.highTx = sock[h].highTx /\ a.ecnEchoSeq = sock[h].ecnEchoSeq
      /\ a.ecnCWRSeq = sock[h].ecnCWRSeq /\ a.cwrs = sock[h].cwrs
      /\ a.out = sock[h].out
  BY <1>2 DEF Socks, SameSender, SameReceiver
<1> HIDE DEF a
<1>4. Good(a, Data[h], sock[Peer(h)].highTx)
  <2>1. Sane(a, Data[h], sock[Peer(h)].highTx)
    BY <1>2, <1>3 DEF Good, Sane, SameSender, SameReceiver
  <2>2. Backed(a) /\ Once(a)
    BY <1>2, <1>3 DEF Good, Backed, Once, SameSender
  <2> QED
    BY <2>1, <2>2 DEF Good
<1>5. /\ Good(s, Data[h], sock[Peer(h)].highTx)
      /\ SameSender(a, s) /\ SameReceiver(a, s) /\ a.highTx <= s.highTx
  <2>1. k \in Nat
    BY <1>2
  <2> HIDE DEF s
  <2> QED
    BY <1>2, <1>4, <2>1, SendPendingDataFacts DEF s
<1> HIDE DEF s
<1>6. Later(sock[h], s) /\ CutAllowed(sock[h], s, s.head)
  <2>1. /\ sock[h].head <= sock[h].head /\ sock[h].nextRx <= sock[h].nextRx
        /\ ~(sock[h].cuts > sock[h].cuts)
    BY <1>2
  <2> QED
    BY <1>3, <1>5, <2>1 DEF Later, CutAllowed, SameSender, SameReceiver
<1>7. marks' \in 0 .. MaxMarks /\ rtos' \in 0 .. MaxRtos
  BY DEF PendingEvent, IInv
<1>8. Steps(h, s, EmptyBag)
  BY <1>1 DEF s
<1> QED
  BY <1>5, <1>6, <1>7, <1>8, EmptyBagFacts, StepKeeps

LEMMA DelAckTimeoutKeeps ==
  ASSUME IInv, NEW h \in Hosts, DelAckTimeout(h)
  PROVE  IInv' /\ \A g \in Hosts : CutOK(g)
<1> DEFINE s == SendAck(sock[h])
<1>1. /\ Data[h] \in Nat /\ sock[Peer(h)].highTx \in Nat
      /\ Good(sock[h], Data[h], sock[Peer(h)].highTx)
      /\ sock[h].head <= sock[h].head /\ sock[h].highTx <= sock[h].highTx
      /\ sock[h].nextRx <= sock[h].nextRx /\ ~(sock[h].cuts > sock[h].cuts)
  BY EndFacts
<1>2. /\ Good(s, Data[h], sock[Peer(h)].highTx) /\ SameSender(sock[h], s)
      /\ SameReceiver(sock[h], s) /\ s.highTx = sock[h].highTx
  BY <1>1, SendAckFacts
<1>3. /\ Steps(h, s, EmptyBag)
      /\ marks' \in 0 .. MaxMarks /\ rtos' \in 0 .. MaxRtos
  BY DEF DelAckTimeout, IInv
<1> HIDE DEF s
<1>4. Later(sock[h], s) /\ CutAllowed(sock[h], s, s.head)
  BY <1>1, <1>2 DEF Later, CutAllowed, SameSender, SameReceiver
<1> QED
  BY <1>2, <1>3, <1>4, EmptyBagFacts, StepKeeps

LEMMA ReTxTimeoutKeeps ==
  ASSUME IInv, NEW h \in Hosts, ReTxTimeout(h)
  PROVE  IInv' /\ \A g \in Hosts : CutOK(g)
<1> DEFINE a == [sock[h] EXCEPT !.congState = "LOSS",
                                !.recover = sock[h].highTx]
           s == SendDataPacket(a, sock[h].head)
<1>1. /\ Data[h] \in Nat /\ sock[Peer(h)].highTx \in Nat
      /\ Good(sock[h], Data[h], sock[Peer(h)].highTx)
      /\ sock[h].head \in Nat /\ sock[h].highTx \in Nat
      /\ sock[h].nextRx \in Nat /\ sock[h].cuts \in Nat
  BY EndFacts
<1>2. /\ sock[h].head < sock[h].highTx /\ rtos < MaxRtos
      /\ Steps(h, s, EmptyBag) /\ rtos' = rtos + 1 /\ marks' = marks
  BY DEF ReTxTimeout
<1>3. /\ sock[h].cutAt \in Nat /\ sock[h].cutAt <= sock[h].highTx
      /\ sock[h].highTx <= Data[h] + 1 /\ sock[h].highTx <= sock[h].highTx
  BY <1>1, SaneTypes DEF Good
<1>4. "LOSS" \in CongStates /\ Moved(sock[h], a, "LOSS", sock[h].highTx)
  BY DEF CongStates, Moved
<1> HIDE DEF a
<1>5. /\ Good(a, Data[h], sock[Peer(h)].highTx) /\ SameReceiver(sock[h], a)
      /\ a.head = sock[h].head /\ a.highTx = sock[h].highTx
      /\ a.cuts = sock[h].cuts
  BY <1>1, <1>3, <1>4, MovedFacts
<1>6. /\ a.head <= sock[h].head /\ sock[h].head <= a.highTx
      /\ sock[h].head <= Data[h] /\ sock[h].head # a.highTx
  BY <1>1, <1>2, <1>3, <1>5
<1>7. /\ Good(s, Data[h], sock[Peer(h)].highTx)
      /\ SameSender(a, s) /\ SameReceiver(a, s) /\ s.highTx = a.highTx
  BY <1>1, <1>5, <1>6, SendDataPacketFacts
<1> HIDE DEF s
<1>8. Later(sock[h], s) /\ CutAllowed(sock[h], s, s.head)
  <2>1. /\ sock[h].head <= sock[h].head /\ sock[h].nextRx <= sock[h].nextRx
        /\ ~(sock[h].cuts > sock[h].cuts)
    BY <1>1
  <2> QED
    BY <1>3, <1>5, <1>7, <2>1
       DEF Later, CutAllowed, SameSender, SameReceiver
<1>9. marks' \in 0 .. MaxMarks /\ rtos' \in 0 .. MaxRtos
  BY <1>2, Bounds DEF IInv
<1> QED
  BY <1>2, <1>7, <1>8, <1>9, EmptyBagFacts, StepKeeps

LEMMA NothingCut ==
  ASSUME IInv, sock' = sock
  PROVE  \A g \in Hosts : CutOK(g)
BY DEF IInv, Socks, CutOK, CutAllowed

LEMMA LoseKeeps ==
  ASSUME IInv, Lose
  PROVE  IInv' /\ \A g \in Hosts : CutOK(g)
<1>1. PICK m \in BagToSet(net) :
        net' = net (-) SetToBag({m}) /\ UNCHANGED <<sock, marks, rtos>>
  BY DEF Lose
<1>2. IsABag(net') /\ BagToSet(net') \subseteq BagToSet(net)
  BY <1>1, SetToBagFacts, BagMinusFacts DEF IInv, NetOK
<1>3. IInv'
  BY <1>1, <1>2 DEF IInv, NetOK
<1> QED
  BY <1>1, <1>3, NothingCut

-----------------------------------------------------------------------------
(* The theorems.                                                           *)

LEMMA InitEstablishes == Init => IInv
<1> SUFFICES ASSUME Init PROVE IInv
  OBVIOUS
<1>1. /\ Established \in Socks /\ Established.out = {}
  BY DEF Established, Socks, EcnStates, CongStates
<1>2. ASSUME NEW data \in Nat PROVE Good(Established, data, 1)
  <2>1. Sane(Established, data, 1)
    BY <1>1, <1>2 DEF Sane, Established
  <2>2. Backed(Established) /\ Once(Established)
    BY DEF Backed, Once, Established
  <2> QED
    BY <2>1, <2>2 DEF Good
<1>3. /\ sock \in [Hosts -> Socks]
      /\ \A h \in Hosts : sock[h] = Established
  BY <1>1 DEF Init
<1>4. \A h \in Hosts : /\ Good(sock[h], Data[h], sock[Peer(h)].highTx)
                       /\ sock[h].out = {}
  <2>1. ASSUME NEW h \in Hosts
        PROVE  /\ Good(sock[h], Data[h], sock[Peer(h)].highTx)
               /\ sock[h].out = {}
    <3>1. sock[h] = Established /\ sock[Peer(h)] = Established
          /\ Data[h] \in Nat
      BY <1>3, Peers, Bounds
    <3>2. Established.highTx = 1
      BY DEF Established
    <3> QED
      BY <1>1, <1>2, <3>1, <3>2
  <2> QED
    BY <2>1
<1>5. NetOK
  BY EmptyBagFacts DEF Init, NetOK
<1>6. marks \in 0 .. MaxMarks /\ rtos \in 0 .. MaxRtos
  BY Bounds DEF Init
<1> QED
  BY <1>3, <1>4, <1>5, <1>6 DEF IInv

LEMMA NextKeeps ==
  ASSUME IInv, [Next]_vars
  PROVE  IInv' /\ \A g \in Hosts : CutOK(g)
<1>1. ASSUME NEW h \in Hosts,
             Receive(h) \/ PendingEvent(h) \/ DelAckTimeout(h)
               \/ ReTxTimeout(h)
      PROVE  IInv' /\ \A g \in Hosts : CutOK(g)
  BY <1>1, ReceiveKeeps, PendingEventKeeps, DelAckTimeoutKeeps,
     ReTxTimeoutKeeps
<1>2. CASE Lose
  BY <1>2, LoseKeeps
<1>3. CASE UNCHANGED vars
  <2>1. IInv'
    BY <1>3 DEF vars, IInv, NetOK
  <2> QED
    BY <1>3, <2>1, NothingCut DEF vars
<1> QED
  BY <1>1, <1>2, <1>3 DEF Next

\* The invariant the results below rest on: what is in flight was sent by the
\* other end, every CWR flag has its reduction, and a socket that may reduce
\* again is beyond what was out at the last reduction (or comes from a timeout).
THEOREM Inductive == Spec => []IInv
<1>1. IInv /\ [Next]_vars => IInv'
  BY NextKeeps
<1> QED
  BY <1>1, InitEstablishes, PTL DEF Spec

LEMMA IInvTypes == IInv => TypeOK
<1> SUFFICES ASSUME IInv PROVE TypeOK
  OBVIOUS
<1>1. ASSUME NEW h \in Hosts
      PROVE  LET s == sock[h]
             IN /\ s.ecnState \in EcnStates /\ s.congState \in CongStates
                /\ s.out = {} /\ {s.delAck, s.pending} \subseteq BOOLEAN
                /\ s.highTx \in 1 .. Data[h] + 1 /\ s.head \in 1 .. s.highTx
                /\ s.nextRx \in 1 .. sock[Peer(h)].highTx
                /\ s.stored \subseteq s.nextRx + 1 .. sock[Peer(h)].highTx
                /\ {s.recover, s.ecnEchoSeq, s.ecnCWRSeq}
                     \subseteq 0 .. s.highTx
                /\ s.ecnCESeq \in 0 .. sock[Peer(h)].highTx
  <2> DEFINE s == sock[h]
             high == sock[Peer(h)].highTx
  <2>1. /\ Data[h] \in Nat /\ high \in Nat /\ Good(s, Data[h], high)
        /\ s \in Socks /\ s.out = {}
    BY EndFacts DEF IInv
  <2> HIDE DEF s, high
  <2>2. /\ s.ecnState \in EcnStates /\ s.congState \in CongStates
        /\ s.delAck \in BOOLEAN
    BY <2>1, SaneTypes DEF Good
  <2>3. s.pending \in BOOLEAN
    BY <2>1 DEF Socks
  <2>4. /\ s.highTx \in 1 .. Data[h] + 1 /\ s.head \in 1 .. s.highTx
        /\ s.nextRx \in 1 .. high /\ s.ecnCESeq \in 0 .. high
        /\ s.recover \in 0 .. s.highTx /\ s.ecnEchoSeq \in 0 .. s.highTx
        /\ s.ecnCWRSeq \in 0 .. s.highTx /\ s.nextRx \in Nat
    BY <2>1, SaneTypes DEF Good
  <2>5. s.stored \subseteq s.nextRx + 1 .. high
    <3>1. \A n \in s.stored : n \in Nat /\ s.nextRx < n /\ n < high
      BY <2>1, SaneTypes DEF Good, Sane
    <3> QED
      BY <2>1, <2>4, <3>1
  <2> QED
    BY <2>1, <2>2, <2>3, <2>4, <2>5 DEF s, high
<1> QED
  BY <1>1 DEF IInv, NetOK, TypeOK

\* Whatever is lost, reordered or sent again, no end is ahead of the other: no
\* acknowledgement goes beyond what was sent (ReceivedAck 1567), no record of
\* the ECN answer beyond the window (SendDataPacket 2785, ProcessEcho's part of
\* ReceivedAck 1620).
THEOREM TypeCorrect == Spec => []TypeOK
BY Inductive, IInvTypes, PTL

\* Every CWR flag that a sender has set is backed by a reduction of its window
\* for an echo, for any number of timeouts and recoveries in between
\* (SendDataPacket 2785, EnterCwr 1386).
THEOREM CwrBacked == Spec => []CwrMeansReduced
<1>1. IInv => CwrMeansReduced
  BY DEF IInv, Good, Backed, CwrMeansReduced
<1> QED
  BY <1>1, Inductive, PTL

\* The window is reduced for an echo only beyond what was out at the last
\* reduction, or while the socket recovers from a timeout (ReceivedAck 1620).
THEOREM CutsOncePerWindow == Spec => OncePerWindow
<1>1. ASSUME IInv, [Next]_vars
      PROVE  [\A h \in Hosts : sock'[h].cuts > sock[h].cuts =>
                sock'[h].head > sock[h].cutAt
                \/ sock[h].congState = "LOSS"]_vars
  BY <1>1, NextKeeps DEF CutOK, CutAllowed
<1> QED
  BY <1>1, Inductive, PTL DEF Spec, OncePerWindow
=============================================================================

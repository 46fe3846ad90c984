------------------------ MODULE TcpZeroWindow_proofs ------------------------
(***************************************************************************)
(* Flow control for any amount of data, any sizes of segments, buffers and *)
(* windows, any losses and timeouts: no byte is sent without room for it,  *)
(* and what is delivered is what was written.                              *)
(***************************************************************************)
EXTENDS TcpZeroWindow, FiniteSetTheorems, TLAPS

-----------------------------------------------------------------------------
(* Numbers and loops.                                                      *)

LEMMA LeastExists ==
  ASSUME NEW S \in SUBSET Nat, S # {}
  PROVE  \E n \in S : \A k \in S : n <= k
<1> DEFINE R == {p \in Nat \X Nat : p[1] < p[2]}
<1>1. IsWellFoundedOn(R, Nat)
  BY NatLessThanWellFounded DEF OpToRel
<1>2. \A j, k \in Nat : <<j, k>> \in R <=> j < k
  OBVIOUS
<1> HIDE DEF R
<1>3. PICK n \in S : \A k \in S : ~(<<k, n>> \in R)
  BY <1>1, WFMin, Zenon
<1>4. \A k \in S : ~(k < n)
  BY <1>2, <1>3
<1>5. \A k \in S : k \in Nat /\ n \in Nat
  OBVIOUS
<1> QED
  BY <1>4, <1>5

\* r holds the first n rounds of a loop that starts in s.
Rounds(r, n, step, s, S) ==
  /\ r \in [0 .. n -> S]
  /\ \A i \in 0 .. n : r[i] = IF i = 0 THEN s ELSE step[r[i - 1]]

\* A loop whose body keeps S can be run for any number of rounds.
LEMMA RoundsExist ==
  ASSUME NEW S, NEW step \in [S -> S], NEW s \in S, NEW n \in Nat
  PROVE  \E r : Rounds(r, n, step, s, S)
<1> DEFINE Bad == {k \in Nat : ~ \E r : Rounds(r, k, step, s, S)}
<1> SUFFICES ASSUME Bad # {} PROVE FALSE
  OBVIOUS
<1>1. Bad \in SUBSET Nat
  OBVIOUS
<1> HIDE DEF Bad
<1>2. PICK k \in Bad : \A j \in Bad : k <= j
  BY <1>1, LeastExists
<1>3. k \in Nat /\ ~ \E r : Rounds(r, k, step, s, S)
  BY DEF Bad
<1>4. CASE k = 0
  <2> DEFINE r == [i \in 0 .. 0 |-> s]
  <2>1. Rounds(r, 0, step, s, S)
    BY DEF Rounds
  <2> QED
    BY <1>3, <1>4, <2>1
<1>5. CASE k # 0
  <2>1. k - 1 \in Nat /\ k - 1 \notin Bad
    BY <1>2, <1>3, <1>5
  <2>2. PICK q : Rounds(q, k - 1, step, s, S)
    BY <2>1 DEF Bad
  <2> DEFINE r == [i \in 0 .. k |-> IF i = k THEN step[q[k - 1]] ELSE q[i]]
  <2>3. /\ k - 1 \in 0 .. k - 1
        /\ \A i \in 0 .. k : i # k => i \in 0 .. k - 1
        /\ \A i \in 0 .. k : i # 0 => i - 1 \in 0 .. k - 1
    BY <1>3, <1>5, <2>1
  <2>4. q[k - 1] \in S /\ step[q[k - 1]] \in S
    BY <2>2, <2>3 DEF Rounds
  <2>5. r \in [0 .. k -> S]
    BY <2>2, <2>3, <2>4 DEF Rounds
  <2>6. ASSUME NEW i \in 0 .. k
        PROVE  r[i] = IF i = 0 THEN s ELSE step[r[i - 1]]
    <3>1. CASE i = k
      <4>1. i - 1 \in 0 .. k /\ i - 1 # k
        BY <1>3, <1>5, <3>1
      <4>2. r[i - 1] = q[k - 1]
        BY <3>1, <4>1
      <4> QED
        BY <1>5, <3>1, <4>2
    <3>2. CASE i # k
      <4>1. r[i] = q[i] /\ i \in 0 .. k - 1
        BY <2>3, <3>2
      <4>2. CASE i = 0
        BY <2>2, <4>1, <4>2 DEF Rounds
      <4>3. CASE i # 0
        <5>1. i - 1 \in 0 .. k /\ i - 1 # k /\ i - 1 \in 0 .. k - 1
          BY <1>3, <3>2, <4>3
        <5> QED
          BY <2>2, <4>1, <4>3, <5>1 DEF Rounds
      <4> QED
        BY <4>2, <4>3
    <3> QED
      BY <3>1, <3>2
  <2>7. Rounds(r, k, step, s, S)
    BY <2>5, <2>6 DEF Rounds
  <2> QED
    BY <1>3, <2>7
<1> QED
  BY <1>4, <1>5

\* What starts in S and leaves it in no round ends in S.
LEMMA RoundsStay ==
  ASSUME NEW S, NEW n \in Nat, NEW r, r[0] \in S,
         \A i \in 1 .. n : r[i - 1] \in S => r[i] \in S
  PROVE  r[n] \in S
<1> DEFINE Bad == {k \in 0 .. n : r[k] \notin S}
<1>1. SUFFICES ASSUME Bad # {} PROVE FALSE
  OBVIOUS
<1>2. Bad \in SUBSET Nat
  OBVIOUS
<1> HIDE DEF Bad
<1>3. PICK k \in Bad : \A j \in Bad : k <= j
  BY <1>1, <1>2, LeastExists
<1>4. k \in 0 .. n /\ r[k] \notin S
  BY DEF Bad
<1>5. k \in 1 .. n /\ k - 1 \in 0 .. n
  BY <1>4
<1>6. r[k - 1] \in S
  BY <1>3, <1>4, <1>5 DEF Bad
<1> QED
  BY <1>4, <1>5, <1>6

\* SendPendingData stays in every set that a round of it keeps.
LEMMA LoopStays ==
  ASSUME NEW S, NEW s \in S, NEW cWnd, s.written - s.head \in Nat,
         \A t \in S : SendNext(t, cWnd) \in S
  PROVE  SendPendingData(s, cWnd) \in S
<1> DEFINE n == s.written - s.head
           F(g) == [i \in 0 .. n |->
                      IF i = 0 THEN s ELSE SendNext(g[i - 1], cWnd)]
           round == CHOOSE g : g = F(g)
           step == [t \in S |-> SendNext(t, cWnd)]
<1>1. SendPendingData(s, cWnd) = round[n]
  BY DEF SendPendingData
<1>2. \E g : g = F(g)
  <2>1. step \in [S -> S]
    OBVIOUS
  <2> HIDE DEF step
  <2>2. PICK r : Rounds(r, n, step, s, S)
    BY <2>1, RoundsExist
  <2>3. r = [i \in 0 .. n |-> r[i]]
    BY <2>2 DEF Rounds
  <2>4. ASSUME NEW i \in 0 .. n
        PROVE  r[i] = IF i = 0 THEN s ELSE SendNext(r[i - 1], cWnd)
    <3>1. CASE i = 0
      BY <2>2, <3>1 DEF Rounds
    <3>2. CASE i # 0
      <4>1. i - 1 \in 0 .. n
        BY <3>2
      <4>2. r[i - 1] \in S /\ r[i] = step[r[i - 1]]
        BY <2>2, <3>2, <4>1 DEF Rounds
      <4> QED
        BY <3>2, <4>2 DEF step
    <3> QED
      BY <3>1, <3>2
  <2>5. r = F(r)
    BY <2>3, <2>4
  <2> QED
    BY <2>5
<1>3. round = F(round)
  <2> HIDE DEF F
  <2> QED
    BY <1>2
<1> HIDE DEF round
<1>4. \A i \in 0 .. n :
        round[i] = IF i = 0 THEN s ELSE SendNext(round[i - 1], cWnd)
  <2> DEFINE e(i) == IF i = 0 THEN s ELSE SendNext(round[i - 1], cWnd)
  <2>1. round = [i \in 0 .. n |-> e(i)]
    BY <1>3
  <2> HIDE DEF e
  <2>2. \A i \in 0 .. n : round[i] = e(i)
    BY <2>1
  <2> QED
    BY <2>2 DEF e
<1>5. n \in Nat
  OBVIOUS
<1> HIDE DEF n
<1>6. round[0] \in S
  BY <1>4, <1>5
<1>7. ASSUME NEW i \in 1 .. n, round[i - 1] \in S PROVE round[i] \in S
  <2>1. i \in 0 .. n /\ i # 0
    BY <1>5
  <2> QED
    BY <1>4, <1>7, <2>1
<1> QED
  BY <1>1, <1>5, <1>6, <1>7, RoundsStay

-----------------------------------------------------------------------------
(* The inductive invariant.                                                *)

DataSegments == [kind : {"data", "probe"}, seq : Nat, len : 1 .. SegSize]
AckSegments == [kind : {"ack"}, ack : Nat, win : 0 .. Buffer]

Senders ==
  [written : Nat, head : Nat, nextTx : Nat, highTx : Nat, lost : SUBSET Nat,
   rWnd : 0 .. Buffer, highRxAckMark : Nat, retx : BOOLEAN,
   persist : BOOLEAN, pending : BOOLEAN, out : SUBSET DataSegments]

Receivers ==
  [nextRx : Nat, stored : SUBSET Nat, read : Nat, delAck : BOOLEAN]

\* A sender whose peer has room for the bytes before room: what was sent fits,
\* and so does what the last acknowledgement lets it send.
Good(s, room) ==
  /\ s \in Senders
  /\ s.head <= s.nextTx /\ s.nextTx <= s.highTx /\ s.highTx <= s.written
  /\ \A n \in s.lost : s.head <= n /\ n < s.highTx
  /\ s.head <= s.highRxAckMark /\ s.highRxAckMark <= s.written
  /\ s.highTx <= room /\ s.highRxAckMark + s.rWnd <= room
  /\ \A m \in s.out : m.seq + m.len <= s.written

\* A receiver holds nothing beyond its buffer or the end of the stream.
Holds(r, written) ==
  /\ r \in Receivers
  /\ r.read <= r.nextRx /\ r.nextRx <= MaxRx(r) /\ r.nextRx <= written
  /\ \A n \in r.stored : r.nextRx < n /\ n < MaxRx(r) /\ n < written

\* What is in flight is of the stream, and offers no room that is not there.
Carried(m, written, nextRx, room) ==
  \/ m \in DataSegments /\ m.seq + m.len <= written
  \/ m \in AckSegments /\ m.ack <= nextRx /\ m.ack + m.win <= room

IInv ==
  /\ Good(snd, MaxRx(rcv)) /\ snd.out = {}
  /\ Holds(rcv, snd.written) /\ snd.highRxAckMark <= rcv.nextRx
  /\ sent \in 0 .. Packets /\ snd.written <= sent * SegSize
  /\ \A m \in net : Carried(m, snd.written, rcv.nextRx, MaxRx(rcv))
  /\ crashed \in BOOLEAN /\ losses \in 0 .. MaxLosses
  /\ early \in 0 .. MaxEarly

LEMMA Bounds ==
  /\ Packets \in Nat /\ MaxLosses \in Nat /\ MaxEarly \in Nat
  /\ TxBuffer \in Nat /\ Buffer \in Nat /\ MaxCWnd \in Nat
  /\ SegSize \in Nat /\ SegSize >= 1
BY ZeroWindowAssumption

LEMMA LeastFacts ==
  ASSUME NEW S \in SUBSET Nat, S # {}
  PROVE  Least(S) \in S /\ \A k \in S : Least(S) <= k
BY LeastExists DEF Least

\* The smaller of two and of three numbers.
LEMMA LeastOfTwo ==
  ASSUME NEW a \in Int, NEW b \in Int
  PROVE  /\ Least({a, b}) \in {a, b}
         /\ Least({a, b}) <= a /\ Least({a, b}) <= b
<1>1. \E n \in {a, b} : \A k \in {a, b} : n <= k
  <2>1. CASE a <= b
    BY <2>1
  <2>2. CASE b <= a
    BY <2>2
  <2> QED
    BY <2>1, <2>2
<1> QED
  BY <1>1 DEF Least

LEMMA LeastOfThree ==
  ASSUME NEW a \in Int, NEW b \in Int, NEW c \in Int
  PROVE  /\ Least({a, b, c}) \in {a, b, c}
         /\ Least({a, b, c}) <= a /\ Least({a, b, c}) <= b
         /\ Least({a, b, c}) <= c
<1>1. \E n \in {a, b, c} : \A k \in {a, b, c} : n <= k
  <2>1. CASE a <= b /\ a <= c
    BY <2>1
  <2>2. CASE b <= a /\ b <= c
    BY <2>2
  <2>3. CASE c <= a /\ c <= b
    BY <2>3
  <2> QED
    BY <2>1, <2>2, <2>3
<1> QED
  BY <1>1 DEF Least

LEMMA GoodTypes ==
  ASSUME NEW s, NEW room \in Nat, Good(s, room)
  PROVE  /\ s \in Senders
         /\ s.written \in Nat /\ s.head \in Nat /\ s.nextTx \in Nat
         /\ s.highTx \in Nat /\ s.lost \in SUBSET Nat /\ s.rWnd \in Nat
         /\ s.rWnd <= Buffer /\ s.highRxAckMark \in Nat
         /\ s.retx \in BOOLEAN /\ s.persist \in BOOLEAN
         /\ s.pending \in BOOLEAN /\ s.out \in SUBSET DataSegments
BY Bounds DEF Good, Senders

\* More room does no harm.
LEMMA GoodWithMore ==
  ASSUME NEW s, NEW room \in Nat, NEW more \in Nat, Good(s, room),
         room <= more
  PROVE  Good(s, more)
BY GoodTypes DEF Good

-----------------------------------------------------------------------------
(* Sending.                                                                *)

LEMMA LostIsFinite ==
  ASSUME NEW s, NEW room \in Nat, Good(s, room)
  PROVE  Cardinality(s.lost) \in Nat
<1>1. s.head \in Nat /\ s.highTx \in Nat /\ s.lost \in SUBSET Nat
  BY GoodTypes
<1>2. s.lost \subseteq s.head .. s.highTx
  BY <1>1 DEF Good
<1>3. IsFiniteSet(s.head .. s.highTx)
  <2>1. s.head \in Int /\ s.highTx \in Int
    BY <1>1
  <2> QED
    BY <2>1, FS_Interval
<1> QED
  BY <1>2, <1>3, FS_Subset, FS_CardinalityType

LEMMA AvailableFacts ==
  ASSUME NEW s, NEW room \in Nat, Good(s, room), NEW cWnd \in Nat
  PROVE  AvailableWindow(s, cWnd) \in Nat
<1> DEFINE inFlight == s.highTx - s.head - Cardinality(s.lost)
           window == Least({s.rWnd, cWnd})
<1>1. Cardinality(s.lost) \in Nat
  BY LostIsFinite
<1>2. s.head \in Nat /\ s.highTx \in Nat /\ s.rWnd \in Nat
  BY GoodTypes
<1>3. inFlight \in Int
  BY <1>1, <1>2
<1>4. window \in Nat
  <2>1. s.rWnd \in Int /\ cWnd \in Int
    BY <1>2
  <2>2. window \in {s.rWnd, cWnd}
    BY <2>1, LeastOfTwo
  <2> QED
    BY <1>2, <2>2
<1>5. AvailableWindow(s, cWnd)
        = IF inFlight > window THEN 0 ELSE window - inFlight
  BY DEF AvailableWindow
<1> HIDE DEF inFlight, window
<1> QED
  BY <1>3, <1>4, <1>5

\* What is lost is sent again, at most up to its end.
LEMMA LostRun ==
  ASSUME NEW L \in SUBSET Nat, NEW seq \in L
  PROVE  \E n \in 1 .. SegSize : /\ seq .. seq + n - 1 \subseteq L
                                 /\ n = SegSize \/ seq + n \notin L
<1> DEFINE Ends == {n \in 1 .. SegSize : n = SegSize \/ seq + n \notin L}
<1>1. SegSize \in Ends
  BY Bounds
<1>2. Ends \in SUBSET Nat
  OBVIOUS
<1>3. PICK n \in Ends : \A k \in Ends : n <= k
  BY <1>1, <1>2, LeastExists
<1>4. n \in 1 .. SegSize /\ (n = SegSize \/ seq + n \notin L)
  OBVIOUS
<1>5. ASSUME NEW i \in seq .. seq + n - 1
      PROVE  i \in L
  <2>1. CASE i = seq
    BY <2>1
  <2>2. CASE i # seq
    <3>1. i - seq \in 1 .. SegSize /\ i - seq < n /\ seq + (i - seq) = i
      BY <1>4, <2>2, Bounds
    <3>2. i - seq \notin Ends
      BY <1>3, <1>4, <3>1, Bounds
    <3> QED
      BY <3>1, <3>2
  <2> QED
    BY <2>1, <2>2
<1> QED
  BY <1>4, <1>5

LEMMA NextSegMax ==
  ASSUME NEW s, NEW room \in Nat, Good(s, room)
  PROVE  NextSeg(s).max \in Int
<1>1. CASE s.lost # {}
  <2>1. s.lost \in SUBSET Nat
    BY GoodTypes
  <2>2. Least(s.lost) \in s.lost
    BY <1>1, <2>1, LeastFacts
  <2>3. \E n \in 1 .. SegSize :
          /\ Least(s.lost) .. Least(s.lost) + n - 1 \subseteq s.lost
          /\ n = SegSize \/ Least(s.lost) + n \notin s.lost
    BY <2>1, <2>2, LostRun
  <2>4. NextSeg(s).max \in 1 .. SegSize
    BY <1>1, <2>3 DEF NextSeg
  <2> QED
    BY <2>4, Bounds
<1>2. CASE s.lost = {}
  <2> DEFINE b == s.written - s.highTx
             c == s.rWnd - (s.highTx - s.head)
  <2>1. SegSize \in Int /\ b \in Int /\ c \in Int
    BY GoodTypes, Bounds
  <2>2. NextSeg(s).max = Least({SegSize, b, c})
    BY <1>2 DEF NextSeg
  <2> HIDE DEF b, c
  <2>3. NextSeg(s).max \in {SegSize, b, c}
    BY <2>1, <2>2, LeastOfThree
  <2> QED
    BY <2>1, <2>3
<1> QED
  BY <1>1, <1>2

\* The next segment is of the stream, and there is room for it.
LEMMA NextSegFacts ==
  ASSUME NEW s, NEW room \in Nat, Good(s, room),
         NEW len \in Nat \ {0}, len <= NextSeg(s).max
  PROVE  /\ NextSeg(s).seq \in Nat
         /\ s.head <= NextSeg(s).seq /\ len <= SegSize
         /\ NextSeg(s).seq + len <= s.written
         /\ NextSeg(s).seq + len <= room
<1>1. /\ s.head \in Nat /\ s.highTx \in Nat /\ s.written \in Nat
      /\ s.rWnd \in Nat /\ s.lost \in SUBSET Nat /\ s.highRxAckMark \in Nat
  BY GoodTypes
<1>2. /\ s.head <= s.highTx /\ s.highTx <= s.written /\ s.highTx <= room
      /\ s.head + s.rWnd <= room
      /\ \A n \in s.lost : s.head <= n /\ n < s.highTx
  BY <1>1, GoodTypes DEF Good
<1>3. CASE s.lost # {}
  <2> DEFINE seq == Least(s.lost)
             run(n) == /\ seq .. seq + n - 1 \subseteq s.lost
                       /\ n = SegSize \/ seq + n \notin s.lost
             max == CHOOSE n \in 1 .. SegSize : run(n)
  <2>1. NextSeg(s) = [seq |-> seq, max |-> max]
    BY <1>3 DEF NextSeg
  <2>2. seq \in s.lost
    BY <1>1, <1>3, LeastFacts
  <2>3. \E n \in 1 .. SegSize : run(n)
    BY <1>1, <2>2, LostRun
  <2>4. max \in 1 .. SegSize /\ run(max)
    BY <2>3
  <2> HIDE DEF seq, max
  <2>5. seq + max - 1 \in s.lost
    BY <1>1, <2>2, <2>4, Bounds
  <2>6. seq \in Nat /\ max \in Nat /\ s.head <= seq /\ seq + max <= s.highTx
    BY <1>1, <1>2, <2>2, <2>4, <2>5, Bounds
  <2>7. NextSeg(s).seq = seq /\ NextSeg(s).max = max
    BY <2>1
  <2> QED
    BY <1>1, <1>2, <2>4, <2>6, <2>7, Bounds
<1>4. CASE s.lost = {}
  <2> DEFINE a == SegSize
             b == s.written - s.highTx
             c == s.rWnd - (s.highTx - s.head)
             max == Least({a, b, c})
  <2>1. NextSeg(s) = [seq |-> s.highTx, max |-> max]
    BY <1>4 DEF NextSeg
  <2>2. a \in Int /\ b \in Int /\ c \in Int
    BY <1>1, Bounds
  <2>3. max \in {a, b, c} /\ max <= a /\ max <= b /\ max <= c
    <3> HIDE DEF a, b, c
    <3> QED
      BY <2>2, LeastOfThree
  <2>4. max \in Int
    BY <2>2, <2>3
  <2> HIDE DEF max
  <2>5. NextSeg(s).seq = s.highTx /\ NextSeg(s).max = max
    BY <2>1
  <2> QED
    BY <1>1, <1>2, <2>2, <2>3, <2>4, <2>5, Bounds
<1> QED
  BY <1>3, <1>4

\* t is s after len bytes from seq on were handed to the network.
Sent(s, seq, len, t) == t = SendDataPacket(s, seq, len)

LEMMA SentFacts ==
  ASSUME NEW s \in Senders, NEW seq \in Nat, NEW len \in 1 .. SegSize,
         NEW t, Sent(s, seq, len, t)
  PROVE  /\ t \in Senders
         /\ t.written = s.written /\ t.head = s.head /\ t.rWnd = s.rWnd
         /\ t.highRxAckMark = s.highRxAckMark /\ t.nextTx = seq + len
         /\ t.highTx = IF seq + len > s.highTx THEN seq + len ELSE s.highTx
         /\ t.lost \subseteq s.lost
         /\ t.out = s.out \cup
                      {[kind |-> "data", seq |-> seq, len |-> len]}
<1> DEFINE m == [kind |-> "data", seq |-> seq, len |-> len]
           end == IF seq + len > s.highTx THEN seq + len ELSE s.highTx
           left == s.lost \ (seq .. seq + len - 1)
<1>1. t = [s EXCEPT !.out = s.out \cup {m}, !.retx = TRUE,
                    !.nextTx = seq + len, !.lost = left, !.highTx = end]
  BY DEF Sent, SendDataPacket, Senders
<1>2. /\ m \in DataSegments /\ seq + len \in Nat /\ end \in Nat
      /\ left \in SUBSET Nat /\ left \subseteq s.lost
  BY Bounds DEF DataSegments, Senders
<1>3. s.out \cup {m} \in SUBSET DataSegments
  BY <1>2 DEF Senders
<1> HIDE DEF m, end, left
<1>4. t \in Senders
  BY <1>1, <1>2, <1>3 DEF Senders
<1>5. /\ t.written = s.written /\ t.head = s.head /\ t.rWnd = s.rWnd
      /\ t.highRxAckMark = s.highRxAckMark /\ t.nextTx = seq + len
      /\ t.highTx = end /\ t.lost = left /\ t.out = s.out \cup {m}
  BY <1>1 DEF Senders
<1> QED
  BY <1>2, <1>4, <1>5 DEF m, end, left

\* t has as much to send as s, and as much of it acknowledged.
SameStream(s, t) ==
  /\ t.written = s.written /\ t.head = s.head
  /\ t.highRxAckMark = s.highRxAckMark

LEMMA SendNextGood ==
  ASSUME NEW s, NEW room \in Nat, Good(s, room), NEW cWnd \in Nat
  PROVE  Good(SendNext(s, cWnd), room) /\ SameStream(s, SendNext(s, cWnd))
<1> DEFINE avail == AvailableWindow(s, cWnd)
           next == NextSeg(s)
           stop == avail = 0 \/ next.max <= 0
                     \/ SillyWindow(s, avail, next.seq)
           len == Least({avail, next.max})
           t == SendDataPacket(s, next.seq, len)
<1>1. SendNext(s, cWnd) = IF stop THEN s ELSE t
  BY DEF SendNext
<1>2. CASE stop
  BY <1>1, <1>2 DEF SameStream
<1>3. CASE ~stop
  <2>1. avail \in Nat /\ avail # 0
    BY <1>3, AvailableFacts
  <2>2. next.max \in Int /\ next.max > 0
    BY <1>3, NextSegMax
  <2> HIDE DEF avail
  <2>3. len \in Nat \ {0} /\ len <= next.max
    <3> DEFINE max == next.max
    <3>1. max \in Int /\ avail \in Int
      BY <2>1, <2>2
    <3> HIDE DEF max
    <3>2. /\ Least({avail, max}) \in {avail, max}
          /\ Least({avail, max}) <= max
      BY <3>1, LeastOfTwo
    <3>3. max > 0
      BY <2>2 DEF max
    <3>4. Least({avail, max}) \in Nat \ {0}
      BY <2>1, <3>1, <3>2, <3>3
    <3> QED
      BY <3>2, <3>4 DEF max
  <2> HIDE DEF len
  <2>4. /\ next.seq \in Nat /\ s.head <= next.seq /\ len <= SegSize
        /\ next.seq + len <= s.written /\ next.seq + len <= room
    BY <2>3, NextSegFacts
  <2> DEFINE seq == next.seq
  <2>5. seq \in Nat /\ len \in 1 .. SegSize /\ s \in Senders
    BY <2>3, <2>4, Bounds, GoodTypes
  <2>6. Sent(s, seq, len, t)
    BY DEF Sent
  <2>7. /\ seq \in Nat /\ s.head <= seq /\ len <= SegSize
        /\ seq + len <= s.written /\ seq + len <= room
    BY <2>4
  <2> HIDE DEF seq, t, next
  <2>8. /\ t \in Senders
        /\ t.written = s.written /\ t.head = s.head /\ t.rWnd = s.rWnd
        /\ t.highRxAckMark = s.highRxAckMark /\ t.nextTx = seq + len
        /\ t.highTx = IF seq + len > s.highTx THEN seq + len ELSE s.highTx
        /\ t.lost \subseteq s.lost
        /\ t.out = s.out \cup {[kind |-> "data", seq |-> seq, len |-> len]}
    BY <2>5, <2>6, SentFacts
  <2>9. Good(t, room)
    <3>1. /\ s.head \in Nat /\ s.highTx \in Nat /\ s.written \in Nat
          /\ s.nextTx \in Nat /\ s.lost \in SUBSET Nat
      BY GoodTypes
    <3>2. /\ t.head <= t.nextTx /\ t.nextTx <= t.highTx
          /\ t.highTx <= t.written /\ t.highTx <= room
          /\ s.highTx <= t.highTx
      BY <2>3, <2>5, <2>7, <2>8, <3>1 DEF Good
    <3>3. \A n \in t.lost : t.head <= n /\ n < t.highTx
      <4>1. \A n \in s.lost : n \in Nat /\ s.head <= n /\ n < s.highTx
        BY <3>1 DEF Good
      <4>2. t.highTx \in Nat
        BY <2>8 DEF Senders
      <4> QED
        BY <2>8, <3>1, <3>2, <4>1, <4>2
    <3>4. /\ t.head <= t.highRxAckMark /\ t.highRxAckMark <= t.written
          /\ t.highRxAckMark + t.rWnd <= room
      BY <2>8 DEF Good
    <3>5. \A m \in t.out : m.seq + m.len <= t.written
      BY <2>7, <2>8 DEF Good
    <3> QED
      BY <2>8, <3>2, <3>3, <3>4, <3>5 DEF Good
  <2> QED
    BY <1>1, <1>3, <2>8, <2>9 DEF SameStream
<1> QED
  BY <1>2, <1>3

\* SendPendingData sends what there is room for, whatever it began with.
LEMMA SendPendingGood ==
  ASSUME NEW s, NEW room \in Nat, Good(s, room), NEW cWnd \in Nat
  PROVE  /\ Good(SendPendingData(s, cWnd), room)
         /\ SameStream(s, SendPendingData(s, cWnd))
<1> DEFINE S == {t \in Senders : Good(t, room) /\ SameStream(s, t)}
<1>1. s \in S
  BY GoodTypes DEF SameStream
<1>2. s.written - s.head \in Nat
  BY GoodTypes DEF Good
<1>3. ASSUME NEW t \in S PROVE SendNext(t, cWnd) \in S
  <2>1. Good(t, room) /\ SameStream(s, t)
    OBVIOUS
  <2>2. Good(SendNext(t, cWnd), room) /\ SameStream(t, SendNext(t, cWnd))
    BY <2>1, SendNextGood
  <2>3. SendNext(t, cWnd) \in Senders
    BY <2>2, GoodTypes
  <2> QED
    BY <2>1, <2>2, <2>3 DEF SameStream
<1> HIDE DEF S
<1>4. SendPendingData(s, cWnd) \in S
  BY <1>1, <1>2, <1>3, LoopStays
<1> QED
  BY <1>4 DEF S

-----------------------------------------------------------------------------
(* Acknowledgements at the sender.                                         *)

\* An acknowledgement of what has arrived, with no more room than there is.
Offered(m, nextRx, room) ==
  m \in AckSegments /\ m.ack <= nextRx /\ m.ack + m.win <= room

\* s, and what it has seen acknowledged.
GoodUpTo(s, nextRx, room) ==
  /\ Good(s, room) /\ nextRx \in Nat
  /\ s.highRxAckMark <= nextRx /\ nextRx <= s.written

LEMMA UpdateWindowGood ==
  ASSUME NEW s, NEW room \in Nat, NEW nextRx, GoodUpTo(s, nextRx, room),
         NEW m, Offered(m, nextRx, room)
  PROVE  LET t == UpdateWindowSize(s, m)
         IN /\ GoodUpTo(t, nextRx, room) /\ m.ack <= t.highRxAckMark
            /\ t.written = s.written /\ t.head = s.head
<1> DEFINE take == \/ m.ack = s.highRxAckMark /\ m.win > s.rWnd
                   \/ m.ack > s.highRxAckMark
           t == UpdateWindowSize(s, m)
<1>1. /\ m.ack \in Nat /\ m.win \in 0 .. Buffer /\ m.ack <= nextRx
      /\ m.ack + m.win <= room
  BY DEF Offered, AckSegments
<1>2. s \in Senders /\ s.highRxAckMark \in Nat /\ s.head \in Nat
  BY GoodTypes DEF GoodUpTo
<1>3. CASE take
  <2>1. t = [s EXCEPT !.rWnd = m.win, !.highRxAckMark = m.ack]
    BY <1>3 DEF UpdateWindowSize
  <2> HIDE DEF t
  <2>2. t \in Senders
    BY <1>1, <1>2, <2>1 DEF Senders
  <2>3. /\ t.written = s.written /\ t.head = s.head /\ t.nextTx = s.nextTx
        /\ t.highTx = s.highTx /\ t.lost = s.lost /\ t.out = s.out
        /\ t.rWnd = m.win /\ t.highRxAckMark = m.ack
    BY <1>2, <2>1 DEF Senders
  <2>4. s.head <= m.ack /\ m.ack <= s.written
    BY <1>1, <1>2, <1>3, GoodTypes DEF GoodUpTo, Good
  <2>5. Good(t, room)
    BY <1>1, <2>2, <2>3, <2>4 DEF GoodUpTo, Good
  <2>6. m.ack <= m.ack
    BY <1>1
  <2> QED
    BY <1>1, <2>3, <2>5, <2>6 DEF GoodUpTo, t
<1>4. CASE ~take
  <2>1. t = s
    BY <1>4 DEF UpdateWindowSize
  <2>2. m.ack <= s.highRxAckMark
    BY <1>1, <1>2, <1>4
  <2> QED
    BY <2>1, <2>2
<1> QED
  BY <1>3, <1>4

\* The timers do not matter to what may be sent.
Timed(s, t) ==
  \E retx, persist \in BOOLEAN :
    t = [s EXCEPT !.retx = retx, !.persist = persist]

LEMMA TimedGood ==
  ASSUME NEW s, NEW room \in Nat, Good(s, room), NEW t, Timed(s, t)
  PROVE  Good(t, room) /\ SameStream(s, t)
<1>1. PICK retx, persist \in BOOLEAN :
        t = [s EXCEPT !.retx = retx, !.persist = persist]
  BY DEF Timed
<1>2. s \in Senders
  BY GoodTypes
<1>3. t \in Senders
  BY <1>1, <1>2 DEF Senders
<1>4. /\ t.written = s.written /\ t.head = s.head /\ t.nextTx = s.nextTx
      /\ t.highTx = s.highTx /\ t.lost = s.lost /\ t.out = s.out
      /\ t.rWnd = s.rWnd /\ t.highRxAckMark = s.highRxAckMark
  BY <1>1, <1>2 DEF Senders
<1> QED
  BY <1>3, <1>4 DEF Good, SameStream

LEMMA EnterPersistGood ==
  ASSUME NEW s, NEW room \in Nat, Good(s, room)
  PROVE  Good(EnterPersist(s), room) /\ SameStream(s, EnterPersist(s))
<1>1. CASE s.rWnd = 0 /\ ~s.persist
  <2>1. EnterPersist(s) = [s EXCEPT !.retx = FALSE, !.persist = TRUE]
    BY <1>1 DEF EnterPersist
  <2>2. Timed(s, EnterPersist(s))
    BY <2>1, Zenon DEF Timed
  <2> QED
    BY <2>2, TimedGood
<1>2. CASE ~(s.rWnd = 0 /\ ~s.persist)
  BY <1>2 DEF EnterPersist, SameStream
<1> QED
  BY <1>1, <1>2

LEMMA LeavePersistGood ==
  ASSUME NEW s, NEW room \in Nat, Good(s, room), NEW cWnd \in Nat
  PROVE  /\ Good(LeavePersist(s, cWnd), room)
         /\ SameStream(s, LeavePersist(s, cWnd))
<1>1. CASE s.rWnd # 0 /\ s.persist
  <2> DEFINE t == [s EXCEPT !.persist = FALSE]
  <2>1. LeavePersist(s, cWnd) = SendPendingData(t, cWnd)
    BY <1>1 DEF LeavePersist
  <2>2. t = [s EXCEPT !.retx = s.retx, !.persist = FALSE]
    BY GoodTypes DEF Senders
  <2>3. Timed(s, t)
    <3>1. s.retx \in BOOLEAN /\ FALSE \in BOOLEAN
      BY GoodTypes
    <3> QED
      BY <2>2, <3>1, Zenon DEF Timed
  <2> HIDE DEF t
  <2>4. Good(t, room) /\ SameStream(s, t)
    BY <2>3, TimedGood
  <2>5. /\ Good(SendPendingData(t, cWnd), room)
        /\ SameStream(t, SendPendingData(t, cWnd))
    BY <2>4, SendPendingGood
  <2> QED
    BY <2>1, <2>4, <2>5 DEF SameStream
<1>2. CASE ~(s.rWnd # 0 /\ s.persist)
  BY <1>2 DEF LeavePersist, SameStream
<1> QED
  BY <1>1, <1>2

\* t is s after an acknowledgement of everything before ack.
Acked(s, ack, t) == t = NewAck(s, ack)

LEMMA NewAckGood ==
  ASSUME NEW s, NEW room \in Nat, Good(s, room), NEW ack \in Nat,
         s.head <= ack, ack <= s.highTx, ack <= s.highRxAckMark,
         NEW t, Acked(s, ack, t)
  PROVE  /\ Good(t, room) /\ t.head = ack /\ t.written = s.written
         /\ t.highRxAckMark = s.highRxAckMark
<1> DEFINE left == {n \in s.lost : n >= ack}
           next == IF ack > s.nextTx THEN ack ELSE s.nextTx
           more == s.written > ack
<1>1. /\ s \in Senders /\ s.nextTx \in Nat /\ s.written \in Nat
      /\ s.lost \in SUBSET Nat /\ s.highTx \in Nat
  BY GoodTypes
<1>2. t = [s EXCEPT !.head = ack, !.retx = more, !.lost = left,
                    !.nextTx = next]
  BY <1>1 DEF Acked, NewAck, Senders
<1>3. /\ next \in Nat /\ left \in SUBSET Nat /\ more \in BOOLEAN
      /\ ack <= next /\ next <= s.highTx
      /\ \A n \in left : n \in s.lost /\ ack <= n
  BY <1>1 DEF Good
<1> HIDE DEF left, next, more
<1>4. t \in Senders
  BY <1>1, <1>2, <1>3 DEF Senders
<1>5. /\ t.written = s.written /\ t.head = ack /\ t.nextTx = next
      /\ t.highTx = s.highTx /\ t.lost = left /\ t.out = s.out
      /\ t.rWnd = s.rWnd /\ t.highRxAckMark = s.highRxAckMark
  BY <1>1, <1>2 DEF Senders
<1>6. Good(t, room)
  BY <1>3, <1>4, <1>5 DEF Good
<1> QED
  BY <1>5, <1>6

\* The head of the buffer follows what has arrived.
Follows(s, t, nextRx) ==
  /\ t.written = s.written
  /\ t.head = s.head \/ t.head \in s.head + 1 .. nextRx

LEMMA ProcessEstablishedGood ==
  ASSUME NEW s, NEW room \in Nat, NEW nextRx, GoodUpTo(s, nextRx, room),
         NEW m, Offered(m, nextRx, room), m.ack <= s.highRxAckMark,
         NEW cWnd \in Nat
  PROVE  LET t == ProcessEstablished(s, m, cWnd)
         IN GoodUpTo(t, nextRx, room) /\ Follows(s, t, nextRx)
<1> DEFINE t == ProcessEstablished(s, m, cWnd)
           p == NewAck(s, m.ack)
<1>1. m.ack \in Nat /\ m.ack <= nextRx /\ nextRx \in Nat
  BY DEF Offered, AckSegments, GoodUpTo
<1>2. Good(s, room) /\ s.head \in Nat /\ s.highTx \in Nat
  BY GoodTypes DEF GoodUpTo
<1>3. CASE m.ack < s.head \/ m.ack > s.highTx
  BY <1>3 DEF ProcessEstablished, Follows
<1>4. CASE ~(m.ack < s.head \/ m.ack > s.highTx) /\ m.ack > s.head
  <2>1. t = SendPendingData(p, cWnd)
    BY <1>4 DEF ProcessEstablished
  <2>2. Acked(s, m.ack, p)
    BY DEF Acked
  <2> DEFINE ack == m.ack
  <2>3. ack \in Nat /\ s.head <= ack /\ ack <= s.highTx
    BY <1>1, <1>2, <1>4
  <2>4. ack <= s.highRxAckMark /\ Acked(s, ack, p)
    BY <2>2
  <2>5. ack \in s.head + 1 .. nextRx
    BY <1>1, <1>2, <1>4
  <2> HIDE DEF ack, p, t
  <2>6. /\ Good(p, room) /\ p.head = ack /\ p.written = s.written
        /\ p.highRxAckMark = s.highRxAckMark
    BY <1>2, <2>3, <2>4, NewAckGood
  <2>7. Good(t, room) /\ SameStream(p, t)
    BY <2>1, <2>6, SendPendingGood
  <2>8. GoodUpTo(t, nextRx, room) /\ Follows(s, t, nextRx)
    BY <2>5, <2>6, <2>7 DEF SameStream, GoodUpTo, Follows
  <2> QED
    BY <2>8 DEF t
<1>5. CASE ~(m.ack < s.head \/ m.ack > s.highTx) /\ ~(m.ack > s.head)
  <2>1. t = SendPendingData(s, cWnd)
    BY <1>5 DEF ProcessEstablished
  <2> HIDE DEF t
  <2>2. Good(t, room) /\ SameStream(s, t)
    BY <1>2, <2>1, SendPendingGood
  <2>3. GoodUpTo(t, nextRx, room) /\ Follows(s, t, nextRx)
    BY <2>2 DEF SameStream, GoodUpTo, Follows
  <2> QED
    BY <2>3 DEF t
<1> QED
  BY <1>3, <1>4, <1>5

LEMMA DoForwardUpGood ==
  ASSUME NEW s, NEW room \in Nat, NEW nextRx, GoodUpTo(s, nextRx, room),
         NEW m, Offered(m, nextRx, room), NEW cWnd \in Nat
  PROVE  LET t == DoForwardUp(s, m, cWnd)
         IN GoodUpTo(t, nextRx, room) /\ Follows(s, t, nextRx)
<1> DEFINE a == UpdateWindowSize(s, m)
           b == EnterPersist(a)
           c == ProcessEstablished(b, m, cWnd)
           t == LeavePersist(c, cWnd)
<1>1. DoForwardUp(s, m, cWnd) = t
  BY DEF DoForwardUp
<1>2. /\ GoodUpTo(a, nextRx, room) /\ m.ack <= a.highRxAckMark
      /\ a.written = s.written /\ a.head = s.head
  BY UpdateWindowGood
<1> HIDE DEF a
<1>3. Good(b, room) /\ SameStream(a, b)
  BY <1>2, EnterPersistGood DEF GoodUpTo
<1> HIDE DEF b
<1>4. GoodUpTo(b, nextRx, room) /\ m.ack <= b.highRxAckMark
  BY <1>2, <1>3 DEF GoodUpTo, SameStream
<1>5. GoodUpTo(c, nextRx, room) /\ Follows(b, c, nextRx)
  BY <1>4, ProcessEstablishedGood
<1> HIDE DEF c
<1>6. Good(t, room) /\ SameStream(c, t)
  BY <1>5, LeavePersistGood DEF GoodUpTo
<1> HIDE DEF t
<1>7. GoodUpTo(t, nextRx, room) /\ Follows(s, t, nextRx)
  BY <1>2, <1>3, <1>5, <1>6 DEF GoodUpTo, Follows, SameStream
<1> QED
  BY <1>1, <1>7

-----------------------------------------------------------------------------
(* The receiver.                                                           *)

LEMMA HoldsTypes ==
  ASSUME NEW r, NEW written \in Nat, Holds(r, written)
  PROVE  /\ r \in Receivers /\ r.nextRx \in Nat /\ r.read \in Nat
         /\ r.stored \in SUBSET Nat /\ r.delAck \in BOOLEAN
         /\ MaxRx(r) \in Nat
BY Bounds DEF Holds, Receivers, MaxRx

LEMMA ShiftIsPositive == 2^Shift \in Nat /\ 2^Shift > 0
<1> DEFINE Power(j) == 2^j \in Nat /\ 2^j > 0
<1>1. /\ Power(0) /\ Power(1) /\ Power(2) /\ Power(3) /\ Power(4)
      /\ Power(5) /\ Power(6) /\ Power(7) /\ Power(8) /\ Power(9)
      /\ Power(10) /\ Power(11) /\ Power(12) /\ Power(13) /\ Power(14)
  OBVIOUS
<1>2. Shift \in 0 .. 14
  BY ZeroWindowAssumption
<1> HIDE DEF Power
<1>3. Power(Shift)
  BY <1>1, <1>2
<1> QED
  BY <1>3 DEF Power

\* The window that is announced ends within the buffer.
LEMMA WindowWithinBuffer ==
  ASSUME NEW r, NEW written \in Nat, Holds(r, written)
  PROVE  /\ AdvertisedWindowSize(r) \in 0 .. Buffer
         /\ r.nextRx + AdvertisedWindowSize(r) <= MaxRx(r)
<1> DEFINE d == 2^Shift
           room == MaxRx(r) - r.nextRx
           q == room \div d
<1>1. d \in Nat /\ d > 0
  BY ShiftIsPositive
<1>2. r.nextRx \in Nat /\ r.read \in Nat /\ MaxRx(r) \in Nat
  BY HoldsTypes
<1>3. room \in Nat /\ room <= Buffer
  BY <1>2, Bounds DEF Holds, MaxRx
<1>4. AdvertisedWindowSize(r) = q * d
  BY DEF AdvertisedWindowSize
<1>5. q \in Nat /\ q * d <= room /\ q * d \in Nat
  <2> HIDE DEF d, room
  <2>1. room \div d \in Nat /\ (room \div d) * d <= room
    BY <1>1, <1>3
  <2> HIDE DEF q
  <2>2. q \in Nat /\ q * d <= room
    BY <2>1 DEF q
  <2>3. q * d \in Nat
    BY <1>1, <2>2
  <2> QED
    BY <2>2, <2>3
<1> DEFINE w == AdvertisedWindowSize(r)
<1>6. w \in Nat /\ w <= room
  BY <1>4, <1>5
<1> HIDE DEF w
<1>7. w \in 0 .. Buffer /\ r.nextRx + w <= MaxRx(r)
  BY <1>2, <1>3, <1>6, Bounds
<1> QED
  BY <1>7 DEF w

LEMMA AckFacts ==
  ASSUME NEW r, NEW written \in Nat, Holds(r, written)
  PROVE  \A m \in Ack(r) : Offered(m, r.nextRx, MaxRx(r))
<1> DEFINE w == AdvertisedWindowSize(r)
           a == [kind |-> "ack", ack |-> r.nextRx, win |-> w]
<1>1. r.nextRx \in Nat /\ r.nextRx <= r.nextRx
  BY HoldsTypes
<1>2. w \in 0 .. Buffer /\ r.nextRx + w <= MaxRx(r)
  BY WindowWithinBuffer
<1>3. Ack(r) = {a}
  BY DEF Ack
<1> HIDE DEF w
<1>4. a \in AckSegments
  BY <1>1, <1>2 DEF AckSegments
<1>5. a.ack = r.nextRx /\ a.win = w
  OBVIOUS
<1> HIDE DEF a
<1>6. Offered(a, r.nextRx, MaxRx(r))
  BY <1>1, <1>2, <1>4, <1>5 DEF Offered
<1> QED
  BY <1>3, <1>6

LEMMA TotalIsNat == Total \in Nat
<1>1. \A a, b \in Nat : a * b \in Nat
  OBVIOUS
<1> QED
  BY <1>1, Bounds DEF Total

\* What is taken from a segment of the stream is of the stream and in order.
LEMMA AddRxFacts ==
  ASSUME NEW r, NEW written \in Nat, Holds(r, written), written <= Total,
         NEW m \in DataSegments, m.seq + m.len <= written
  PROVE  /\ Holds(AddRx(r, m), written)
         /\ r.nextRx <= AddRx(r, m).nextRx /\ AddRx(r, m).read = r.read
<1> DEFINE new == {n \in m.seq .. m.seq + m.len - 1 :
                     r.nextRx <= n /\ n < MaxRx(r)}
           got == r.stored \cup new
           Free == {n \in r.nextRx .. Total + 1 : n \notin got}
           next == Least(Free)
           kept == {n \in got : n > next}
           t == AddRx(r, m)
<1>1. /\ r \in Receivers /\ r.nextRx \in Nat /\ r.read \in Nat
      /\ r.stored \in SUBSET Nat /\ MaxRx(r) \in Nat /\ Total \in Nat
      /\ m.seq \in Nat /\ m.len \in Nat /\ m.seq + m.len - 1 \in Int
  BY HoldsTypes, TotalIsNat, Bounds DEF DataSegments
<1>2. /\ r.read <= r.nextRx /\ r.nextRx <= MaxRx(r) /\ r.nextRx <= written
      /\ \A n \in r.stored : r.nextRx < n /\ n < MaxRx(r) /\ n < written
  BY DEF Holds
<1>3. new \in SUBSET Nat
  BY <1>1
<1>4. \A n \in new : r.nextRx <= n /\ n < MaxRx(r) /\ n < written
  BY <1>1
<1>5. t = [r EXCEPT !.nextRx = next, !.stored = kept]
  BY DEF AddRx
<1> HIDE DEF new, t
<1>6. got \in SUBSET Nat
  BY <1>1, <1>3
<1>7. \A n \in got : n < MaxRx(r) /\ n < written
  BY <1>2, <1>4
<1> HIDE DEF got
<1>8. Free \in SUBSET Nat
  BY <1>1
<1>9. written \in Free
  BY <1>1, <1>2, <1>7
<1>10. next \in Free /\ \A k \in Free : next <= k
  BY <1>8, <1>9, LeastFacts
<1>11. next \in Nat /\ r.nextRx <= next /\ next <= written /\ next <= Total + 1
  BY <1>1, <1>9, <1>10
<1>12. next <= MaxRx(r)
  <2>1. CASE MaxRx(r) <= Total + 1
    <3>1. MaxRx(r) \in Free
      BY <1>1, <1>2, <1>7, <2>1
    <3> QED
      BY <1>10, <3>1
  <2>2. CASE MaxRx(r) > Total + 1
    BY <1>1, <1>11, <2>2
  <2> QED
    BY <1>1, <2>1, <2>2
<1> HIDE DEF next
<1>13. /\ kept \in SUBSET Nat
       /\ \A n \in kept : next < n /\ n < MaxRx(r) /\ n < written
  BY <1>6, <1>7, <1>11
<1> HIDE DEF kept
<1>14. t \in Receivers
  BY <1>1, <1>5, <1>11, <1>13 DEF Receivers
<1>15. t.nextRx = next /\ t.stored = kept /\ t.read = r.read
  BY <1>1, <1>5 DEF Receivers
<1>16. MaxRx(t) = MaxRx(r)
  BY <1>15 DEF MaxRx
<1>17. t.read <= t.nextRx
  BY <1>1, <1>2, <1>11, <1>15
<1> HIDE DEF Free
<1>18. Holds(t, written)
  BY <1>11, <1>12, <1>13, <1>14, <1>15, <1>16, <1>17 DEF Holds
<1> QED
  BY <1>11, <1>15, <1>18 DEF t

-----------------------------------------------------------------------------
(* The steps.  Each keeps the invariant, and is one of the stream's or     *)
(* none.                                                                   *)

Streams == [Stream!Next]_(Stream!vars)

LEMMA Products ==
  ASSUME NEW n \in Nat, NEW k \in Nat, n <= k
  PROVE  /\ n * SegSize \in Nat /\ n * SegSize <= k * SegSize
         /\ n * SegSize + SegSize = (n + 1) * SegSize
<1>1. \A a, b, c \in Nat :
        /\ a * c \in Nat /\ a * c + c = (a + 1) * c
        /\ a <= b => a * c <= b * c
  OBVIOUS
<1> QED
  BY <1>1, Bounds

LEMMA InvTypes ==
  ASSUME IInv
  PROVE  /\ snd \in Senders /\ snd.written \in Nat /\ snd.head \in Nat
         /\ rcv \in Receivers /\ rcv.nextRx \in Nat /\ MaxRx(rcv) \in Nat
         /\ rcv.read \in Nat
         /\ GoodUpTo(snd, rcv.nextRx, MaxRx(rcv))
         /\ snd.written <= Total
<1>1. rcv \in Receivers /\ rcv.nextRx \in Nat /\ rcv.read \in Nat
  BY DEF IInv, Holds, Receivers
<1>2. MaxRx(rcv) \in Nat
  BY <1>1, Bounds DEF MaxRx
<1>3. snd \in Senders /\ snd.written \in Nat /\ snd.head \in Nat
  BY <1>2, GoodTypes DEF IInv
<1>4. GoodUpTo(snd, rcv.nextRx, MaxRx(rcv))
  BY <1>1 DEF IInv, GoodUpTo, Holds
<1>5. snd.written <= Total
  <2>1. sent \in Nat /\ sent <= Packets /\ snd.written <= sent * SegSize
    BY Bounds DEF IInv
  <2>2. sent * SegSize \in Nat /\ sent * SegSize <= Packets * SegSize
    BY <2>1, Bounds, Products
  <2>3. Packets * SegSize \in Nat
    BY Bounds, Products
  <2> QED
    BY <1>3, <2>1, <2>2, <2>3 DEF Total
<1> QED
  BY <1>1, <1>2, <1>3, <1>4, <1>5

\* A step of the sender that follows the receiver.
LEMMA SenderStepsKeep ==
  ASSUME IInv, NEW t, NEW received, SenderSteps(t, received),
         GoodUpTo(t, rcv.nextRx, MaxRx(rcv)), Follows(snd, t, rcv.nextRx),
         early' \in 0 .. MaxEarly
  PROVE  IInv' /\ Streams
<1>1. /\ snd' = [t EXCEPT !.out = {}] /\ net' = (net \ received) \cup t.out
      /\ sent' = sent /\ rcv' = rcv /\ losses' = losses /\ crashed' = crashed
  BY DEF SenderSteps
<1> DEFINE room == MaxRx(rcv)
<1>2. room \in Nat /\ rcv.nextRx \in Nat
  BY InvTypes
<1>3. Good(t, room) /\ t.highRxAckMark <= rcv.nextRx
  BY DEF GoodUpTo
<1> HIDE DEF room
<1>4. t \in Senders /\ t.out \in SUBSET DataSegments
  BY <1>2, <1>3, GoodTypes
<1>5. snd' \in Senders
  BY <1>1, <1>4 DEF Senders
<1>6. /\ snd'.written = t.written /\ snd'.head = t.head
      /\ snd'.nextTx = t.nextTx /\ snd'.highTx = t.highTx
      /\ snd'.lost = t.lost /\ snd'.out = {} /\ snd'.rWnd = t.rWnd
      /\ snd'.highRxAckMark = t.highRxAckMark
  BY <1>1, <1>4 DEF Senders
<1>7. Good(snd', room)
  BY <1>3, <1>5, <1>6 DEF Good
<1>8. t.written = snd.written
  BY DEF Follows
<1>9. \A m \in net' : Carried(m, snd.written, rcv.nextRx, room)
  <2>1. \A m \in net : Carried(m, snd.written, rcv.nextRx, room)
    BY DEF IInv, room
  <2>2. \A m \in t.out : Carried(m, snd.written, rcv.nextRx, room)
    BY <1>3, <1>4, <1>8 DEF Good, Carried
  <2> QED
    BY <1>1, <2>1, <2>2
<1>10. IInv'
  BY <1>1, <1>3, <1>6, <1>7, <1>8, <1>9 DEF IInv, room
<1>11. Streams
  <2>1. CASE t.head = snd.head
    BY <1>1, <1>6, <1>8, <2>1 DEF Streams, Stream!vars
  <2>2. CASE t.head \in snd.head + 1 .. rcv.nextRx
    <3>1. Stream!Acknowledge
      BY <1>1, <1>6, <1>8, <2>2 DEF Stream!Acknowledge
    <3> QED
      BY <3>1 DEF Streams, Stream!Next
  <2> QED
    BY <2>1, <2>2 DEF Follows
<1> QED
  BY <1>10, <1>11

LEMMA CWndTypes == CWnds \subseteq Nat
<1>1. \A n \in Nat : n * SegSize \in Nat
  BY Products
<1> QED
  BY <1>1, Bounds DEF CWnds

\* The loop, begun with what differs from the sender in the rest only.
LEMMA SendPendingUpTo ==
  ASSUME IInv, NEW s, Good(s, MaxRx(rcv)), SameStream(snd, s),
         NEW cWnd \in Nat
  PROVE  LET t == SendPendingData(s, cWnd)
         IN GoodUpTo(t, rcv.nextRx, MaxRx(rcv)) /\ Follows(snd, t, rcv.nextRx)
<1> DEFINE t == SendPendingData(s, cWnd)
<1>1. MaxRx(rcv) \in Nat /\ GoodUpTo(snd, rcv.nextRx, MaxRx(rcv))
  BY InvTypes
<1>2. Good(t, MaxRx(rcv)) /\ SameStream(s, t)
  BY <1>1, SendPendingGood
<1> HIDE DEF t
<1>3. GoodUpTo(t, rcv.nextRx, MaxRx(rcv)) /\ Follows(snd, t, rcv.nextRx)
  BY <1>1, <1>2 DEF GoodUpTo, SameStream, Follows
<1> QED
  BY <1>3 DEF t

LEMMA PendingEventKeeps ==
  ASSUME IInv, PendingEvent
  PROVE  IInv' /\ Streams
<1> DEFINE s == [snd EXCEPT !.pending = FALSE]
<1>1. PICK cWnd \in CWnds : SenderSteps(SendPendingData(s, cWnd), {})
  BY DEF PendingEvent
<1>2. snd \in Senders /\ Good(snd, MaxRx(rcv))
  BY InvTypes DEF GoodUpTo
<1>3. s \in Senders
  BY <1>2 DEF Senders
<1>4. /\ s.written = snd.written /\ s.head = snd.head
      /\ s.nextTx = snd.nextTx /\ s.highTx = snd.highTx
      /\ s.lost = snd.lost /\ s.out = snd.out /\ s.rWnd = snd.rWnd
      /\ s.highRxAckMark = snd.highRxAckMark
  BY <1>2 DEF Senders
<1> HIDE DEF s
<1>5. Good(s, MaxRx(rcv)) /\ SameStream(snd, s)
  BY <1>2, <1>3, <1>4 DEF Good, SameStream
<1> DEFINE t == SendPendingData(s, cWnd)
<1>6. cWnd \in Nat
  BY CWndTypes
<1>7. GoodUpTo(t, rcv.nextRx, MaxRx(rcv)) /\ Follows(snd, t, rcv.nextRx)
  BY <1>5, <1>6, SendPendingUpTo
<1>8. early' \in 0 .. MaxEarly
  BY DEF IInv, PendingEvent
<1> HIDE DEF t
<1> QED
  BY <1>1, <1>7, <1>8, SenderStepsKeep DEF t

LEMMA ReceiveAckKeeps ==
  ASSUME IInv, NEW m, ReceiveAck(m)
  PROVE  IInv' /\ Streams
<1>1. PICK cWnd \in CWnds : SenderSteps(DoForwardUp(snd, m, cWnd), {m})
  BY DEF ReceiveAck
<1>2. m \in net /\ m.kind = "ack" /\ early' = early
  BY DEF ReceiveAck
<1>3. Offered(m, rcv.nextRx, MaxRx(rcv))
  BY <1>2 DEF IInv, Carried, Offered, DataSegments
<1>4. /\ GoodUpTo(snd, rcv.nextRx, MaxRx(rcv)) /\ MaxRx(rcv) \in Nat
      /\ cWnd \in Nat
  BY InvTypes, CWndTypes
<1> DEFINE t == DoForwardUp(snd, m, cWnd)
<1>5. GoodUpTo(t, rcv.nextRx, MaxRx(rcv)) /\ Follows(snd, t, rcv.nextRx)
  BY <1>3, <1>4, DoForwardUpGood
<1>6. early' \in 0 .. MaxEarly
  BY <1>2 DEF IInv
<1> HIDE DEF t
<1> QED
  BY <1>1, <1>5, <1>6, SenderStepsKeep DEF t

LEMMA ReTxTimeoutKeeps ==
  ASSUME IInv, ReTxTimeout
  PROVE  IInv' /\ Streams
<1> DEFINE s == [snd EXCEPT !.retx = FALSE]
           all == s.head .. s.highTx - 1
           p == [s EXCEPT !.lost = all]
           t == SendPendingData(p, SegSize)
<1>1. SenderSteps(IF s.written = s.head THEN s ELSE t, {})
  BY DEF ReTxTimeout
<1>2. early' \in 0 .. MaxEarly
  <2>1. early \in 0 .. MaxEarly /\ MaxEarly \in Nat
    BY Bounds DEF IInv
  <2>2. CASE net = {}
    BY <2>1, <2>2 DEF ReTxTimeout
  <2>3. CASE net # {}
    <3>1. early < MaxEarly /\ early' = early + 1
      BY <2>3 DEF ReTxTimeout
    <3> QED
      BY <2>1, <3>1
  <2> QED
    BY <2>2, <2>3
<1>3. /\ snd \in Senders /\ Good(snd, MaxRx(rcv)) /\ MaxRx(rcv) \in Nat
      /\ GoodUpTo(snd, rcv.nextRx, MaxRx(rcv))
  BY InvTypes DEF GoodUpTo
<1>4. s \in Senders
  BY <1>3 DEF Senders
<1>5. /\ s.written = snd.written /\ s.head = snd.head
      /\ s.nextTx = snd.nextTx /\ s.highTx = snd.highTx
      /\ s.lost = snd.lost /\ s.out = snd.out /\ s.rWnd = snd.rWnd
      /\ s.highRxAckMark = snd.highRxAckMark
  BY <1>3 DEF Senders
<1> HIDE DEF s
<1>6. Good(s, MaxRx(rcv)) /\ SameStream(snd, s)
  BY <1>3, <1>4, <1>5 DEF Good, SameStream
<1>7. CASE s.written = s.head
  <2>1. GoodUpTo(s, rcv.nextRx, MaxRx(rcv)) /\ Follows(snd, s, rcv.nextRx)
    BY <1>3, <1>6 DEF GoodUpTo, SameStream, Follows
  <2>2. SenderSteps(s, {})
    BY <1>1, <1>7
  <2> QED
    BY <1>2, <2>1, <2>2, SenderStepsKeep
<1>8. CASE s.written # s.head
  <2>1. s.head \in Nat /\ s.highTx \in Nat
    BY <1>3, <1>6, GoodTypes
  <2>2. all \in SUBSET Nat /\ \A n \in all : s.head <= n /\ n < s.highTx
    BY <2>1
  <2> HIDE DEF all
  <2>3. p \in Senders
    BY <1>4, <2>2 DEF Senders
  <2>4. /\ p.written = s.written /\ p.head = s.head /\ p.nextTx = s.nextTx
        /\ p.highTx = s.highTx /\ p.lost = all /\ p.out = s.out
        /\ p.rWnd = s.rWnd /\ p.highRxAckMark = s.highRxAckMark
    BY <1>4 DEF Senders
  <2> HIDE DEF p
  <2>5. Good(p, MaxRx(rcv)) /\ SameStream(snd, p)
    BY <1>6, <2>2, <2>3, <2>4 DEF Good, SameStream
  <2>6. GoodUpTo(t, rcv.nextRx, MaxRx(rcv)) /\ Follows(snd, t, rcv.nextRx)
    BY <2>5, Bounds, SendPendingUpTo
  <2> HIDE DEF t
  <2>7. SenderSteps(t, {})
    BY <1>1, <1>8
  <2> QED
    BY <1>2, <2>6, <2>7, SenderStepsKeep
<1> QED
  BY <1>7, <1>8

LEMMA PersistTimeoutKeeps ==
  ASSUME IInv, PersistTimeout
  PROVE  IInv' /\ Streams
<1>1. /\ snd \in Senders /\ Good(snd, MaxRx(rcv)) /\ MaxRx(rcv) \in Nat
      /\ GoodUpTo(snd, rcv.nextRx, MaxRx(rcv))
  BY InvTypes DEF GoodUpTo
<1>2. CASE snd.nextTx = snd.written
  BY <1>2 DEF PersistTimeout, IInv, Streams, Stream!vars
<1>3. CASE snd.nextTx # snd.written
  <2> DEFINE m == [kind |-> "probe", seq |-> snd.nextTx, len |-> 1]
             out == {m}
             t == [snd EXCEPT !.out = out]
  <2>1. SenderSteps(t, {}) /\ early' = early
    BY <1>3 DEF PersistTimeout
  <2>2. /\ snd.nextTx \in Nat /\ snd.written \in Nat
        /\ snd.nextTx + 1 <= snd.written
    BY <1>1, <1>3, GoodTypes DEF Good
  <2>3. m \in DataSegments /\ m.seq + m.len <= snd.written
    BY <2>2, Bounds DEF DataSegments
  <2>4. out \in SUBSET DataSegments
        /\ \A k \in out : k.seq + k.len <= snd.written
    BY <2>3
  <2> HIDE DEF out
  <2>5. t \in Senders
    BY <1>1, <2>4 DEF Senders
  <2>6. /\ t.written = snd.written /\ t.head = snd.head
        /\ t.nextTx = snd.nextTx /\ t.highTx = snd.highTx
        /\ t.lost = snd.lost /\ t.out = out /\ t.rWnd = snd.rWnd
        /\ t.highRxAckMark = snd.highRxAckMark
    BY <1>1 DEF Senders
  <2> HIDE DEF t
  <2>7. Good(t, MaxRx(rcv))
    BY <1>1, <2>4, <2>5, <2>6 DEF Good
  <2>8. GoodUpTo(t, rcv.nextRx, MaxRx(rcv)) /\ Follows(snd, t, rcv.nextRx)
    BY <1>1, <2>6, <2>7 DEF GoodUpTo, Follows
  <2>9. early' \in 0 .. MaxEarly
    BY <2>1 DEF IInv
  <2> QED
    BY <2>1, <2>8, <2>9, SenderStepsKeep
<1> QED
  BY <1>2, <1>3

LEMMA SendPacketKeeps ==
  ASSUME IInv, SendPacket
  PROVE  IInv' /\ Streams
<1> DEFINE end == snd.written + SegSize
           p == [snd EXCEPT !.written = end]
           wait == p.pending \/ AvailableWindow(p, MaxCWnd) > 0
           t == [p EXCEPT !.pending = wait]
<1>1. /\ snd' = Send(snd) /\ sent' = sent + 1 /\ sent < Packets
      /\ UNCHANGED <<rcv, net, losses, early, crashed>>
  BY DEF SendPacket
<1>2. /\ snd \in Senders /\ snd.written \in Nat /\ Good(snd, MaxRx(rcv))
      /\ MaxRx(rcv) \in Nat /\ SegSize \in Nat /\ SegSize >= 1
  BY InvTypes, Bounds DEF GoodUpTo
<1>3. sent \in Nat /\ sent + 1 \in 0 .. Packets
  BY <1>1, Bounds DEF IInv
<1>4. /\ sent * SegSize \in Nat /\ sent * SegSize + SegSize = (sent + 1) * SegSize
      /\ snd.written <= sent * SegSize
  <2>1. sent <= sent
    BY <1>3
  <2> QED
    BY <1>3, <2>1, Products DEF IInv
<1>5. CASE snd' = snd
  <2> DEFINE bound == (sent + 1) * SegSize
             now == sent * SegSize
  <2>1. snd.written <= bound
    <3>1. now \in Nat /\ now + SegSize = bound /\ snd.written <= now
      BY <1>4
    <3> HIDE DEF bound, now
    <3> QED
      BY <1>2, <3>1
  <2> QED
    BY <1>1, <1>3, <1>5, <2>1 DEF IInv, Streams, Stream!vars
<1>6. CASE snd' # snd
  <2>1. snd' = [p EXCEPT !.pending = @ \/ AvailableWindow(p, MaxCWnd) > 0]
    BY <1>1, <1>6 DEF Send
  <2>2. p \in Senders /\ end \in Nat
    BY <1>2 DEF Senders
  <2>3. snd' = t
    BY <2>1, <2>2 DEF Senders
  <2>4. wait \in BOOLEAN
    OBVIOUS
  <2> HIDE DEF wait, end
  <2>5. t \in Senders
    BY <2>2, <2>4 DEF Senders
  <2>6. /\ t.written = end /\ t.head = snd.head /\ t.nextTx = snd.nextTx
        /\ t.highTx = snd.highTx /\ t.lost = snd.lost /\ t.out = snd.out
        /\ t.rWnd = snd.rWnd /\ t.highRxAckMark = snd.highRxAckMark
    BY <1>2, <2>2 DEF Senders
  <2> HIDE DEF p, t
  <2>7. snd.written <= end /\ end = snd.written + SegSize
    BY <1>2 DEF end
  <2>8. Good(t, MaxRx(rcv))
    <3>1. snd.highTx \in Nat /\ snd.highRxAckMark \in Nat
      BY <1>2, GoodTypes
    <3>2. t.highTx <= t.written /\ t.highRxAckMark <= t.written
      BY <1>2, <2>2, <2>6, <2>7, <3>1 DEF Good
    <3>3. \A m \in t.out : m.seq + m.len <= t.written
      <4>1. \A m \in snd.out : FALSE
        BY DEF IInv
      <4> QED
        BY <2>6, <4>1
    <3> QED
      BY <1>2, <2>5, <2>6, <3>2, <3>3 DEF Good
  <2>9. Holds(rcv, end)
    <3>1. rcv.nextRx \in Nat /\ rcv.nextRx <= snd.written
      BY InvTypes DEF IInv, Holds
    <3>2. rcv.nextRx <= end
      BY <1>2, <2>2, <2>7, <3>1
    <3>3. \A n \in rcv.stored : n \in Nat /\ n < snd.written
      BY DEF IInv, Holds, Receivers
    <3>4. \A n \in rcv.stored : n < end
      BY <1>2, <2>2, <2>7, <3>3
    <3> QED
      BY <3>2, <3>4 DEF IInv, Holds
  <2>10. \A m \in net : Carried(m, end, rcv.nextRx, MaxRx(rcv))
    <3>1. ASSUME NEW m \in DataSegments, m.seq + m.len <= snd.written
          PROVE  m.seq + m.len <= end
      <4>1. m.seq + m.len \in Nat
        BY Bounds DEF DataSegments
      <4> QED
        BY <1>2, <2>2, <2>7, <3>1, <4>1
    <3> QED
      BY <3>1 DEF IInv, Carried
  <2>11. end <= (sent + 1) * SegSize
    BY <1>2, <1>4, <2>7
  <2>12. IInv'
    BY <1>1, <1>3, <2>3, <2>6, <2>8, <2>9, <2>10, <2>11 DEF IInv
  <2>13. Stream!Write
    <3>1. end > snd.written
      BY <1>2, <2>7
    <3> QED
      BY <1>1, <2>2, <2>3, <2>6, <3>1 DEF Stream!Write
  <2> QED
    BY <2>12, <2>13 DEF Streams, Stream!Next
<1> QED
  BY <1>5, <1>6

\* A step of the receiver, which gains order or room and loses neither.
LEMMA ReceiverStepsKeep ==
  ASSUME IInv, UNCHANGED <<sent, snd, early, crashed>>,
         losses' \in 0 .. MaxLosses,
         Holds(rcv', snd.written), rcv.nextRx <= rcv'.nextRx,
         rcv.read <= rcv'.read,
         \A m \in net' : m \in net \/ Offered(m, rcv'.nextRx, MaxRx(rcv'))
  PROVE  IInv' /\ Streams
<1> DEFINE before == MaxRx(rcv)
           after == MaxRx(rcv')
           next == rcv'.nextRx
<1>1. /\ rcv.nextRx \in Nat /\ rcv.read \in Nat /\ before \in Nat
      /\ snd.written \in Nat /\ Good(snd, before)
      /\ GoodUpTo(snd, rcv.nextRx, before)
  BY InvTypes DEF GoodUpTo
<1>2. /\ next \in Nat /\ rcv'.read \in Nat /\ after \in Nat
      /\ next <= snd.written
  BY <1>1, HoldsTypes DEF Holds
<1>3. before <= after
  BY <1>1, <1>2, Bounds DEF MaxRx
<1> HIDE DEF before, after, next
<1>4. Good(snd, after)
  BY <1>1, <1>2, <1>3, GoodWithMore
<1>5. snd.highRxAckMark <= next
  <2>1. snd.highRxAckMark \in Nat
    BY <1>1, GoodTypes
  <2>2. rcv.nextRx <= next
    BY DEF next
  <2> QED
    BY <1>1, <1>2, <2>1, <2>2 DEF GoodUpTo
<1>6. \A m \in net' : Carried(m, snd.written, next, after)
  <2>1. ASSUME NEW m \in AckSegments, m.ack <= rcv.nextRx,
               m.ack + m.win <= before
        PROVE  m.ack <= next /\ m.ack + m.win <= after
    <3>1. m.ack \in Nat /\ m.win \in Nat
      BY Bounds DEF AckSegments
    <3>2. rcv.nextRx <= next
      BY DEF next
    <3> QED
      BY <1>1, <1>2, <1>3, <2>1, <3>1, <3>2
  <2>2. \A m \in net : Carried(m, snd.written, next, after)
    BY <2>1 DEF IInv, Carried, before
  <2>3. \A m \in net' : m \in net \/ Offered(m, next, after)
    BY DEF next, after
  <2> QED
    BY <2>2, <2>3 DEF Offered, Carried
<1>7. IInv'
  BY <1>4, <1>5, <1>6 DEF IInv, next, after
<1>8. Streams
  <2>1. CASE next = rcv.nextRx
    BY <2>1 DEF Streams, Stream!vars, next
  <2>2. CASE next # rcv.nextRx
    <3>1. rcv.nextRx <= next
      BY DEF next
    <3>2. next \in rcv.nextRx + 1 .. snd.written
      BY <1>1, <1>2, <2>2, <3>1
    <3>3. Stream!Deliver
      BY <3>2 DEF Stream!Deliver, next
    <3> QED
      BY <3>3 DEF Streams, Stream!Next
  <2> QED
    BY <2>1, <2>2
<1> QED
  BY <1>7, <1>8

\* Whether an acknowledgement is delayed does not matter to what is held.
LEMMA DelAckHolds ==
  ASSUME NEW r, NEW written \in Nat, Holds(r, written), NEW b \in BOOLEAN,
         NEW t, t = [r EXCEPT !.delAck = b]
  PROVE  Holds(t, written) /\ t.nextRx = r.nextRx /\ t.read = r.read
<1>1. r \in Receivers
  BY DEF Holds
<1>2. t \in Receivers
  BY <1>1 DEF Receivers
<1>3. t.nextRx = r.nextRx /\ t.read = r.read /\ t.stored = r.stored
  BY <1>1 DEF Receivers
<1> QED
  BY <1>2, <1>3 DEF Holds, MaxRx

LEMMA ReceiveDataKeeps ==
  ASSUME IInv, NEW m, ReceiveData(m)
  PROVE  IInv' /\ Streams
<1> DEFINE r == AddRx(rcv, m)
           useless == OutOfRange(rcv, m) \/ r = rcv
           base == IF useless THEN rcv ELSE r
<1>1. m \in net /\ m.kind \in {"data", "probe"}
  BY DEF ReceiveData
<1>2. /\ UNCHANGED <<sent, snd, losses, early, crashed>>
      /\ \/ /\ rcv' = [base EXCEPT !.delAck = FALSE]
            /\ net' = (net \ {m}) \cup Ack(rcv')
         \/ rcv' = [r EXCEPT !.delAck = TRUE] /\ net' = net \ {m}
  BY DEF ReceiveData
<1>3. m \in DataSegments /\ m.seq + m.len <= snd.written
  BY <1>1 DEF IInv, Carried, AckSegments
<1>4. /\ Holds(rcv, snd.written) /\ snd.written \in Nat /\ snd.written <= Total
      /\ rcv.nextRx \in Nat /\ rcv.read \in Nat
  BY InvTypes DEF IInv
<1>5. Holds(r, snd.written) /\ rcv.nextRx <= r.nextRx /\ r.read = rcv.read
  BY <1>3, <1>4, AddRxFacts
<1> HIDE DEF r
<1>6. /\ Holds(base, snd.written) /\ rcv.nextRx <= base.nextRx
      /\ base.read = rcv.read
  BY <1>4, <1>5
<1> HIDE DEF base
<1>7. TRUE \in BOOLEAN /\ FALSE \in BOOLEAN /\ rcv.read <= rcv.read
  BY <1>4
<1>8. losses' \in 0 .. MaxLosses
  BY <1>2 DEF IInv
<1>9. CASE /\ rcv' = [base EXCEPT !.delAck = FALSE]
           /\ net' = (net \ {m}) \cup Ack(rcv')
  <2>1. /\ Holds(rcv', snd.written) /\ rcv'.nextRx = base.nextRx
        /\ rcv'.read = base.read
    BY <1>4, <1>6, <1>7, <1>9, DelAckHolds
  <2>2. \A k \in Ack(rcv') : Offered(k, rcv'.nextRx, MaxRx(rcv'))
    BY <1>4, <2>1, AckFacts
  <2> QED
    BY <1>2, <1>6, <1>7, <1>8, <1>9, <2>1, <2>2, ReceiverStepsKeep
<1>10. CASE rcv' = [r EXCEPT !.delAck = TRUE] /\ net' = net \ {m}
  <2>1. /\ Holds(rcv', snd.written) /\ rcv'.nextRx = r.nextRx
        /\ rcv'.read = r.read
    BY <1>4, <1>5, <1>7, <1>10, DelAckHolds
  <2> QED
    BY <1>2, <1>5, <1>7, <1>8, <1>10, <2>1, ReceiverStepsKeep
<1> QED
  BY <1>2, <1>9, <1>10

LEMMA DelAckTimeoutKeeps ==
  ASSUME IInv, DelAckTimeout
  PROVE  IInv' /\ Streams
<1>1. /\ rcv' = [rcv EXCEPT !.delAck = FALSE] /\ net' = net \cup Ack(rcv)
      /\ UNCHANGED <<sent, snd, losses, early, crashed>>
  BY DEF DelAckTimeout
<1>2. /\ Holds(rcv, snd.written) /\ snd.written \in Nat /\ FALSE \in BOOLEAN
      /\ rcv.nextRx \in Nat /\ rcv.read \in Nat
  BY InvTypes DEF IInv
<1>3. /\ Holds(rcv', snd.written) /\ rcv'.nextRx = rcv.nextRx
      /\ rcv'.read = rcv.read
  BY <1>1, <1>2, DelAckHolds
<1>4. MaxRx(rcv') = MaxRx(rcv)
  BY <1>3 DEF MaxRx
<1>5. \A k \in Ack(rcv) : Offered(k, rcv'.nextRx, MaxRx(rcv'))
  BY <1>2, <1>3, <1>4, AckFacts
<1>6. losses' \in 0 .. MaxLosses
  BY <1>1 DEF IInv
<1>7. rcv.nextRx <= rcv.nextRx /\ rcv.read <= rcv.read
  BY <1>2
<1> QED
  BY <1>1, <1>3, <1>5, <1>6, <1>7, ReceiverStepsKeep

LEMMA RecvKeeps ==
  ASSUME IInv, Recv
  PROVE  IInv' /\ Streams
<1> DEFINE read == rcv.read + 1
<1>1. /\ rcv' = [rcv EXCEPT !.read = read] /\ rcv.read < rcv.nextRx
      /\ UNCHANGED <<sent, snd, net, losses, early, crashed>>
  BY InvTypes DEF Recv, Receivers
<1>2. /\ rcv \in Receivers /\ rcv.nextRx \in Nat /\ rcv.read \in Nat
      /\ MaxRx(rcv) \in Nat
  BY InvTypes
<1>3. read \in Nat /\ read <= rcv.nextRx /\ rcv.read <= read
  BY <1>1, <1>2
<1> HIDE DEF read
<1>4. rcv' \in Receivers
  BY <1>1, <1>2, <1>3 DEF Receivers
<1>5. /\ rcv'.nextRx = rcv.nextRx /\ rcv'.read = read
      /\ rcv'.stored = rcv.stored
  BY <1>1, <1>2 DEF Receivers
<1>6. MaxRx(rcv') \in Nat /\ MaxRx(rcv) <= MaxRx(rcv')
  BY <1>2, <1>3, <1>5, Bounds DEF MaxRx
<1>7. Holds(rcv', snd.written)
  <2>1. rcv.nextRx <= MaxRx(rcv) /\ Holds(rcv, snd.written)
    BY DEF IInv, Holds
  <2>2. rcv'.nextRx <= MaxRx(rcv')
    BY <1>2, <1>5, <1>6, <2>1
  <2>3. \A n \in rcv.stored : n \in Nat /\ n < MaxRx(rcv)
    BY <1>2, <2>1 DEF Holds, Receivers
  <2>4. \A n \in rcv.stored : n < MaxRx(rcv')
    BY <1>2, <1>6, <2>3
  <2> QED
    BY <1>3, <1>4, <1>5, <2>1, <2>2, <2>4 DEF Holds
<1>8. losses' \in 0 .. MaxLosses /\ rcv.nextRx <= rcv.nextRx
  BY <1>1, <1>2 DEF IInv
<1> QED
  BY <1>1, <1>3, <1>5, <1>7, <1>8, ReceiverStepsKeep

LEMMA LoseKeeps ==
  ASSUME IInv, NEW m, Lose(m)
  PROVE  IInv' /\ Streams
<1>1. /\ net' = net \ {m} /\ losses < MaxLosses /\ losses' = losses + 1
      /\ UNCHANGED <<sent, snd, rcv, early, crashed>>
  BY DEF Lose
<1>2. losses' \in 0 .. MaxLosses
  BY <1>1, Bounds DEF IInv
<1>3. rcv.nextRx <= rcv.nextRx /\ rcv.read <= rcv.read
  BY InvTypes
<1>4. Holds(rcv', snd.written)
  BY <1>1 DEF IInv
<1> QED
  BY <1>1, <1>2, <1>3, <1>4, ReceiverStepsKeep

LEMMA InitEstablishes == Init => IInv /\ Stream!Init
<1> SUFFICES ASSUME Init PROVE IInv /\ Stream!Init
  OBVIOUS
<1>1. /\ snd = [written |-> 0, head |-> 0, nextTx |-> 0, highTx |-> 0,
                lost |-> {}, rWnd |-> Buffer, highRxAckMark |-> 0,
                retx |-> FALSE, persist |-> FALSE, pending |-> FALSE,
                out |-> {}]
      /\ rcv = [nextRx |-> 0, stored |-> {}, read |-> 0, delAck |-> FALSE]
      /\ sent = 0 /\ net = {} /\ losses = 0 /\ early = 0 /\ crashed = FALSE
  BY DEF Init
<1>2. MaxRx(rcv) \in Nat /\ MaxRx(rcv) = Buffer
  BY <1>1, Bounds DEF MaxRx
<1>3. Buffer \in 0 .. Buffer
  BY Bounds
<1>4. snd \in Senders
  BY <1>1, <1>3 DEF Senders
<1>5. Good(snd, MaxRx(rcv))
  BY <1>1, <1>2, <1>4, Bounds DEF Good
<1>6. rcv \in Receivers
  BY <1>1 DEF Receivers
<1>7. Holds(rcv, snd.written)
  BY <1>1, <1>2, <1>6 DEF Holds
<1>8. snd.written <= sent * SegSize
  <2>1. 0 * SegSize = 0
    BY Bounds
  <2> QED
    BY <1>1, <2>1
<1>9. IInv
  <2>1. snd.out = {} /\ snd.highRxAckMark <= rcv.nextRx
    BY <1>1
  <2>2. /\ sent \in 0 .. Packets /\ losses \in 0 .. MaxLosses
        /\ early \in 0 .. MaxEarly
    <3>1. sent = 0 /\ losses = 0 /\ early = 0
      BY <1>1
    <3> QED
      BY <3>1, Bounds
  <2>3. \A m \in net : Carried(m, snd.written, rcv.nextRx, MaxRx(rcv))
    BY <1>1
  <2>4. crashed \in BOOLEAN
    BY <1>1
  <2> QED
    BY <1>5, <1>7, <1>8, <2>1, <2>2, <2>3, <2>4 DEF IInv
<1>10. Stream!Init
  BY <1>1 DEF Stream!Init
<1> QED
  BY <1>9, <1>10

LEMMA NextKeeps == IInv /\ [Next]_vars => IInv' /\ Streams
<1> SUFFICES ASSUME IInv, [Next]_vars PROVE IInv' /\ Streams
  OBVIOUS
<1>1. CASE SendPacket
  BY <1>1, SendPacketKeeps
<1>2. CASE Timers
  BY <1>2, PendingEventKeeps, ReTxTimeoutKeeps, PersistTimeoutKeeps,
     DelAckTimeoutKeeps DEF Timers
<1>3. CASE Recv
  BY <1>3, RecvKeeps
<1>4. ASSUME NEW m \in net, ReceiveAck(m) \/ ReceiveData(m) \/ Lose(m)
      PROVE  IInv' /\ Streams
  BY <1>4, ReceiveAckKeeps, ReceiveDataKeeps, LoseKeeps
<1>5. CASE UNCHANGED vars
  BY <1>5 DEF vars, IInv, Streams, Stream!vars
<1> QED
  BY <1>1, <1>2, <1>3, <1>4, <1>5 DEF Next

\* The invariant the results below rest on: a sender never has leave to send
\* what the receiver has no room for, and nothing is in flight that would give
\* it.
THEOREM Inductive == Spec => []IInv
BY InitEstablishes, NextKeeps, PTL DEF Spec

\* The fields of the two sockets, and the segments, hold what the code's types
\* allow, in the order the send buffer relies on (una <= nextTx <= highTx <=
\* written), for any amount of data, buffers, windows, losses and timeouts.
THEOREM TypeCorrect == Spec => []TypeOK
<1>1. ASSUME IInv PROVE TypeOK
  <2>1. /\ snd \in Senders /\ Good(snd, MaxRx(rcv)) /\ MaxRx(rcv) \in Nat
        /\ snd.written <= Total /\ Total \in Nat
        /\ rcv \in Receivers /\ Holds(rcv, snd.written)
    BY <1>1, InvTypes, TotalIsNat DEF GoodUpTo, IInv
  <2>2. /\ snd.written \in Nat /\ snd.head \in Nat /\ snd.nextTx \in Nat
        /\ snd.highTx \in Nat /\ snd.lost \in SUBSET Nat
        /\ snd.rWnd \in 0 .. Buffer /\ snd.highRxAckMark \in Nat
        /\ snd.retx \in BOOLEAN /\ snd.persist \in BOOLEAN
        /\ snd.pending \in BOOLEAN
    BY <2>1 DEF Senders
  <2>3. /\ rcv.nextRx \in Nat /\ rcv.read \in Nat /\ rcv.stored \in SUBSET Nat
        /\ rcv.delAck \in BOOLEAN
    BY <2>1 DEF Receivers
  <2>4. /\ snd.head \in Bytes /\ snd.nextTx \in snd.head .. snd.highTx
        /\ snd.highTx <= snd.written /\ snd.written \in Bytes
        /\ snd.highRxAckMark \in snd.head .. snd.written
    BY <2>1, <2>2 DEF Good, Bytes
  <2>5. snd.lost \subseteq snd.head .. snd.highTx - 1
    BY <2>1, <2>2 DEF Good
  <2>6. /\ rcv.nextRx \in Bytes /\ rcv.read \in 0 .. rcv.nextRx
        /\ rcv.stored \subseteq rcv.nextRx + 1 .. MaxRx(rcv) - 1
    BY <2>1, <2>2, <2>3 DEF Holds, Bytes
  <2>7. ASSUME NEW m \in net PROVE m \in Segments
    <3>1. CASE m \in DataSegments /\ m.seq + m.len <= snd.written
      <4>1. m.seq \in Bytes
        BY <2>1, <2>2, <3>1, Bounds DEF DataSegments, Bytes
      <4> QED
        BY <3>1, <4>1 DEF DataSegments, Segments
    <3>2. CASE m \in AckSegments /\ m.ack <= rcv.nextRx
      <4>1. m.ack \in Nat /\ rcv.nextRx <= Total
        BY <2>6, <3>2 DEF AckSegments, Bytes
      <4>2. m.ack \in Bytes
        BY <2>1, <2>3, <3>2, <4>1 DEF Bytes
      <4> QED
        BY <3>2, <4>2 DEF AckSegments, Segments
    <3> QED
      BY <1>1, <3>1, <3>2 DEF IInv, Carried
  <2>8. /\ sent \in 0 .. Packets /\ snd.out = {} /\ crashed \in BOOLEAN
        /\ losses \in 0 .. MaxLosses /\ early \in 0 .. MaxEarly
    BY <1>1 DEF IInv
  <2> QED
    BY <2>2, <2>3, <2>4, <2>5, <2>6, <2>7, <2>8 DEF TypeOK
<1> QED
  BY <1>1, Inductive, PTL

\* Whatever windows arrive, late or in another order, no byte is sent as data
\* for which the receiver has no room (UpdateWindowSize 3826, SendDataPacket
\* 2760).
THEOREM RoomForAll == Spec => []NeverOutOfWindow
<1>1. IInv => NeverOutOfWindow
  BY DEF IInv, Good, NeverOutOfWindow
<1> QED
  BY <1>1, Inductive, PTL

\* The two ends implement the stream of bytes, but for its liveness: what is
\* delivered was written, and what is acknowledged was delivered, with windows
\* that close, probes, and timeouts meanwhile.
THEOREM ImplementsStreamSafely == Spec => Stream!Spec
<1>1. IInv /\ [Next]_vars => Streams
  BY NextKeeps
<1>2. Init => Stream!Init
  BY InitEstablishes
<1> QED
  BY <1>1, <1>2, Inductive, PTL DEF Spec, Stream!Spec, Streams
=============================================================================

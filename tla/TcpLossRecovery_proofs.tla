------------------------ MODULE TcpLossRecovery_proofs ------------------------
(***************************************************************************)
(* Loss recovery for any number of segments, any threshold, any congestion *)
(* window and any number of losses and early timeouts.  Each lemma follows *)
(* one call of the code; the steps of the specification compose them.      *)
(***************************************************************************)
EXTENDS TcpLossRecovery, FiniteSetTheorems, TLAPS

-----------------------------------------------------------------------------
(* The inductive invariant.                                                *)

Senders ==
  [head : 0 .. Total, highTx : 0 .. Total,
   sacked : SUBSET Seqs, lost : SUBSET Seqs, retrans : SUBSET Seqs,
   congState : CongStates, dupAckCount : Nat, recover : 0 .. Total,
   recoverActive : BOOLEAN, firstPartial : BOOLEAN, ecnEchoSeq : 0 .. Total,
   pending : BOOLEAN, retx : BOOLEAN, asserted : BOOLEAN,
   out : SUBSET Segments]

\* The scoreboard speaks of what is outstanding, the head is not reported as
\* received, and what goes out was counted as sent.
Board(s) ==
  /\ s \in Senders
  /\ s.head <= s.highTx /\ s.recover <= s.highTx /\ s.ecnEchoSeq <= s.head
  /\ s.sacked \cup s.lost \cup s.retrans \subseteq Sent(s)
  /\ s.sacked \cap ({s.head} \cup s.lost \cup s.retrans) = {}
  /\ \A m \in s.out : m.kind = "data" /\ m.seq < s.highTx

\* The sender is ready for a recovery only when the last one is over.
Ready(s) == s.congState \in {"open", "disorder"} => s.recover <= s.head

\* What the assertions rely on, where no echo interferes: counts are left over
\* neither in "open" nor after a timeout, and "disorder" ends at the threshold.
Counted(s) ==
  /\ s.asserted
  /\ s.congState # "cwr"
  /\ s.congState \in {"open", "disorder"} => ~s.recoverActive
  /\ s.congState \in {"open", "loss"} => s.dupAckCount = 0
  /\ s.congState = "disorder" => s.dupAckCount < ReTxThresh

Acks == {m \in net : m.kind = "ack"}
Arrived == {n \in Seqs : n < rcv.nextRx} \cup rcv.stored

ReceiverOK ==
  /\ rcv \in [nextRx : 0 .. Total, stored : SUBSET Seqs, delAck : BOOLEAN]
  /\ snd.head <= rcv.nextRx /\ rcv.nextRx <= snd.highTx
  /\ \A n \in rcv.stored : rcv.nextRx < n /\ n < snd.highTx

\* What is reported has arrived; and what was reported out of order is never
\* the next one to be expected, in any acknowledgement.
Reported(sack) ==
  /\ sack \subseteq Arrived
  /\ \A m \in Acks : m.ack \notin sack

NetOK ==
  /\ net \subseteq Segments
  /\ \A m \in net : m.kind = "data" => m.seq < snd.highTx
  /\ \A m \in Acks : /\ m.ack <= rcv.nextRx
                     /\ \A n \in m.sack : m.ack < n
                     /\ Reported(m.sack)
  /\ Reported(snd.sacked)

IInv ==
  /\ Board(snd) /\ snd.out = {} /\ Ready(snd) /\ (~Ecn => Counted(snd))
  /\ ReceiverOK /\ NetOK
  /\ losses \in 0 .. MaxLosses /\ early \in 0 .. MaxEarly

-----------------------------------------------------------------------------
(* The scoreboard.                                                         *)

LEMMA Constants ==
  /\ Total \in Nat /\ Total >= 1 /\ ReTxThresh \in Nat /\ ReTxThresh >= 1
  /\ MaxCWnd \in Nat /\ MaxLosses \in Nat /\ MaxEarly \in Nat
  /\ Ecn \in BOOLEAN
BY LossRecoveryAssumption

\* Sets of segments can be counted.
LEMMA Countable ==
  ASSUME NEW S \in SUBSET Seqs
  PROVE  IsFiniteSet(S) /\ Cardinality(S) \in Nat
<1>1. 0 \in Int /\ Total - 1 \in Int
  BY Constants
<1>2. IsFiniteSet(Seqs)
  BY <1>1, FS_Interval DEF Seqs
<1> QED
  BY <1>2, FS_Subset, FS_CardinalityType

\* fresh continues what was sent, up to h.
Continues(s, fresh, h) ==
  /\ h \in 0 .. Total /\ s.highTx <= h
  /\ h = s.highTx + Cardinality(fresh) /\ fresh = s.highTx .. h - 1

\* The first k of what was never sent continue what was sent without a gap,
\* and are all of it when k is more than there is.
LEMMA FirstUnsent ==
  ASSUME NEW s \in Senders, NEW k \in Int
  PROVE  \E h : /\ Continues(s, First(Unsent(s), k), h)
                /\ k > Cardinality(Unsent(s)) => h = Total
<1> USE Constants
<1> DEFINE h == s.highTx
           new == First(Unsent(s), k)
<1>1. h \in 0 .. Total /\ Unsent(s) = h .. Total - 1
  BY DEF Senders, Unsent
<1> HIDE DEF h
<1>2. ASSUME NEW n \in Unsent(s)
      PROVE  Cardinality({j \in Unsent(s) : j < n}) = n - h
  <2>1. n \in Int /\ h <= n /\ n <= Total - 1
    BY <1>1
  <2> DEFINE below == {j \in Unsent(s) : j < n}
  <2>2. below = h .. n - 1
    BY <1>1, <2>1
  <2> HIDE DEF below
  <2>3. h \in Int /\ n - 1 \in Int
    BY <1>1, <2>1
  <2>4. Cardinality(h .. n - 1) = IF h > n - 1 THEN 0 ELSE n - 1 - h + 1
    BY <2>3, FS_Interval
  <2>5. Cardinality(below) = n - h
    BY <1>1, <2>1, <2>2, <2>4
  <2> QED
    BY <2>5 DEF below
<1>3. new = {n \in h .. Total - 1 : n - h < k}
  BY <1>1, <1>2 DEF First
<1> HIDE DEF new
<1>4. Cardinality(Unsent(s)) = Total - h
  BY <1>1, FS_Interval
<1>5. CASE k <= 0
  <2>1. new = {}
    BY <1>1, <1>3, <1>5
  <2>2. Cardinality(new) = 0
    BY <2>1, FS_EmptySet
  <2>3. h = h + Cardinality(new) /\ new = h .. h - 1
    BY <1>1, <2>1, <2>2
  <2> QED
    BY <1>1, <1>4, <1>5, <2>3 DEF h, new, Continues
<1>6. CASE k > 0 /\ k <= Total - h
  <2>1. new = h .. h + k - 1
    BY <1>1, <1>3, <1>6
  <2>2. Cardinality(new) = k
    BY <1>1, <1>6, <2>1, FS_Interval
  <2>3. h + k = h + Cardinality(new) /\ h + k \in h .. Total
    BY <1>1, <1>6, <2>2
  <2> QED
    BY <1>1, <1>4, <1>6, <2>1, <2>3 DEF h, new, Continues
<1>7. CASE k > 0 /\ k > Total - h
  <2>1. new = h .. Total - 1
    BY <1>1, <1>3, <1>7
  <2>2. Cardinality(new) = Total - h
    BY <1>1, <2>1, FS_Interval
  <2>3. Total = h + Cardinality(new) /\ Total \in h .. Total
    BY <1>1, <2>2
  <2> QED
    BY <1>1, <1>4, <1>7, <2>1, <2>3 DEF h, new, Continues
<1> QED
  BY <1>1, <1>5, <1>6, <1>7

\* The congestion state is left alone.
SameState(s, t) ==
  /\ t.congState = s.congState /\ t.recover = s.recover
  /\ t.recoverActive = s.recoverActive /\ t.dupAckCount = s.dupAckCount
  /\ t.asserted = s.asserted

\* Sending moves nothing but highTx, retrans, the timer and what goes out.
Same(s, t) ==
  /\ SameState(s, t)
  /\ t.head = s.head /\ t.sacked = s.sacked /\ s.highTx <= t.highTx

LEMMA SendSegmentsFacts ==
  ASSUME NEW s, Board(s), NEW fresh \in SUBSET Seqs, NEW again \in SUBSET Seqs,
         NEW h, Continues(s, fresh, h),
         \A n \in again : s.head <= n /\ n < h /\ n \notin s.sacked
  PROVE  /\ Board(SendSegments(s, fresh, again))
         /\ Same(s, SendSegments(s, fresh, again))
<1> USE Constants
<1> DEFINE new == [kind : {"data"}, seq : fresh, again : {FALSE}]
                    \cup [kind : {"data"}, seq : again, again : {TRUE}]
           t == SendSegments(s, fresh, again)
<1>1. /\ s \in Senders /\ s.head \in 0 .. Total /\ s.highTx \in 0 .. Total
      /\ s.head <= s.highTx /\ h \in 0 .. Total /\ s.highTx <= h
      /\ fresh = s.highTx .. h - 1
  BY DEF Board, Senders, Continues
<1>2. new \subseteq Segments /\ \A m \in new : m.kind = "data" /\ m.seq < h
  <2> SUFFICES ASSUME NEW m \in new
               PROVE  m \in Segments /\ m.kind = "data" /\ m.seq < h
    OBVIOUS
  <2>1. PICK n \in fresh \cup again, b \in BOOLEAN :
          m = [kind |-> "data", seq |-> n, again |-> b]
    OBVIOUS
  <2>2. n \in Seqs /\ n < h
    <3>1. CASE n \in fresh
      BY <1>1, <3>1 DEF Seqs
    <3>2. CASE n \in again
      BY <1>1, <3>2
    <3> QED
      BY <3>1, <3>2
  <2> QED
    BY <2>1, <2>2 DEF Segments
<1> DEFINE timed == s.retx \/ fresh \cup again # {}
<1>3. /\ t = [s EXCEPT !.out = @ \cup new, !.highTx = h,
                       !.retrans = @ \cup again, !.retx = timed]
      /\ timed \in BOOLEAN
  BY DEF SendSegments, Continues
<1> HIDE DEF new, t, timed
<1>4. /\ t.head = s.head /\ t.highTx = h /\ t.sacked = s.sacked
      /\ t.lost = s.lost /\ t.retrans = s.retrans \cup again
      /\ t.out = s.out \cup new /\ t.recover = s.recover
      /\ t.ecnEchoSeq = s.ecnEchoSeq
  BY <1>1, <1>3 DEF Senders
<1>5. t \in Senders
  <2>1. s.out \cup new \in SUBSET Segments
    BY <1>1, <1>2 DEF Senders
  <2>2. s.retrans \cup again \in SUBSET Seqs
    BY <1>1 DEF Senders
  <2>3. h \in 0 .. Total
    BY <1>1
  <2> QED
    BY <1>1, <1>3, <2>1, <2>2, <2>3 DEF Senders
<1>6. s.retrans \cup again \subseteq s.head .. h - 1
  <2>1. ASSUME NEW n \in s.retrans PROVE n \in s.head .. h - 1
    BY <1>1, <2>1 DEF Board, Sent
  <2>2. ASSUME NEW n \in again PROVE n \in s.head .. h - 1
    BY <1>1, <2>2 DEF Seqs
  <2> QED
    BY <2>1, <2>2
<1>7. Board(t)
  <2>1. /\ s.recover \in 0 .. Total /\ s.recover <= s.highTx
        /\ s.ecnEchoSeq <= s.head
        /\ s.sacked \cup s.lost \subseteq s.head .. s.highTx - 1
        /\ s.sacked \cap ({s.head} \cup s.lost \cup s.retrans) = {}
        /\ \A m \in s.out : m.kind = "data" /\ m.seq < s.highTx
    BY DEF Board, Sent, Senders
  <2>2. t.sacked \cup t.lost \cup t.retrans \subseteq t.head .. t.highTx - 1
    BY <1>1, <1>4, <1>6, <2>1
  <2>3. t.sacked \cap ({t.head} \cup t.lost \cup t.retrans) = {}
    BY <1>4, <2>1
  <2>4. ASSUME NEW m \in t.out PROVE m.kind = "data" /\ m.seq < t.highTx
    <3>1. CASE m \in new
      BY <1>2, <1>4, <3>1
    <3>2. CASE m \in s.out
      <4>1. m \in Segments /\ m.kind = "data" /\ m.seq < s.highTx
        BY <2>1, <3>2, <1>1 DEF Senders
      <4>2. m.seq \in Seqs
        BY <4>1 DEF Segments
      <4> QED
        BY <1>1, <1>4, <4>1, <4>2 DEF Seqs
    <3> QED
      BY <1>4, <3>1, <3>2
  <2> QED
    BY <1>1, <1>4, <1>5, <2>1, <2>2, <2>3, <2>4 DEF Board, Sent
<1>8. Same(s, t)
  BY <1>1, <1>3, <1>4 DEF Same, SameState, Senders
<1> QED
  BY <1>7, <1>8 DEF t

\* Where there is nothing new, the repetitions alone.
LEMMA RepeatFacts ==
  ASSUME NEW s, Board(s), NEW again \in SUBSET Seqs,
         \A n \in again : s.head <= n /\ n < s.highTx /\ n \notin s.sacked
  PROVE  /\ Board(SendSegments(s, {}, again))
         /\ Same(s, SendSegments(s, {}, again))
<1>1. Cardinality({}) = 0
  BY FS_EmptySet
<1>2. s.highTx \in 0 .. Total /\ Total \in Nat
  BY Constants DEF Board, Senders
<1>3. Continues(s, {}, s.highTx)
  BY <1>1, <1>2 DEF Continues
<1> QED
  BY <1>1, <1>2, <1>3, SendSegmentsFacts

LEMMA SendNextFacts ==
  ASSUME NEW s, Board(s), NEW k \in Int, NEW rule3 \in BOOLEAN
  PROVE  Board(SendNext(s, k, rule3)) /\ Same(s, SendNext(s, k, rule3))
<1> USE Constants
<1> DEFINE left == k - Cardinality(Missing(s))
           rest == left - Cardinality(Unsent(s))
           third == IF rule3 THEN First(Unheard(s), rest) ELSE {}
           fresh == First(Unsent(s), left)
           again == First(Missing(s), k) \cup third
<1>1. /\ s \in Senders /\ s.head \in 0 .. Total /\ s.highTx \in 0 .. Total
      /\ s.head <= s.highTx
      /\ s.lost \subseteq Sent(s) /\ s.lost \cap s.sacked = {}
      /\ s.lost \subseteq Seqs
  BY DEF Board, Senders
<1>2. Missing(s) \subseteq Seqs /\ Unsent(s) \subseteq Seqs
      /\ Unheard(s) \subseteq Seqs
  BY <1>1 DEF Missing, Unsent, Unheard, Seqs
<1>3. left \in Int /\ Cardinality(Unsent(s)) \in Nat
  BY <1>2, Countable
<1>4. SendNext(s, k, rule3) = SendSegments(s, fresh, again)
  BY DEF SendNext
<1> HIDE DEF left
<1>5. PICK h : /\ Continues(s, fresh, h)
               /\ left > Cardinality(Unsent(s)) => h = Total
  <2>1. s \in Senders /\ left \in Int
    BY <1>1, <1>3
  <2> QED
    BY <2>1, FirstUnsent, Zenon
<1>h. /\ h \in 0 .. Total /\ s.highTx <= h
      /\ left > Cardinality(Unsent(s)) => h = Total
  BY <1>5 DEF Continues
<1>6. fresh \subseteq Seqs /\ again \subseteq Seqs
  BY <1>2 DEF First
<1> HIDE DEF fresh
<1>7. ASSUME NEW n \in First(Missing(s), k)
      PROVE  s.head <= n /\ n < h /\ n \notin s.sacked
  <2>1. n \in s.lost /\ n \in s.head .. s.highTx - 1 /\ n \notin s.sacked
    BY <1>1 DEF First, Missing, Sent
  <2> QED
    BY <1>1, <1>h, <2>1
<1>8. ASSUME NEW n \in third
      PROVE  s.head <= n /\ n < h /\ n \notin s.sacked
  <2>1. n \in First(Unheard(s), rest)
    BY <1>8
  <2>2. n \in s.head .. Total - 1 /\ n \notin s.sacked
    BY <2>1 DEF First, Unheard
  <2> DEFINE below == {j \in Unheard(s) : j < n}
  <2>3. Cardinality(below) < rest
    BY <2>1 DEF First
  <2>4. Cardinality(below) \in Nat
    BY <1>2, Countable
  <2> HIDE DEF below
  <2>5. left > Cardinality(Unsent(s))
    BY <1>3, <2>3, <2>4
  <2> QED
    BY <1>1, <1>h, <2>2, <2>5
<1> QED
  BY <1>4, <1>5, <1>6, <1>7, <1>8, SendSegmentsFacts

LEMMA InFlightIsInt ==
  ASSUME NEW s, Board(s)
  PROVE  BytesInFlight(s) \in Int
<1>1. s.retrans \subseteq Seqs /\ Sent(s) \subseteq Seqs
  BY Constants DEF Board, Senders, Sent, Seqs
<1>2. Sent(s) \ (s.sacked \cup s.lost) \subseteq Seqs
  BY <1>1
<1> QED
  BY <1>1, <1>2, Countable DEF BytesInFlight

LEMMA SendPendingDataFacts ==
  ASSUME NEW s, Board(s), NEW cWnd \in Int
  PROVE  Board(SendPendingData(s, cWnd)) /\ Same(s, SendPendingData(s, cWnd))
<1>1. cWnd - BytesInFlight(s) \in Int
  BY InFlightIsInt
<1>2. (s.congState = "recovery") \in BOOLEAN
  OBVIOUS
<1> QED
  BY <1>1, <1>2, SendNextFacts DEF SendPendingData

\* There is something to repeat when something is outstanding.
LEMMA DoRetransmitFacts ==
  ASSUME NEW s, Board(s), s.head < s.highTx
  PROVE  Board(DoRetransmit(s)) /\ Same(s, DoRetransmit(s))
<1>1. CASE Missing(s) \cup Unsent(s) = {}
  <2>1. s.head \in Seqs /\ s.head \notin s.sacked
    BY Constants DEF Board, Senders, Seqs
  <2>2. s.head <= s.head
    BY <2>1 DEF Seqs
  <2>3. DoRetransmit(s) = SendSegments(s, {}, {s.head})
    BY <1>1 DEF DoRetransmit
  <2>4. {s.head} \in SUBSET Seqs
    BY <2>1
  <2> QED
    BY <2>1, <2>2, <2>3, <2>4, RepeatFacts
<1>2. CASE Missing(s) \cup Unsent(s) # {}
  <2>1. DoRetransmit(s) = SendNext(s, 1, FALSE)
    BY <1>2 DEF DoRetransmit
  <2>2. 1 \in Int /\ FALSE \in BOOLEAN
    OBVIOUS
  <2> QED
    BY <2>1, <2>2, SendNextFacts
<1> QED
  BY <1>1, <1>2

\* The reports of an acknowledgement are entered.
LEMMA UpdateFacts ==
  ASSUME NEW s, Board(s), NEW sack \in SUBSET Seqs,
         \A n \in sack : s.head < n
  PROVE  LET u == Update(s, sack)
         IN /\ Board(u) /\ SameState(s, u)
            /\ u.head = s.head /\ u.highTx = s.highTx
            /\ u.sacked = s.sacked \cup (sack \cap Sent(s))
<1> DEFINE t == [s EXCEPT !.sacked = @ \cup (sack \cap Sent(s)),
                          !.retrans = @ \ sack]
           u == Update(s, sack)
<1>1. s \in Senders
  BY DEF Board
<1>2. /\ t \in Senders /\ SameState(s, t)
      /\ t.head = s.head /\ t.highTx = s.highTx /\ t.lost = s.lost
      /\ t.sacked = s.sacked \cup (sack \cap Sent(s))
      /\ t.retrans = s.retrans \ sack
      /\ t.recover = s.recover /\ t.ecnEchoSeq = s.ecnEchoSeq
      /\ t.out = s.out
  BY <1>1 DEF Senders, SameState
<1>3. u = [t EXCEPT !.lost = (@ \ sack) \cup PresumedLost(t)]
  BY DEF Update
<1> HIDE DEF t, u
<1>4. PresumedLost(t) \subseteq Sent(s) \ t.sacked
  BY <1>2 DEF PresumedLost, Sent
<1>5. Sent(s) \subseteq Seqs
  BY <1>1, Constants DEF Senders, Sent, Seqs
<1>6. /\ u \in Senders /\ SameState(s, u)
      /\ u.head = s.head /\ u.highTx = s.highTx
      /\ u.lost = (s.lost \ sack) \cup PresumedLost(t)
      /\ u.sacked = s.sacked \cup (sack \cap Sent(s))
      /\ u.retrans = s.retrans \ sack
      /\ u.recover = s.recover /\ u.ecnEchoSeq = s.ecnEchoSeq
      /\ u.out = s.out
  BY <1>2, <1>3, <1>4, <1>5 DEF Senders, SameState
<1>7. /\ s.sacked \cup s.lost \cup s.retrans \subseteq Sent(s)
      /\ s.sacked \cap ({s.head} \cup s.lost \cup s.retrans) = {}
  BY DEF Board
<1>8. u.sacked \cup u.lost \cup u.retrans \subseteq Sent(u)
  BY <1>4, <1>6, <1>7 DEF Sent
<1>9. s.head \notin sack
  BY <1>1, Constants DEF Senders
<1>10. u.sacked \cap ({u.head} \cup u.lost \cup u.retrans) = {}
  BY <1>2, <1>4, <1>6, <1>7, <1>9
<1>11. Board(u)
  BY <1>6, <1>8, <1>10 DEF Board
<1> QED
  BY <1>6, <1>11 DEF u

\* What is acknowledged leaves the scoreboard.
LEMMA DiscardUpToFacts ==
  ASSUME NEW s, Board(s), NEW ack \in s.head .. s.highTx, ack \notin s.sacked
  PROVE  LET d == DiscardUpTo(s, ack)
         IN /\ Board(d) /\ SameState(s, d)
            /\ d.head = ack /\ d.highTx = s.highTx
            /\ d.sacked = {n \in s.sacked : n >= ack}
<1> USE Constants
<1> DEFINE d == DiscardUpTo(s, ack)
           above(S) == {n \in S : n >= ack}
<1>1. /\ s \in Senders /\ s.head \in 0 .. Total /\ s.highTx \in 0 .. Total
      /\ ack \in 0 .. Total /\ s.head <= ack /\ ack <= s.highTx
      /\ s.ecnEchoSeq \in 0 .. Total
  BY DEF Board, Senders
<1>2. d = [s EXCEPT !.head = ack, !.sacked = above(@), !.lost = above(@),
                    !.retrans = above(@)]
  BY DEF DiscardUpTo
<1> HIDE DEF d
<1>3. /\ d \in Senders /\ SameState(s, d)
      /\ d.head = ack /\ d.highTx = s.highTx
      /\ d.sacked = above(s.sacked) /\ d.lost = above(s.lost)
      /\ d.retrans = above(s.retrans)
      /\ d.recover = s.recover /\ d.ecnEchoSeq = s.ecnEchoSeq
      /\ d.out = s.out
  BY <1>1, <1>2 DEF Senders, SameState
<1>4. /\ s.sacked \cup s.lost \cup s.retrans \subseteq s.head .. s.highTx - 1
      /\ s.sacked \cap ({s.head} \cup s.lost \cup s.retrans) = {}
      /\ s.recover <= s.highTx /\ s.ecnEchoSeq <= s.head
      /\ \A m \in s.out : m.kind = "data" /\ m.seq < s.highTx
  BY DEF Board, Sent
<1>5. d.sacked \cup d.lost \cup d.retrans \subseteq d.head .. d.highTx - 1
  BY <1>1, <1>3, <1>4
<1>6. d.sacked \cap ({d.head} \cup d.lost \cup d.retrans) = {}
  BY <1>3, <1>4
<1>7. Board(d)
  BY <1>1, <1>3, <1>4, <1>5, <1>6 DEF Board, Sent
<1> QED
  BY <1>3, <1>7 DEF d

LEMMA MarkHeadAsLostFacts ==
  ASSUME NEW s, Board(s), s.head < s.highTx
  PROVE  LET t == MarkHeadAsLost(s)
         IN /\ Board(t) /\ SameState(s, t)
            /\ t.head = s.head /\ t.highTx = s.highTx /\ t.sacked = s.sacked
<1> USE Constants
<1> DEFINE t == MarkHeadAsLost(s)
<1>1. /\ s \in Senders /\ s.head \in 0 .. Total /\ s.highTx \in 0 .. Total
      /\ s.head \in Seqs /\ s.head \in Sent(s)
  BY DEF Board, Senders, Seqs, Sent
<1>2. /\ t \in Senders /\ SameState(s, t)
      /\ t.head = s.head /\ t.highTx = s.highTx /\ t.sacked = s.sacked
      /\ t.lost = s.lost \cup {s.head} /\ t.retrans = s.retrans \ {s.head}
      /\ t.recover = s.recover /\ t.ecnEchoSeq = s.ecnEchoSeq
      /\ t.out = s.out
  BY <1>1 DEF MarkHeadAsLost, Senders, SameState
<1> HIDE DEF t
<1>3. /\ t.sacked \cup t.lost \cup t.retrans \subseteq Sent(t)
      /\ t.sacked \cap ({t.head} \cup t.lost \cup t.retrans) = {}
  BY <1>1, <1>2 DEF Board, Sent
<1>4. Board(t)
  BY <1>2, <1>3 DEF Board
<1> QED
  BY <1>2, <1>4 DEF t

LEMMA SetSentListLostFacts ==
  ASSUME NEW s, Board(s)
  PROVE  LET t == SetSentListLost(s)
         IN /\ Board(t) /\ SameState(s, t)
            /\ t.head = s.head /\ t.highTx = s.highTx /\ t.sacked = s.sacked
<1> USE Constants
<1> DEFINE t == SetSentListLost(s)
<1>1. s \in Senders /\ Sent(s) \subseteq Seqs
  BY DEF Board, Senders, Seqs, Sent
<1>2. /\ t \in Senders /\ SameState(s, t)
      /\ t.head = s.head /\ t.highTx = s.highTx /\ t.sacked = s.sacked
      /\ t.lost = Sent(s) \ s.sacked /\ t.retrans = {}
      /\ t.recover = s.recover /\ t.ecnEchoSeq = s.ecnEchoSeq
      /\ t.out = s.out
  BY <1>1 DEF SetSentListLost, Senders, SameState
<1> HIDE DEF t
<1>3. /\ t.sacked \cup t.lost \cup t.retrans \subseteq Sent(t)
      /\ t.sacked \cap ({t.head} \cup t.lost \cup t.retrans) = {}
  BY <1>1, <1>2 DEF Board, Sent
<1>4. Board(t)
  BY <1>2, <1>3 DEF Board
<1> QED
  BY <1>2, <1>4 DEF t

-----------------------------------------------------------------------------
(* The congestion states.                                                  *)

Good(s) == Board(s) /\ Ready(s) /\ (~Ecn => Counted(s))

\* t may come after s: nothing sent or acknowledged is taken back, and a
\* recovery is ended, or entered, only at the recovery point of s.
Follows(s, t) ==
  /\ s.head <= t.head /\ s.highTx <= t.highTx /\ s.recover <= t.recover
  /\ s.congState # "recovery" /\ t.congState \in {"open", "disorder", "recovery"}
       => s.recover <= t.head

LEMMA FollowsItself ==
  ASSUME NEW s, Board(s), Ready(s)
  PROVE  Follows(s, s)
<1>1. s.head \in 0 .. Total /\ s.highTx \in 0 .. Total /\ s.recover \in 0 .. Total
      /\ s.congState \in CongStates
  BY DEF Board, Senders
<1> QED
  BY <1>1, Constants DEF Follows, Ready, CongStates

LEMMA FollowsOn ==
  ASSUME NEW r, NEW s, NEW t, Board(r), Board(s), Board(t),
         Follows(r, s), Follows(s, t)
  PROVE  Follows(r, t)
<1>1. \A u \in {r, s, t} :
        /\ u.head \in 0 .. Total /\ u.highTx \in 0 .. Total
        /\ u.recover \in 0 .. Total /\ u.congState \in CongStates
  BY DEF Board, Senders
<1> QED
  BY <1>1, Constants DEF Follows, CongStates

\* The congestion state may change at will.
LEMMA BoardOfSameBoard ==
  ASSUME NEW s, Board(s), NEW t \in Senders,
         t.head = s.head, t.highTx = s.highTx, t.sacked = s.sacked,
         t.lost = s.lost, t.retrans = s.retrans, t.out = s.out,
         t.recover <= t.highTx, t.ecnEchoSeq <= t.head
  PROVE  Board(t)
BY DEF Board, Sent

\* What sends keeps what it was given.
LEMMA SameIsGood ==
  ASSUME NEW s, NEW t, Good(s), Board(t), Same(s, t)
  PROVE  Good(t) /\ Follows(s, t)
<1>1. Ready(t) /\ (~Ecn => Counted(t))
  BY DEF Good, Same, SameState, Ready, Counted
<1>2. Follows(s, s)
  BY FollowsItself DEF Good
<1> QED
  BY <1>1, <1>2 DEF Good, Follows, Same, SameState

LEMMA EnterRecoveryFacts ==
  ASSUME NEW s, Board(s), s.head < s.highTx
  PROVE  LET t == EnterRecovery(s)
         IN /\ Board(t) /\ t.congState = "recovery"
            /\ t.head = s.head /\ t.sacked = s.sacked
            /\ s.highTx <= t.highTx /\ s.recover <= t.recover
            /\ t.asserted = s.asserted
<1> USE Constants
<1> DEFINE m == IF s.head \in s.lost THEN s ELSE MarkHeadAsLost(s)
           u == [m EXCEPT !.congState = "recovery", !.recover = s.highTx,
                          !.recoverActive = TRUE]
<1>1. /\ Board(m) /\ m.asserted = s.asserted
      /\ m.head = s.head /\ m.highTx = s.highTx /\ m.sacked = s.sacked
  BY MarkHeadAsLostFacts DEF SameState
<1>2. EnterRecovery(s) = DoRetransmit(u)
  BY DEF EnterRecovery
<1> HIDE DEF m
<1>3. s.highTx \in 0 .. Total /\ s.recover \in 0 .. Total
      /\ s.recover <= s.highTx
  BY DEF Board, Senders
<1>4. Board(u)
  <2>1. m \in Senders /\ m.ecnEchoSeq <= m.head
    BY <1>1 DEF Board
  <2>2. /\ u \in Senders /\ u.recover = s.highTx
        /\ u.ecnEchoSeq = m.ecnEchoSeq
        /\ u.head = m.head /\ u.highTx = m.highTx /\ u.sacked = m.sacked
        /\ u.lost = m.lost /\ u.retrans = m.retrans /\ u.out = m.out
    BY <1>3, <2>1 DEF Senders, CongStates
  <2>3. s.highTx <= u.highTx
    BY <1>1, <1>3, <2>2
  <2> QED
    BY <1>1, <2>1, <2>2, <2>3, BoardOfSameBoard
<1>5. /\ u.congState = "recovery" /\ u.recover = s.highTx
      /\ u.head = s.head /\ u.highTx = s.highTx /\ u.sacked = s.sacked
      /\ u.asserted = s.asserted
  BY <1>1 DEF Board, Senders
<1> HIDE DEF u
<1>6. Board(DoRetransmit(u)) /\ Same(u, DoRetransmit(u))
  BY <1>4, <1>5, DoRetransmitFacts
<1> QED
  BY <1>2, <1>3, <1>5, <1>6 DEF Same, SameState

\* A duplicate acknowledgement in "disorder".
LEMMA DisorderedFacts ==
  ASSUME NEW s, Board(s), s.head < s.highTx, s.congState = "disorder",
         Ready(s),
         ~Ecn => /\ s.asserted /\ ~s.recoverActive
                 /\ s.dupAckCount <= ReTxThresh
  PROVE  LET t == Disordered(s)
         IN /\ Good(t) /\ Follows(s, t)
            /\ t.head = s.head /\ t.sacked = s.sacked
<1> USE Constants
<1> DEFINE holds == s.dupAckCount <= ReTxThresh \/ s.recoverActive
           t == Asserting(s, holds)
<1>1. /\ s \in Senders /\ s.head \in 0 .. Total /\ s.highTx \in 0 .. Total
      /\ s.recover \in 0 .. Total /\ s.dupAckCount \in Nat
      /\ s.asserted \in BOOLEAN /\ s.recoverActive \in BOOLEAN
      /\ s.recover <= s.head
  BY DEF Board, Senders, Ready
<1>2. t = [s EXCEPT !.asserted = s.asserted /\ holds]
  BY DEF Asserting
<1>3. (s.asserted /\ holds) \in BOOLEAN /\ (~Ecn => (s.asserted /\ holds))
  OBVIOUS
<1> DEFINE b == s.asserted /\ holds
<1> HIDE DEF t, b
<1>4. /\ t \in Senders /\ t.asserted = b
      /\ t.head = s.head /\ t.highTx = s.highTx /\ t.sacked = s.sacked
      /\ t.congState = "disorder" /\ t.recover = s.recover
      /\ t.recoverActive = s.recoverActive
      /\ t.dupAckCount = s.dupAckCount
  BY <1>1, <1>2, <1>3 DEF Senders, b
<1>5. Board(t)
  BY <1>1, <1>2, <1>4 DEF Board, Senders, Sent
<1>6. CASE Disordered(s) = EnterRecovery(t)
  <2> DEFINE e == EnterRecovery(t)
  <2>1. /\ Board(e) /\ e.congState = "recovery"
        /\ e.head = s.head /\ e.sacked = s.sacked
        /\ s.highTx <= e.highTx /\ s.recover <= e.recover
        /\ e.asserted = b
    BY <1>4, <1>5, EnterRecoveryFacts
  <2> HIDE DEF e
  <2>2. Good(e)
    BY <1>3, <2>1 DEF Good, Ready, Counted, b
  <2>3. Follows(s, e)
    BY <1>1, <2>1 DEF Follows
  <2> QED
    BY <1>6, <2>1, <2>2, <2>3 DEF e
<1>7. CASE Disordered(s) = t /\ ~(s.dupAckCount = ReTxThresh
                                 /\ (s.head >= s.recover \/ ~s.recoverActive))
  <2>1. ~Ecn => s.dupAckCount < ReTxThresh
    BY <1>1, <1>7
  <2>2. Good(t)
    BY <1>1, <1>3, <1>4, <1>5, <2>1 DEF Good, Ready, Counted, b
  <2>3. Follows(s, t)
    BY <1>1, <1>4 DEF Follows
  <2> QED
    BY <1>4, <1>7, <2>2, <2>3
<1> QED
  BY <1>6, <1>7 DEF Disordered, t

\* The types a handler looks at.
LEMMA SenderTypes ==
  ASSUME NEW s, Board(s)
  PROVE  /\ s \in Senders /\ s.head \in 0 .. Total /\ s.highTx \in 0 .. Total
         /\ s.recover \in 0 .. Total /\ s.ecnEchoSeq \in 0 .. Total
         /\ s.head <= s.highTx /\ s.recover <= s.highTx
         /\ s.ecnEchoSeq <= s.head
         /\ s.dupAckCount \in Nat /\ s.congState \in CongStates
         /\ s.asserted \in BOOLEAN /\ s.recoverActive \in BOOLEAN
         /\ s.retx \in BOOLEAN
BY DEF Board, Senders

LEMMA DupAckFacts ==
  ASSUME NEW s, Good(s), s.head < s.highTx
  PROVE  LET t == DupAck(s)
         IN /\ Good(t) /\ Follows(s, t)
            /\ t.head = s.head /\ t.sacked = s.sacked
<1> USE Constants
<1>1. Board(s) /\ Ready(s) /\ (~Ecn => Counted(s))
  BY DEF Good
<1>2. s \in Senders /\ s.dupAckCount \in Nat /\ s.congState \in CongStates
      /\ s.head \in 0 .. Total /\ s.recover \in 0 .. Total
      /\ s.highTx \in 0 .. Total /\ s.asserted \in BOOLEAN
      /\ s.recover <= s.highTx /\ s.ecnEchoSeq <= s.head
  BY <1>1, SenderTypes
<1> DEFINE t == [s EXCEPT !.dupAckCount = @ + 1]
<1>3. /\ t \in Senders /\ t.dupAckCount = s.dupAckCount + 1
      /\ t.head = s.head /\ t.highTx = s.highTx /\ t.sacked = s.sacked
      /\ t.lost = s.lost /\ t.retrans = s.retrans /\ t.out = s.out
      /\ t.congState = s.congState /\ t.recover = s.recover
      /\ t.recoverActive = s.recoverActive /\ t.asserted = s.asserted
      /\ t.ecnEchoSeq = s.ecnEchoSeq
  BY <1>2 DEF Senders
<1> HIDE DEF t
<1>4. Board(t)
  BY <1>1, <1>2, <1>3, BoardOfSameBoard
<1>5. CASE s.congState = "open"
  <2> DEFINE v == [t EXCEPT !.congState = "disorder"]
             u == Asserting(v, v.dupAckCount = 1)
             b == s.asserted /\ v.dupAckCount = 1
  <2>1. DupAck(s) = Disordered(Asserting(v, t.dupAckCount = 1))
    BY <1>5 DEF DupAck, t
  <2>2. /\ v \in Senders /\ v.congState = "disorder"
        /\ v.dupAckCount = t.dupAckCount /\ v.asserted = s.asserted
        /\ v.head = s.head /\ v.highTx = s.highTx /\ v.sacked = s.sacked
        /\ v.lost = s.lost /\ v.retrans = s.retrans /\ v.out = s.out
        /\ v.recover = s.recover /\ v.recoverActive = s.recoverActive
        /\ v.ecnEchoSeq = s.ecnEchoSeq
    BY <1>3 DEF Senders, CongStates
  <2>3. u = [v EXCEPT !.asserted = b] /\ b \in BOOLEAN
    BY <2>2 DEF Asserting
  <2>4. ~Ecn => b /\ v.dupAckCount <= ReTxThresh /\ ~v.recoverActive
    BY <1>1, <1>3, <1>5, <2>2 DEF Counted
  <2>5. DupAck(s) = Disordered(u)
    BY <2>1, <2>2
  <2> HIDE DEF v, u, b
  <2>6. /\ u \in Senders /\ u.congState = "disorder"
        /\ u.dupAckCount = v.dupAckCount /\ u.asserted = b
        /\ u.head = s.head /\ u.highTx = s.highTx /\ u.sacked = s.sacked
        /\ u.lost = s.lost /\ u.retrans = s.retrans /\ u.out = s.out
        /\ u.recover = s.recover /\ u.recoverActive = v.recoverActive
        /\ u.ecnEchoSeq = s.ecnEchoSeq
    BY <2>2, <2>3 DEF Senders
  <2>7. Board(u)
    BY <1>1, <1>2, <2>6, BoardOfSameBoard
  <2>8. Ready(u)
    BY <1>1, <1>5, <2>6 DEF Ready
  <2>9. /\ Good(Disordered(u)) /\ Follows(u, Disordered(u))
        /\ Disordered(u).head = s.head /\ Disordered(u).sacked = s.sacked
    BY <2>4, <2>6, <2>7, <2>8, DisorderedFacts
  <2>10. Follows(s, Disordered(u))
    BY <1>1, <1>5, <2>6, <2>9 DEF Follows, Ready
  <2> QED
    BY <2>5, <2>9, <2>10
<1>6. CASE s.congState = "disorder"
  <2>1. DupAck(s) = Disordered(t)
    BY <1>6 DEF DupAck, t
  <2>2. Ready(t)
    BY <1>1, <1>3 DEF Ready
  <2>3. ~Ecn => /\ t.asserted /\ ~t.recoverActive
                /\ t.dupAckCount <= ReTxThresh
    BY <1>1, <1>2, <1>3, <1>6 DEF Counted
  <2>4. /\ Good(Disordered(t)) /\ Follows(t, Disordered(t))
        /\ Disordered(t).head = s.head /\ Disordered(t).sacked = s.sacked
    BY <1>3, <1>4, <1>6, <2>2, <2>3, DisorderedFacts
  <2>5. Follows(s, Disordered(t))
    BY <1>3, <2>4 DEF Follows
  <2> QED
    BY <2>1, <2>4, <2>5
<1>7. CASE s.congState = "cwr"
  <2>1. DupAck(s) = t
    BY <1>7 DEF DupAck, t
  <2>2. Ready(t) /\ Ecn
    BY <1>1, <1>3, <1>7 DEF Ready, Counted
  <2>3. Follows(s, s)
    BY <1>1, FollowsItself
  <2> QED
    BY <1>3, <1>4, <2>1, <2>2, <2>3 DEF Good, Follows
<1>8. CASE s.congState \notin {"open", "disorder", "cwr"}
  <2>1. DupAck(s) = s
    BY <1>8 DEF DupAck
  <2> QED
    BY <1>1, <2>1, FollowsItself
<1> QED
  BY <1>5, <1>6, <1>7, <1>8

\* The timer is started or stopped, nothing else.
LEMMA NewAckFacts ==
  ASSUME NEW s, Board(s), NEW resetRTO \in BOOLEAN
  PROVE  Board(NewAck(s, resetRTO)) /\ Same(s, NewAck(s, resetRTO))
<1> DEFINE b == (s.retx \/ resetRTO) /\ s.head < Total
           t == NewAck(s, resetRTO)
<1>1. t = [s EXCEPT !.retx = b] /\ b \in BOOLEAN
  BY DEF NewAck
<1>2. s \in Senders /\ s.recover <= s.highTx /\ s.ecnEchoSeq <= s.head
      /\ s.highTx \in 0 .. Total
  BY SenderTypes
<1> HIDE DEF b, t
<1>3. /\ t \in Senders /\ Same(s, t)
      /\ t.highTx = s.highTx /\ t.recover = s.recover
      /\ t.lost = s.lost /\ t.retrans = s.retrans /\ t.out = s.out
      /\ t.ecnEchoSeq = s.ecnEchoSeq
  BY <1>1, <1>2, Constants DEF Senders, Same, SameState
<1>4. Board(t)
  BY <1>2, <1>3, BoardOfSameBoard DEF Same
<1> QED
  BY <1>3, <1>4 DEF t

LEMMA SameOn ==
  ASSUME NEW r, NEW s, NEW t, Board(r), Board(s), Board(t), Same(r, s), Same(s, t)
  PROVE  Same(r, t)
<1>1. r.highTx \in 0 .. Total /\ s.highTx \in 0 .. Total /\ t.highTx \in 0 .. Total
  BY SenderTypes
<1> QED
  BY <1>1, Constants DEF Same, SameState

LEMMA PartialAckFacts ==
  ASSUME NEW s, Board(s), s.head < s.highTx
  PROVE  Board(PartialAck(s)) /\ Same(s, PartialAck(s))
<1> DEFINE t == IF s.head \in s.retrans THEN s ELSE DoRetransmit(s)
           u == NewAck(t, s.firstPartial)
           p == [u EXCEPT !.firstPartial = FALSE]
<1>1. PartialAck(s) = p
  BY DEF PartialAck
<1>2. s.firstPartial \in BOOLEAN
  BY DEF Board, Senders
<1>3. Same(s, s)
  BY SenderTypes, Constants DEF Same, SameState
<1>4. Board(t) /\ Same(s, t)
  BY <1>3, DoRetransmitFacts
<1> HIDE DEF t
<1>5. Board(u) /\ Same(t, u)
  BY <1>2, <1>4, NewAckFacts
<1>6. Same(s, u)
  BY <1>4, <1>5, SameOn
<1> HIDE DEF u
<1>7. u \in Senders /\ u.recover <= u.highTx /\ u.ecnEchoSeq <= u.head
  BY <1>5, SenderTypes
<1>8. /\ p \in Senders /\ p.head = u.head /\ p.sacked = u.sacked
      /\ SameState(u, p)
      /\ p.highTx = u.highTx /\ p.recover = u.recover
      /\ p.lost = u.lost /\ p.retrans = u.retrans /\ p.out = u.out
      /\ p.ecnEchoSeq = u.ecnEchoSeq
  BY <1>7 DEF Senders, SameState
<1>9. Board(p)
  BY <1>5, <1>7, <1>8, BoardOfSameBoard
<1>10. Same(s, p)
  BY <1>6, <1>8 DEF Same, SameState
<1> QED
  BY <1>1, <1>9, <1>10

\* Back to "open": t is s there, once s is beyond its recovery point.
LEMMA OpenFacts ==
  ASSUME NEW s, Board(s), s.recover <= s.head, NEW t \in Senders,
         t.head = s.head, t.highTx = s.highTx, t.sacked = s.sacked,
         t.lost = s.lost, t.retrans = s.retrans, t.out = s.out,
         t.recover = s.recover, t.ecnEchoSeq = s.ecnEchoSeq,
         t.congState = "open",
         ~Ecn => t.asserted /\ ~t.recoverActive /\ t.dupAckCount = 0
  PROVE  LET a == NewAck(t, TRUE)
         IN /\ Good(a) /\ Follows(s, a)
            /\ a.head = s.head /\ a.sacked = s.sacked
<1>1. s.recover <= s.highTx /\ s.ecnEchoSeq <= s.head
      /\ s.head \in 0 .. Total /\ s.highTx \in 0 .. Total
      /\ s.recover \in 0 .. Total
  BY SenderTypes
<1>2. Board(t)
  BY <1>1, BoardOfSameBoard
<1>3. Good(t)
  BY <1>2 DEF Good, Ready, Counted
<1>4. Board(NewAck(t, TRUE)) /\ Same(t, NewAck(t, TRUE))
  BY <1>2, NewAckFacts
<1>5. Good(NewAck(t, TRUE)) /\ Follows(t, NewAck(t, TRUE))
  BY <1>3, <1>4, SameIsGood
<1> QED
  BY <1>1, <1>4, <1>5, Constants DEF Follows, Same

LEMMA AckOfNewDataFacts ==
  ASSUME NEW s, Good(s), NEW isDupack \in BOOLEAN,
         ~isDupack => s.dupAckCount = 0
  PROVE  LET t == AckOfNewData(s, isDupack)
         IN /\ Good(t) /\ Follows(s, t)
            /\ t.head = s.head /\ t.sacked = s.sacked
<1> USE Constants
<1> DEFINE beyond == s.recoverActive /\ s.head < s.recover
           ended == [s EXCEPT !.recoverActive = beyond]
           open == [ended EXCEPT !.congState = "open"]
           t == AckOfNewData(s, isDupack)
<1>1. Board(s) /\ Ready(s) /\ (~Ecn => Counted(s))
  BY DEF Good
<1>2. /\ s \in Senders /\ s.head \in 0 .. Total /\ s.highTx \in 0 .. Total
      /\ s.recover \in 0 .. Total /\ s.congState \in CongStates
      /\ s.recover <= s.highTx /\ s.ecnEchoSeq <= s.head
      /\ s.asserted \in BOOLEAN /\ s.recoverActive \in BOOLEAN
      /\ s.dupAckCount \in Nat
  BY <1>1, SenderTypes
<1>3. beyond \in BOOLEAN /\ (s.recover <= s.head => ~beyond)
      /\ (~s.recoverActive => ~beyond)
  BY <1>2
<1>4. t = CASE s.congState = "recovery" /\ s.head < s.recover -> PartialAck(s)
            [] s.congState = "loss" /\ s.head < s.recover -> NewAck(s, TRUE)
            [] s.congState = "cwr" -> NewAck(s, TRUE)
            [] s.congState = "disorder" /\ isDupack -> ended
            [] s.congState = "recovery" /\ s.head >= s.recover ->
                 NewAck([open EXCEPT !.firstPartial = TRUE, !.dupAckCount = 0],
                        TRUE)
            [] s.congState = "loss" /\ s.head >= s.recover ->
                 NewAck([open EXCEPT !.firstPartial = TRUE], TRUE)
            [] OTHER -> NewAck(open, TRUE)
  BY DEF AckOfNewData
<1> HIDE DEF beyond, t
<1>5. /\ ended \in Senders /\ ended.recoverActive = beyond
      /\ ended.head = s.head /\ ended.highTx = s.highTx
      /\ ended.sacked = s.sacked /\ ended.lost = s.lost
      /\ ended.retrans = s.retrans /\ ended.out = s.out
      /\ ended.congState = s.congState /\ ended.recover = s.recover
      /\ ended.ecnEchoSeq = s.ecnEchoSeq /\ ended.asserted = s.asserted
      /\ ended.dupAckCount = s.dupAckCount
  BY <1>2, <1>3 DEF Senders
<1> HIDE DEF ended
<1>6. /\ open \in Senders /\ open.recoverActive = beyond
      /\ open.head = s.head /\ open.highTx = s.highTx
      /\ open.sacked = s.sacked /\ open.lost = s.lost
      /\ open.retrans = s.retrans /\ open.out = s.out
      /\ open.congState = "open" /\ open.recover = s.recover
      /\ open.ecnEchoSeq = s.ecnEchoSeq /\ open.asserted = s.asserted
      /\ open.dupAckCount = s.dupAckCount
  BY <1>5 DEF Senders, CongStates
<1> HIDE DEF open
<1>7. CASE s.congState = "recovery" /\ s.head < s.recover
  <2>1. t = PartialAck(s)
    <3>1. ~(s.head >= s.recover)
      BY <1>2, <1>7
    <3> QED
      BY <1>4, <1>7, <3>1, Zenon
  <2>2. s.head < s.highTx
    BY <1>2, <1>7
  <2>3. Board(t) /\ Same(s, t)
    BY <1>1, <2>1, <2>2, PartialAckFacts
  <2> QED
    BY <2>3, SameIsGood DEF Same, t
<1>8. CASE (s.congState = "loss" /\ s.head < s.recover) \/ s.congState = "cwr"
  <2>1. t = NewAck(s, TRUE)
    <3>1. CASE s.congState = "cwr"
      BY <1>4, <3>1, Zenon
    <3>2. CASE s.congState = "loss" /\ s.head < s.recover
      <4>1. ~(s.head >= s.recover)
        BY <1>2, <3>2
      <4> QED
        BY <1>4, <3>2, <4>1, Zenon
    <3> QED
      BY <1>8, <3>1, <3>2
  <2>2. Board(t) /\ Same(s, t)
    BY <1>1, <2>1, NewAckFacts
  <2> QED
    BY <2>2, SameIsGood DEF Same, t
<1>9. CASE s.congState = "disorder" /\ isDupack
  <2>1. t = ended
    BY <1>4, <1>9
  <2>2. Board(ended)
    BY <1>1, <1>2, <1>5, BoardOfSameBoard
  <2>3. Ready(ended) /\ (~Ecn => Counted(ended))
    BY <1>1, <1>3, <1>5, <1>9 DEF Ready, Counted
  <2>4. Follows(s, ended)
    BY <1>1, <1>2, <1>5, <1>9 DEF Follows, Ready
  <2> QED
    BY <1>5, <2>1, <2>2, <2>3, <2>4 DEF Good, t
<1>10. CASE s.congState = "recovery" /\ s.head >= s.recover
  <2> DEFINE o == [open EXCEPT !.firstPartial = TRUE, !.dupAckCount = 0]
  <2>1. t = NewAck(o, TRUE)
    BY <1>2, <1>4, <1>10
  <2>2. /\ o \in Senders /\ o.recoverActive = beyond
        /\ o.head = s.head /\ o.highTx = s.highTx
        /\ o.sacked = s.sacked /\ o.lost = s.lost
        /\ o.retrans = s.retrans /\ o.out = s.out
        /\ o.congState = "open" /\ o.recover = s.recover
        /\ o.ecnEchoSeq = s.ecnEchoSeq /\ o.asserted = s.asserted
        /\ o.dupAckCount = 0
    BY <1>6 DEF Senders
  <2> HIDE DEF o
  <2>3. ~Ecn => o.asserted /\ ~o.recoverActive /\ o.dupAckCount = 0
    BY <1>1, <1>2, <1>3, <1>10, <2>2 DEF Counted
  <2> QED
    BY <1>1, <1>2, <1>10, <2>1, <2>2, <2>3, OpenFacts DEF t
<1>11. CASE s.congState = "loss" /\ s.head >= s.recover
  <2> DEFINE o == [open EXCEPT !.firstPartial = TRUE]
  <2>1. t = NewAck(o, TRUE)
    BY <1>2, <1>4, <1>11
  <2>2. /\ o \in Senders /\ o.recoverActive = beyond
        /\ o.head = s.head /\ o.highTx = s.highTx
        /\ o.sacked = s.sacked /\ o.lost = s.lost
        /\ o.retrans = s.retrans /\ o.out = s.out
        /\ o.congState = "open" /\ o.recover = s.recover
        /\ o.ecnEchoSeq = s.ecnEchoSeq /\ o.asserted = s.asserted
        /\ o.dupAckCount = s.dupAckCount
    BY <1>6 DEF Senders
  <2> HIDE DEF o
  <2>3. ~Ecn => o.asserted /\ ~o.recoverActive /\ o.dupAckCount = 0
    BY <1>1, <1>2, <1>3, <1>11, <2>2 DEF Counted
  <2> QED
    BY <1>1, <1>2, <1>11, <2>1, <2>2, <2>3, OpenFacts DEF t
<1>12. CASE s.congState = "open" \/ (s.congState = "disorder" /\ ~isDupack)
  <2>1. t = NewAck(open, TRUE)
    BY <1>4, <1>12
  <2>2. s.recover <= s.head
    BY <1>1, <1>12 DEF Ready
  <2>3. ~Ecn => open.asserted /\ ~open.recoverActive /\ open.dupAckCount = 0
    BY <1>1, <1>3, <1>6, <1>12, <2>2 DEF Counted
  <2> QED
    BY <1>1, <1>6, <2>1, <2>2, <2>3, OpenFacts DEF t
<1>13. \/ s.congState \in {"recovery", "loss"} /\ s.head < s.recover
       \/ s.congState \in {"recovery", "loss"} /\ s.head >= s.recover
       \/ s.congState \in {"open", "disorder", "cwr"}
  BY <1>2 DEF CongStates
<1>14. CASE s.congState \in {"open", "disorder", "cwr"}
  <2>1. \/ s.congState = "open" \/ (s.congState = "disorder" /\ ~isDupack)
        \/ s.congState = "disorder" /\ isDupack
        \/ s.congState = "cwr"
    BY <1>14
  <2> QED
    BY <1>8, <1>9, <1>12, <2>1, Zenon
<1>15. CASE s.congState \in {"recovery", "loss"}
  BY <1>7, <1>8, <1>10, <1>11, <1>13, <1>15
<1> QED
  BY <1>2, <1>14, <1>15 DEF CongStates

\* ProcessAck: a duplicate reports something outstanding.
LEMMA ProcessAckFacts ==
  ASSUME NEW s, Good(s), NEW isDupack \in BOOLEAN, NEW isNew \in BOOLEAN,
         isDupack => s.head < s.highTx
  PROVE  LET t == ProcessAck(s, isDupack, isNew)
         IN /\ Good(t) /\ Follows(s, t)
            /\ t.head = s.head /\ t.sacked = s.sacked
<1> USE Constants
<1> DEFINE d == IF isDupack THEN DupAck(s) ELSE s
           u == IF isDupack THEN d ELSE [d EXCEPT !.dupAckCount = 0]
           t == ProcessAck(s, isDupack, isNew)
<1>1. t = IF ~isNew THEN d ELSE AckOfNewData(u, isDupack)
  BY DEF ProcessAck
<1>2. Board(s) /\ Ready(s)
  BY DEF Good
<1>3. Good(d) /\ Follows(s, d) /\ d.head = s.head /\ d.sacked = s.sacked
  BY <1>2, DupAckFacts, FollowsItself
<1> HIDE DEF d, t
<1>4. Board(d) /\ Ready(d) /\ (~Ecn => Counted(d))
  BY <1>3 DEF Good
<1>5. Good(u) /\ Follows(s, u) /\ u.head = s.head /\ u.sacked = s.sacked
  <2>1. CASE isDupack
    BY <1>3, <2>1
  <2>2. CASE ~isDupack
    <3> DEFINE z == [d EXCEPT !.dupAckCount = 0]
    <3>1. d \in Senders /\ d.recover <= d.highTx /\ d.ecnEchoSeq <= d.head
      BY <1>4, SenderTypes
    <3>2. /\ z \in Senders /\ z.dupAckCount = 0
          /\ z.head = d.head /\ z.highTx = d.highTx /\ z.sacked = d.sacked
          /\ z.lost = d.lost /\ z.retrans = d.retrans /\ z.out = d.out
          /\ z.congState = d.congState /\ z.recover = d.recover
          /\ z.recoverActive = d.recoverActive /\ z.asserted = d.asserted
          /\ z.ecnEchoSeq = d.ecnEchoSeq
      BY <3>1 DEF Senders
    <3> HIDE DEF z
    <3>3. Board(z)
      BY <1>4, <3>1, <3>2, BoardOfSameBoard
    <3>4. Ready(z) /\ (~Ecn => Counted(z))
      BY <1>4, <3>2 DEF Ready, Counted
    <3>5. Follows(s, z)
      BY <1>3, <3>2 DEF Follows
    <3> QED
      BY <1>3, <2>2, <3>2, <3>3, <3>4, <3>5 DEF Good, z
  <2> QED
    BY <2>1, <2>2
<1>6. ~isDupack => u.dupAckCount = 0
  BY <1>4, SenderTypes DEF Senders
<1> HIDE DEF u
<1>7. CASE ~isNew
  BY <1>1, <1>3, <1>7 DEF t
<1>8. CASE isNew
  <2> DEFINE a == AckOfNewData(u, isDupack)
  <2>1. Good(a) /\ Follows(u, a) /\ a.head = u.head /\ a.sacked = u.sacked
    BY <1>5, <1>6, AckOfNewDataFacts
  <2> HIDE DEF a
  <2>2. Follows(s, a)
    BY <1>2, <1>5, <2>1, FollowsOn DEF Good
  <2> QED
    BY <1>1, <1>5, <1>8, <2>1, <2>2 DEF t, a
<1> QED
  BY <1>7, <1>8

\* The congestion window's own state: left when its window is acknowledged,
LEMMA LeaveCwrFacts ==
  ASSUME NEW s, Good(s)
  PROVE  LET t == LeaveCwr(s)
         IN /\ Good(t) /\ Follows(s, t)
            /\ t.head = s.head /\ t.highTx = s.highTx /\ t.sacked = s.sacked
<1> USE Constants
<1>1. Board(s) /\ Ready(s) /\ (~Ecn => Counted(s))
  BY DEF Good
<1>2. /\ s \in Senders /\ s.head \in 0 .. Total /\ s.highTx \in 0 .. Total
      /\ s.recover \in 0 .. Total /\ s.recover <= s.highTx
      /\ s.ecnEchoSeq <= s.head
  BY <1>1, SenderTypes
<1>3. CASE s.congState = "cwr" /\ s.head > s.recover
  <2> DEFINE t == [s EXCEPT !.congState = "open"]
  <2>1. LeaveCwr(s) = t
    BY <1>3 DEF LeaveCwr
  <2>2. /\ t \in Senders /\ t.congState = "open"
        /\ t.head = s.head /\ t.highTx = s.highTx /\ t.sacked = s.sacked
        /\ t.lost = s.lost /\ t.retrans = s.retrans /\ t.out = s.out
        /\ t.recover = s.recover /\ t.ecnEchoSeq = s.ecnEchoSeq
    BY <1>2 DEF Senders, CongStates
  <2> HIDE DEF t
  <2>3. Board(t)
    BY <1>1, <1>2, <2>2, BoardOfSameBoard
  <2>4. Ready(t) /\ Ecn
    BY <1>1, <1>2, <1>3, <2>2 DEF Ready, Counted
  <2>5. Follows(s, t)
    BY <1>2, <1>3, <2>2 DEF Follows
  <2> QED
    BY <2>1, <2>2, <2>3, <2>4, <2>5 DEF Good
<1>4. CASE ~(s.congState = "cwr" /\ s.head > s.recover)
  BY <1>1, <1>4, FollowsItself DEF LeaveCwr
<1> QED
  BY <1>3, <1>4

\* and entered on an echo.
LEMMA ReadEchoFacts ==
  ASSUME NEW s, Good(s), Ecn
  PROVE  LET t == ReadEcho(s)
         IN /\ Good(t) /\ Follows(s, t)
            /\ t.head = s.head /\ t.highTx = s.highTx /\ t.sacked = s.sacked
<1> USE Constants
<1> DEFINE t == [s EXCEPT !.ecnEchoSeq = s.head]
           c == [t EXCEPT !.congState = "cwr", !.recover = s.highTx]
<1>1. Board(s) /\ Ready(s)
  BY DEF Good
<1>2. /\ s \in Senders /\ s.head \in 0 .. Total /\ s.highTx \in 0 .. Total
      /\ s.recover \in 0 .. Total /\ s.recover <= s.highTx
      /\ s.ecnEchoSeq <= s.head
  BY <1>1, SenderTypes
<1>3. /\ t \in Senders /\ t.congState = s.congState
      /\ t.head = s.head /\ t.highTx = s.highTx /\ t.sacked = s.sacked
      /\ t.lost = s.lost /\ t.retrans = s.retrans /\ t.out = s.out
      /\ t.recover = s.recover /\ t.ecnEchoSeq = s.head
  BY <1>2 DEF Senders
<1>4. ReadEcho(s) = IF s.ecnEchoSeq >= s.head THEN s
                    ELSE IF s.congState = "cwr" THEN t ELSE c
  BY DEF ReadEcho
<1> HIDE DEF t
<1>5. /\ c \in Senders /\ c.congState = "cwr"
      /\ c.head = s.head /\ c.highTx = s.highTx /\ c.sacked = s.sacked
      /\ c.lost = s.lost /\ c.retrans = s.retrans /\ c.out = s.out
      /\ c.recover = s.highTx /\ c.ecnEchoSeq = s.head
  BY <1>2, <1>3 DEF Senders, CongStates
<1> HIDE DEF c
<1>6. Board(t) /\ Board(c)
  BY <1>1, <1>2, <1>3, <1>5, BoardOfSameBoard
<1>7. s.congState = "cwr" => Good(t) /\ Follows(s, t)
  BY <1>2, <1>3, <1>6 DEF Good, Ready, Follows
<1>8. Good(c) /\ Follows(s, c)
  BY <1>2, <1>5, <1>6 DEF Good, Ready, Follows
<1> QED
  BY <1>1, <1>3, <1>4, <1>5, <1>7, <1>8, FollowsItself

\* An acknowledgement, taken as a whole.
LEMMA ReceivedAckFacts ==
  ASSUME NEW s, Good(s), NEW m, m.ack \in s.head .. s.highTx,
         m.ack \notin s.sacked, m.sack \in SUBSET Seqs,
         \A n \in m.sack : m.ack < n,
         NEW ece \in {FALSE, Ecn}, NEW cWnd \in Int
  PROVE  LET r == ReceivedAck(s, m, ece, cWnd)
         IN /\ Good(r) /\ Follows(s, r)
            /\ r.head = m.ack /\ r.sacked \subseteq s.sacked \cup m.sack
<1> USE Constants
<1> DEFINE a == Update(s, m.sack)
           isDupack == a.sacked # s.sacked
           isNew == m.ack > s.head
           d == DiscardUpTo(a, m.ack)
           t == LeaveCwr(d)
           u == IF isNew /\ ece THEN ReadEcho(t) ELSE t
           p == ProcessAck(u, isDupack, isNew)
           r == SendPendingData(p, cWnd)
<1>1. /\ Board(s) /\ Ready(s) /\ (~Ecn => Counted(s))
      /\ s.head \in 0 .. Total /\ s.highTx \in 0 .. Total
      /\ s.congState \in CongStates /\ s.recover \in 0 .. Total
  BY SenderTypes DEF Good
<1>2. r = ReceivedAck(s, m, ece, cWnd)
  BY DEF ReceivedAck
<1>3. /\ Board(a) /\ SameState(s, a)
      /\ a.head = s.head /\ a.highTx = s.highTx
      /\ a.sacked = s.sacked \cup (m.sack \cap Sent(s))
  <2>1. \A n \in m.sack : s.head < n
    BY <1>1 DEF Seqs
  <2> QED
    BY <1>1, <2>1, UpdateFacts
<1>4. isDupack => m.ack < s.highTx
  <2> SUFFICES ASSUME isDupack PROVE m.ack < s.highTx
    OBVIOUS
  <2>1. PICK n \in m.sack : n \in s.head .. s.highTx - 1
    BY <1>3 DEF Sent
  <2> QED
    BY <1>1, <2>1
<1> HIDE DEF a
<1>5. /\ Board(d) /\ SameState(a, d)
      /\ d.head = m.ack /\ d.highTx = s.highTx
      /\ d.sacked \subseteq s.sacked \cup m.sack
  <2>1. m.ack \notin a.sacked
    BY <1>1, <1>3
  <2>2. m.ack \in a.head .. a.highTx
    BY <1>3
  <2> QED
    BY <1>3, <2>1, <2>2, DiscardUpToFacts
<1> HIDE DEF d, isDupack
<1>6. Good(d) /\ Follows(s, d)
  <2>1. Ready(d) /\ (~Ecn => Counted(d))
    BY <1>1, <1>3, <1>5 DEF SameState, Ready, Counted
  <2>2. Follows(s, d)
    BY <1>1, <1>3, <1>5 DEF SameState, Ready, Follows, CongStates
  <2> QED
    BY <1>5, <2>1, <2>2 DEF Good
<1>7. /\ Good(t) /\ Follows(d, t)
      /\ t.head = d.head /\ t.highTx = d.highTx /\ t.sacked = d.sacked
  BY <1>6, LeaveCwrFacts
<1> HIDE DEF t
<1>8. /\ Good(u) /\ Follows(t, u)
      /\ u.head = d.head /\ u.highTx = d.highTx /\ u.sacked = d.sacked
  <2>1. CASE ece /\ isNew
    BY <1>7, <2>1, ReadEchoFacts
  <2>2. CASE ~(ece /\ isNew)
    BY <1>7, <2>2, FollowsItself DEF Good
  <2> QED
    BY <2>1, <2>2
<1> HIDE DEF u
<1>9. /\ Good(p) /\ Follows(u, p)
      /\ p.head = m.ack /\ p.sacked = d.sacked
  <2>1. isDupack \in BOOLEAN /\ isNew \in BOOLEAN
    BY DEF isDupack
  <2>2. isDupack => u.head < u.highTx
    BY <1>4, <1>5, <1>8 DEF isDupack
  <2> HIDE DEF isNew
  <2> QED
    BY <1>5, <1>8, <2>1, <2>2, ProcessAckFacts
<1> HIDE DEF p
<1>10. /\ Good(r) /\ Follows(p, r)
       /\ r.head = m.ack /\ r.sacked = d.sacked
  <2>1. Board(r) /\ Same(p, r)
    BY <1>9, SendPendingDataFacts DEF Good
  <2> QED
    BY <1>9, <2>1, SameIsGood DEF Same
<1> HIDE DEF r
<1>11. Follows(s, t)
  BY <1>1, <1>6, <1>7, FollowsOn DEF Good
<1>12. Follows(s, u)
  BY <1>1, <1>7, <1>8, <1>11, FollowsOn DEF Good
<1>13. Follows(s, p)
  BY <1>1, <1>8, <1>9, <1>12, FollowsOn DEF Good
<1>14. Follows(s, r)
  BY <1>1, <1>9, <1>10, <1>13, FollowsOn DEF Good
<1> QED
  BY <1>2, <1>5, <1>10, <1>14

-----------------------------------------------------------------------------
(* The receiver.                                                           *)

\* Below every natural number there are only so many: a nonempty set of them
\* has a least.
LEMMA LeastExists ==
  ASSUME NEW S \in SUBSET Nat, S # {}
  PROVE  \E n \in S : \A k \in S : n <= k
<1> DEFINE R == {p \in Nat \X Nat : p[1] < p[2]}
<1>1. IsWellFoundedOn(R, Nat)
  BY NatLessThanWellFounded DEF OpToRel
<1>2. \A j, k \in Nat : <<j, k>> \in R <=> j < k
  OBVIOUS
<1> HIDE DEF R
<1>3. PICK n \in S : \A k \in S : ~(<<k, n>> \in R)
  BY <1>1, WFMin, Zenon
<1>4. \A k \in S : ~(k < n)
  BY <1>2, <1>3
<1>5. \A k \in S : k \in Nat /\ n \in Nat
  OBVIOUS
<1>6. \A k \in S : n <= k
  BY <1>4, <1>5
<1> QED
  BY <1>6

Receivers == [nextRx : 0 .. Total, stored : SUBSET Seqs, delAck : BOOLEAN]

\* The receive buffer moves up to the next hole and keeps what is beyond.
LEMMA AddRxFacts ==
  ASSUME NEW r \in Receivers, \A n \in r.stored : r.nextRx < n,
         NEW seq \in Seqs
  PROVE  LET x == AddRx(r, seq)
         IN /\ x \in Receivers /\ x.delAck = r.delAck
            /\ r.nextRx <= x.nextRx
            /\ \A n \in x.stored : x.nextRx < n
            /\ x.nextRx # r.nextRx => x.nextRx - 1 \in r.stored \cup {seq}
            /\ x.stored \subseteq r.stored \cup {seq}
            /\ \A n \in Seqs :
                 n < x.nextRx \/ n \in x.stored
                   <=> n < r.nextRx \/ n \in r.stored \cup {seq}
<1> USE Constants
<1> DEFINE x == AddRx(r, seq)
           got == r.stored \cup {n \in {seq} : n >= r.nextRx}
           IsNext(n) == n \notin got /\ r.nextRx .. n - 1 \subseteq got
           next == CHOOSE n \in r.nextRx .. Total : IsNext(n)
<1>1. /\ r.nextRx \in 0 .. Total /\ r.stored \subseteq Seqs
      /\ seq \in 0 .. Total - 1
  BY DEF Receivers, Seqs
<1>2. x = [r EXCEPT !.nextRx = next, !.stored = {n \in got : n > next}]
  BY DEF AddRx
<1>3. got \subseteq r.nextRx .. Total - 1
  BY <1>1 DEF Seqs
<1>4. \E n \in r.nextRx .. Total : IsNext(n)
  <2> DEFINE holes == {n \in r.nextRx .. Total : n \notin got}
  <2>1. holes \in SUBSET Nat /\ Total \in holes
    BY <1>1, <1>3
  <2>2. PICK n \in holes : \A k \in holes : n <= k
    BY <2>1, LeastExists
  <2>3. n \in r.nextRx .. Total /\ n \notin got
    BY <2>2
  <2> HIDE DEF got
  <2>4. ASSUME NEW k \in r.nextRx .. n - 1 PROVE k \in got
    <3>1. k \in r.nextRx .. Total /\ k < n
      BY <1>1, <2>3
    <3> QED
      BY <1>1, <2>2, <2>3, <3>1
  <2> QED
    BY <2>3, <2>4
<1> HIDE DEF IsNext
<1>5. next \in r.nextRx .. Total /\ IsNext(next)
  BY <1>4
<1> HIDE DEF next, x
<1>6. next \notin got /\ r.nextRx .. next - 1 \subseteq got
  BY <1>5 DEF IsNext
<1>7. /\ x \in Receivers /\ x.nextRx = next
      /\ x.stored = {n \in got : n > next} /\ x.delAck = r.delAck
  <2>1. next \in 0 .. Total
    BY <1>1, <1>5
  <2>2. {n \in got : n > next} \in SUBSET Seqs
    BY <1>1, <1>3 DEF Seqs
  <2> QED
    BY <1>2, <2>1, <2>2 DEF Receivers
<1>8. next # r.nextRx => next - 1 \in r.stored \cup {seq}
  <2> SUFFICES ASSUME next # r.nextRx PROVE next - 1 \in got
    OBVIOUS
  <2>1. next - 1 \in r.nextRx .. next - 1
    BY <1>1, <1>5
  <2> QED
    BY <1>6, <2>1
<1>9. ASSUME NEW n \in Seqs
      PROVE  n < next \/ n \in x.stored
               <=> n < r.nextRx \/ n \in r.stored \cup {seq}
  <2>1. n \in got <=> n \in r.stored \/ (n = seq /\ n >= r.nextRx)
    OBVIOUS
  <2> HIDE DEF got
  <2>2. n \in 0 .. Total - 1
    BY DEF Seqs
  <2>3. CASE n < r.nextRx
    BY <1>1, <1>5, <2>2, <2>3
  <2>4. CASE n >= r.nextRx /\ n < next
    <3>1. n \in r.nextRx .. next - 1
      BY <1>1, <1>5, <2>2, <2>4
    <3> QED
      BY <1>6, <2>1, <2>4, <3>1
  <2>5. CASE n >= next
    <3>1. ~(n < next) /\ ~(n < r.nextRx) /\ n >= r.nextRx
      BY <1>1, <1>5, <2>2, <2>5
    <3>2. n \in got => n > next
      BY <1>1, <1>5, <1>6, <2>2, <2>5
    <3> QED
      BY <1>7, <2>1, <3>1, <3>2
  <2> QED
    BY <1>1, <1>5, <2>2, <2>3, <2>4, <2>5
<1>10. \A n \in x.stored : x.nextRx < n
  BY <1>1, <1>3, <1>5, <1>7
<1> HIDE DEF got
<1>11. x.stored \subseteq r.stored \cup {seq}
  BY <1>7 DEF got
<1> QED
  BY <1>1, <1>5, <1>7, <1>8, <1>9, <1>10, <1>11 DEF x

-----------------------------------------------------------------------------
(* The steps.                                                              *)

\* Segments are one kind or the other.
LEMMA SegmentKinds ==
  ASSUME NEW m \in Segments
  PROVE  /\ m.kind = "data" => m.seq \in Seqs
         /\ m.kind = "ack" => m.ack \in 0 .. Total /\ m.sack \in SUBSET Seqs
         /\ m.kind \in {"data", "ack"}
BY DEF Segments

LEMMA InitEstablishes == Init => IInv
<1> USE Constants
<1> SUFFICES ASSUME Init PROVE IInv
  OBVIOUS
<1>1. snd \in Senders /\ Board(snd)
  BY DEF Init, Senders, Board, Sent, CongStates
<1>2. Ready(snd) /\ Counted(snd)
  BY DEF Init, Ready, Counted
<1>3. ReceiverOK
  BY DEF Init, ReceiverOK
<1>4. NetOK
  BY DEF Init, NetOK, Acks, Reported
<1> QED
  BY <1>1, <1>2, <1>3, <1>4 DEF Init, IInv

\* What a step does: the sender moves on, or else the receiver.
Onward ==
  /\ Follows(snd, snd')
  /\ UNCHANGED rcv \/ (UNCHANGED snd /\ rcv.nextRx <= rcv'.nextRx)

\* A handler of the sender takes the segments received and leaves s behind.
LEMMA SenderStepsKeep ==
  ASSUME IInv, NEW s, Good(s), Follows(snd, s), s.head <= rcv.nextRx, Reported(s.sacked),
         NEW received \in SUBSET net, SenderSteps(s, received),
         early' \in 0 .. MaxEarly
  PROVE  IInv' /\ Onward
<1> USE Constants
<1>1. /\ snd' = [s EXCEPT !.out = {}] /\ net' = (net \ received) \cup s.out
      /\ rcv' = rcv /\ losses' = losses
  BY DEF SenderSteps
<1>2. Board(s) /\ Ready(s) /\ (~Ecn => Counted(s))
  BY DEF Good
<1>3. /\ s \in Senders /\ s.head \in 0 .. Total /\ s.highTx \in 0 .. Total
      /\ s.recover \in 0 .. Total /\ s.recover <= s.highTx
      /\ s.ecnEchoSeq <= s.head
  BY <1>2, SenderTypes
<1>4. /\ snd' \in Senders /\ snd'.out = {}
      /\ snd'.head = s.head /\ snd'.highTx = s.highTx
      /\ snd'.sacked = s.sacked /\ snd'.lost = s.lost
      /\ snd'.retrans = s.retrans /\ snd'.recover = s.recover
      /\ snd'.ecnEchoSeq = s.ecnEchoSeq /\ snd'.congState = s.congState
      /\ snd'.recoverActive = s.recoverActive
      /\ snd'.dupAckCount = s.dupAckCount /\ snd'.asserted = s.asserted
  BY <1>1, <1>3 DEF Senders
<1>5. Board(snd') /\ Ready(snd') /\ (~Ecn => Counted(snd'))
  BY <1>2, <1>4 DEF Board, Ready, Counted, Sent
<1>6. /\ rcv.nextRx \in 0 .. Total /\ snd.highTx \in 0 .. Total
      /\ rcv.stored \subseteq Seqs /\ Board(snd)
  BY SenderTypes DEF IInv, ReceiverOK
<1>7. ReceiverOK'
  <2>1. \A n \in rcv.stored : rcv.nextRx < n /\ n < snd.highTx
    BY DEF IInv, ReceiverOK
  <2>2. \A n \in rcv.stored : rcv.nextRx < n /\ n < s.highTx
    BY <1>3, <1>6, <2>1 DEF Seqs, Follows
  <2>3. rcv.nextRx <= s.highTx
    BY <1>3, <1>6 DEF IInv, ReceiverOK, Follows
  <2> QED
    BY <1>1, <1>4, <2>2, <2>3 DEF IInv, ReceiverOK
<1>8. NetOK'
  <2>1. \A m \in s.out : m \in Segments /\ m.kind = "data" /\ m.seq < s.highTx
    BY <1>2, <1>3 DEF Board, Senders
  <2>2. Acks' \subseteq Acks /\ Arrived' = Arrived
    BY <1>1, <2>1 DEF Acks, Arrived
  <2>3. net' \subseteq Segments
    BY <1>1, <2>1 DEF IInv, NetOK
  <2>4. ASSUME NEW m \in net', m.kind = "data"
        PROVE  m.seq < snd'.highTx
    <3>1. CASE m \in s.out
      BY <1>4, <2>1, <3>1
    <3>2. CASE m \in net
      <4>1. m.seq < snd.highTx /\ m.seq \in Seqs
        BY <2>4, <3>2, SegmentKinds DEF IInv, NetOK
      <4> QED
        BY <1>3, <1>4, <1>6, <4>1 DEF Seqs, Follows
    <3> QED
      BY <1>1, <3>1, <3>2
  <2>5. \A sack : Reported(sack) => Reported(sack)'
    BY <2>2 DEF Reported
  <2> QED
    BY <1>1, <1>4, <2>2, <2>3, <2>4, <2>5 DEF IInv, NetOK
<1>9. Follows(snd, snd')
  BY <1>4 DEF Follows
<1> QED
  BY <1>1, <1>4, <1>5, <1>7, <1>8, <1>9 DEF IInv, Onward

\* The receiver or the network moves: what has arrived stays so, what was sent
\* is consumed or lost, and an acknowledgement tells the receiver's new state.
LEMMA OthersKeep ==
  ASSUME IInv, snd' = snd, rcv' \in Receivers,
         rcv.nextRx <= rcv'.nextRx, rcv'.nextRx <= snd.highTx,
         \A n \in rcv'.stored : rcv'.nextRx < n /\ n < snd.highTx,
         Arrived \subseteq Arrived', net' \subseteq net \cup Ack(rcv'),
         losses' \in 0 .. MaxLosses, early' = early
  PROVE  IInv' /\ Onward
<1> USE Constants
<1>1. /\ Board(snd) /\ Ready(snd) /\ (~Ecn => Counted(snd)) /\ snd.out = {}
      /\ ReceiverOK /\ NetOK /\ early \in 0 .. MaxEarly
  BY DEF IInv
<1>2. /\ rcv.nextRx \in 0 .. Total /\ rcv'.nextRx \in 0 .. Total
      /\ rcv'.stored \subseteq Seqs /\ snd.head \in 0 .. Total
      /\ snd.head <= rcv.nextRx
  BY <1>1, SenderTypes DEF ReceiverOK, Receivers
<1>3. ReceiverOK'
  BY <1>2 DEF ReceiverOK, Receivers
<1> DEFINE a == [kind |-> "ack", ack |-> rcv'.nextRx, sack |-> rcv'.stored]
<1>4. net' \subseteq net \cup {a}
  BY DEF Ack
<1>5. a \in Segments /\ a.ack = rcv'.nextRx /\ a.sack = rcv'.stored
      /\ a.kind # "data"
  BY <1>2 DEF Segments
<1> HIDE DEF a
<1>6. Acks' \subseteq Acks \cup {a}
  BY <1>4, <1>5 DEF Acks
<1>7. \A m \in Acks : /\ m.ack \in 0 .. Total /\ m.ack <= rcv.nextRx
                      /\ m.sack \in SUBSET Seqs
  BY <1>1, SegmentKinds DEF NetOK, Acks
<1>8. Arrived' = {n \in Seqs : n < rcv'.nextRx} \cup rcv'.stored
  BY DEF Arrived
<1>9. a.ack \notin Arrived'
  BY <1>2, <1>5, <1>8 DEF Seqs
<1>10. ASSUME NEW sack, Reported(sack) PROVE Reported(sack)'
  <2>1. sack \subseteq Arrived' /\ \A m \in Acks : m.ack \notin sack
    BY <1>10 DEF Reported
  <2> QED
    BY <1>6, <1>9, <2>1 DEF Reported
<1>11. Reported(rcv.stored)'
  <2>1. rcv'.stored \subseteq Arrived'
    BY <1>8
  <2>2. ASSUME NEW m \in Acks' PROVE m.ack \notin rcv'.stored
    <3>1. m.ack \in 0 .. Total /\ m.ack <= rcv'.nextRx
      BY <1>2, <1>5, <1>6, <1>7
    <3> QED
      BY <1>2, <1>5, <3>1 DEF Seqs
  <2> QED
    BY <2>1, <2>2 DEF Reported
<1>12. NetOK'
  <2>1. net' \subseteq Segments
    BY <1>1, <1>4, <1>5 DEF NetOK
  <2>2. \A m \in net' : m.kind = "data" => m.seq < snd'.highTx
    BY <1>1, <1>4, <1>5 DEF NetOK
  <2>3. ASSUME NEW m \in Acks'
        PROVE  /\ m.ack <= rcv'.nextRx /\ \A n \in m.sack : m.ack < n
               /\ Reported(m.sack)'
    <3>1. CASE m = a
      <4>1. m.ack = rcv'.nextRx /\ m.sack = rcv'.stored
        BY <1>5, <3>1
      <4>2. Reported(m.sack)'
        BY <1>11, <4>1
      <4> QED
        BY <1>2, <4>1, <4>2
    <3>2. CASE m \in Acks
      BY <1>1, <1>2, <1>7, <1>10, <3>2 DEF NetOK
    <3> QED
      BY <1>6, <3>1, <3>2
  <2>4. Reported(snd.sacked)'
    BY <1>1, <1>10 DEF NetOK
  <2> QED
    BY <2>1, <2>2, <2>3, <2>4 DEF NetOK
<1>13. Follows(snd, snd')
  BY <1>1, FollowsItself
<1> QED
  BY <1>1, <1>3, <1>12, <1>13 DEF IInv, Onward

LEMMA PendingEventKeeps ==
  IInv /\ PendingEvent => IInv' /\ Onward
<1> USE Constants
<1> SUFFICES ASSUME IInv, PendingEvent PROVE IInv' /\ Onward
  OBVIOUS
<1> DEFINE s == [snd EXCEPT !.pending = FALSE]
<1>1. PICK cWnd \in 1 .. MaxCWnd : SenderSteps(SendPendingData(s, cWnd), {})
  BY DEF PendingEvent
<1>2. /\ Board(snd) /\ Ready(snd) /\ (~Ecn => Counted(snd))
      /\ snd \in Senders /\ snd.recover <= snd.highTx
      /\ snd.ecnEchoSeq <= snd.head /\ snd.highTx \in 0 .. Total
  BY SenderTypes DEF IInv
<1>3. /\ s \in Senders /\ Same(snd, s)
      /\ s.highTx = snd.highTx /\ s.recover = snd.recover
      /\ s.lost = snd.lost /\ s.retrans = snd.retrans /\ s.out = snd.out
      /\ s.ecnEchoSeq = snd.ecnEchoSeq
  <2>1. s \in Senders
    BY <1>2 DEF Senders
  <2>2. snd.highTx <= snd.highTx
    BY <1>2
  <2> QED
    BY <1>2, <2>1, <2>2 DEF Senders, Same, SameState
<1> HIDE DEF s
<1>4. Board(s)
  BY <1>2, <1>3, BoardOfSameBoard DEF Same
<1> DEFINE t == SendPendingData(s, cWnd)
<1>5. Board(t) /\ Same(s, t)
  BY <1>4, SendPendingDataFacts
<1> HIDE DEF t
<1>6. Same(snd, t)
  BY <1>2, <1>3, <1>4, <1>5, SameOn
<1>7. Good(t) /\ Follows(snd, t)
  BY <1>2, <1>5, <1>6, SameIsGood DEF Good
<1>8. /\ t.head <= rcv.nextRx /\ Reported(t.sacked)
      /\ early' \in 0 .. MaxEarly
  BY <1>6 DEF Same, IInv, ReceiverOK, NetOK, PendingEvent
<1> QED
  BY <1>1, <1>7, <1>8, SenderStepsKeep DEF t

LEMMA ReceiveAckKeeps ==
  ASSUME NEW m
  PROVE  IInv /\ ReceiveAck(m) => IInv' /\ Onward
<1> USE Constants
<1> SUFFICES ASSUME IInv, ReceiveAck(m) PROVE IInv' /\ Onward
  OBVIOUS
<1>1. /\ m \in Acks /\ {m} \subseteq net /\ early' \in 0 .. MaxEarly
      /\ m.ack \in 0 .. Total /\ m.sack \in SUBSET Seqs
  BY SegmentKinds DEF ReceiveAck, IInv, NetOK, Acks
<1>2. /\ Good(snd) /\ Follows(snd, snd)
      /\ snd.head \in 0 .. Total /\ snd.highTx \in 0 .. Total
  BY SenderTypes, FollowsItself DEF IInv, Good
<1>3. /\ snd.head <= rcv.nextRx /\ rcv.nextRx <= snd.highTx
      /\ rcv.nextRx \in 0 .. Total
      /\ m.ack <= rcv.nextRx /\ Reported(m.sack) /\ Reported(snd.sacked)
      /\ \A n \in m.sack : m.ack < n
  BY <1>1 DEF IInv, ReceiverOK, NetOK
<1>4. CASE m.ack < snd.head /\ SenderSteps(snd, {m})
  BY <1>1, <1>2, <1>3, <1>4, SenderStepsKeep
<1>5. CASE /\ ~(m.ack < snd.head)
           /\ \E cWnd \in 1 .. MaxCWnd, ece \in {FALSE, Ecn} :
                SenderSteps(ReceivedAck(snd, m, ece, cWnd), {m})
  <2>1. PICK cWnd \in 1 .. MaxCWnd, ece \in {FALSE, Ecn} :
          SenderSteps(ReceivedAck(snd, m, ece, cWnd), {m})
    BY <1>5
  <2> DEFINE r == ReceivedAck(snd, m, ece, cWnd)
  <2>2. m.ack \in snd.head .. snd.highTx /\ m.ack \notin snd.sacked
    BY <1>1, <1>2, <1>3, <1>5 DEF Reported
  <2>3. /\ Good(r) /\ Follows(snd, r)
        /\ r.head = m.ack /\ r.sacked \subseteq snd.sacked \cup m.sack
    <3>1. cWnd \in Int
      OBVIOUS
    <3> QED
      BY <1>1, <1>2, <1>3, <2>2, <3>1, ReceivedAckFacts
  <2> HIDE DEF r
  <2>4. r.head <= rcv.nextRx /\ Reported(r.sacked)
    BY <1>3, <2>3 DEF Reported
  <2> QED
    BY <1>1, <2>1, <2>3, <2>4, SenderStepsKeep DEF r
<1> QED
  BY <1>4, <1>5 DEF ReceiveAck

LEMMA ReTxTimeoutKeeps ==
  IInv /\ ReTxTimeout => IInv' /\ Onward
<1> USE Constants
<1> SUFFICES ASSUME IInv, ReTxTimeout PROVE IInv' /\ Onward
  OBVIOUS
<1>1. /\ Board(snd) /\ Ready(snd) /\ (~Ecn => Counted(snd)) /\ Good(snd)
      /\ Follows(snd, snd) /\ snd \in Senders
      /\ snd.recover \in 0 .. Total /\ snd.highTx \in 0 .. Total
      /\ snd.recover <= snd.highTx /\ snd.ecnEchoSeq <= snd.head
      /\ snd.head \in 0 .. Total
  BY SenderTypes, FollowsItself DEF IInv, Good
<1>2. /\ snd.head <= rcv.nextRx /\ Reported(snd.sacked)
      /\ {} \subseteq net /\ early' \in 0 .. MaxEarly
  BY DEF IInv, ReceiverOK, NetOK, ReTxTimeout
<1> DEFINE q == [snd EXCEPT !.retx = FALSE]
           l == SetSentListLost(snd)
           s == [l EXCEPT !.retx = FALSE, !.dupAckCount = 0,
                          !.congState = "loss", !.recover = snd.highTx,
                          !.recoverActive = TRUE]
           t == SendPendingData(s, 1)
<1>3. SenderSteps(IF snd.head = Total THEN q ELSE t, {})
  BY DEF ReTxTimeout
<1>4. /\ Good(q) /\ Follows(snd, q) /\ q.head = snd.head
      /\ q.sacked = snd.sacked
  <2>1. /\ q \in Senders /\ Same(snd, q)
        /\ q.highTx = snd.highTx /\ q.recover = snd.recover
        /\ q.lost = snd.lost /\ q.retrans = snd.retrans /\ q.out = snd.out
        /\ q.ecnEchoSeq = snd.ecnEchoSeq
    <3>1. q \in Senders
      BY <1>1 DEF Senders
    <3>2. snd.highTx <= snd.highTx
      BY <1>1
    <3> QED
      BY <1>1, <3>1, <3>2 DEF Senders, Same, SameState
  <2> HIDE DEF q
  <2>2. Board(q)
    BY <1>1, <2>1, BoardOfSameBoard DEF Same
  <2> QED
    BY <1>1, <2>1, <2>2, SameIsGood DEF Same
<1> HIDE DEF q
<1>5. /\ Good(t) /\ Follows(snd, t) /\ t.head = snd.head
      /\ t.sacked = snd.sacked
  <2>1. /\ Board(l) /\ l.head = snd.head /\ l.highTx = snd.highTx
        /\ l.sacked = snd.sacked /\ l.asserted = snd.asserted
    BY <1>1, SetSentListLostFacts DEF SameState
  <2> HIDE DEF l
  <2>2. l \in Senders /\ l.ecnEchoSeq <= l.head
    BY <2>1, SenderTypes
  <2>3. /\ s \in Senders /\ s.head = l.head /\ s.highTx = l.highTx
        /\ s.sacked = l.sacked /\ s.lost = l.lost /\ s.retrans = l.retrans
        /\ s.out = l.out /\ s.ecnEchoSeq = l.ecnEchoSeq
        /\ s.congState = "loss" /\ s.dupAckCount = 0
        /\ s.recover = snd.highTx /\ s.asserted = l.asserted
    BY <1>1, <2>2 DEF Senders, CongStates
  <2> HIDE DEF s
  <2>4. s.recover <= s.highTx
    BY <1>1, <2>1, <2>3
  <2>5. Board(s)
    BY <2>1, <2>2, <2>3, <2>4, BoardOfSameBoard
  <2>6. Good(s)
    BY <1>1, <2>1, <2>3, <2>5 DEF Good, Ready, Counted
  <2>7. Board(t) /\ Same(s, t)
    BY <2>5, SendPendingDataFacts
  <2> HIDE DEF t
  <2>8. Good(t)
    BY <2>6, <2>7, SameIsGood
  <2>9. Follows(snd, t)
    BY <1>1, <2>1, <2>3, <2>7 DEF Follows, Same, SameState
  <2> QED
    BY <2>1, <2>3, <2>7, <2>8, <2>9 DEF Same
<1> HIDE DEF t
<1> QED
  BY <1>1, <1>2, <1>3, <1>4, <1>5, SenderStepsKeep

LEMMA ReceiveDataKeeps ==
  ASSUME NEW m
  PROVE  IInv /\ ReceiveData(m) => IInv' /\ Onward
<1> USE Constants
<1> SUFFICES ASSUME IInv, ReceiveData(m) PROVE IInv' /\ Onward
  OBVIOUS
<1> DEFINE r == AddRx(rcv, m.seq)
<1>1. /\ m \in net /\ m.seq \in Seqs /\ m.seq < snd.highTx
      /\ snd.highTx \in 0 .. Total
  BY SegmentKinds, SenderTypes DEF ReceiveData, IInv, NetOK
<1>2. /\ rcv \in Receivers /\ rcv.nextRx \in 0 .. Total
      /\ rcv.stored \subseteq Seqs /\ rcv.nextRx <= snd.highTx
      /\ \A n \in rcv.stored : rcv.nextRx < n /\ n < snd.highTx
  BY DEF IInv, ReceiverOK, Receivers
<1>3. /\ r \in Receivers /\ rcv.nextRx <= r.nextRx
      /\ \A n \in r.stored : r.nextRx < n
      /\ r.nextRx # rcv.nextRx => r.nextRx - 1 \in rcv.stored \cup {m.seq}
      /\ r.stored \subseteq rcv.stored \cup {m.seq}
      /\ \A n \in Seqs :
           n < r.nextRx \/ n \in r.stored
             <=> n < rcv.nextRx \/ n \in rcv.stored \cup {m.seq}
  BY <1>1, <1>2, AddRxFacts
<1>4. /\ \/ rcv' = [r EXCEPT !.delAck = FALSE]
         \/ rcv' = [r EXCEPT !.delAck = TRUE]
      /\ net' \subseteq net \cup Ack(r)
      /\ snd' = snd /\ losses' = losses /\ early' = early
  BY DEF ReceiveData
<1> HIDE DEF r
<1>5. /\ rcv' \in Receivers /\ rcv'.nextRx = r.nextRx
      /\ rcv'.stored = r.stored
  BY <1>3, <1>4 DEF Receivers
<1>6. net' \subseteq net \cup Ack(rcv')
  BY <1>4, <1>5 DEF Ack
<1>7. rcv'.nextRx <= snd.highTx
  <2>1. CASE r.nextRx = rcv.nextRx
    BY <1>2, <1>5, <2>1
  <2>2. CASE r.nextRx # rcv.nextRx
    <3>1. r.nextRx - 1 < snd.highTx /\ r.nextRx \in 0 .. Total
      BY <1>1, <1>2, <1>3, <2>2 DEF Receivers
    <3> QED
      BY <1>1, <1>5, <3>1
  <2> QED
    BY <2>1, <2>2
<1>8. \A n \in rcv'.stored : rcv'.nextRx < n /\ n < snd.highTx
  BY <1>1, <1>2, <1>3, <1>5
<1>9. Arrived \subseteq Arrived'
  <2>1. Arrived' = {n \in Seqs : n < rcv'.nextRx} \cup rcv'.stored
    BY DEF Arrived
  <2> SUFFICES ASSUME NEW n \in Arrived PROVE n \in Arrived'
    OBVIOUS
  <2>2. n \in Seqs /\ (n < rcv.nextRx \/ n \in rcv.stored)
    BY <1>2 DEF Arrived
  <2>3. n < r.nextRx \/ n \in r.stored
    BY <1>3, <2>2
  <2> QED
    BY <1>5, <2>1, <2>2, <2>3
<1> QED
  BY <1>3, <1>4, <1>5, <1>6, <1>7, <1>8, <1>9, OthersKeep DEF IInv

LEMMA DelAckTimeoutKeeps ==
  IInv /\ DelAckTimeout => IInv' /\ Onward
<1> SUFFICES ASSUME IInv, DelAckTimeout PROVE IInv' /\ Onward
  OBVIOUS
<1>1. /\ rcv \in Receivers /\ rcv.nextRx \in 0 .. Total
      /\ rcv.nextRx <= snd.highTx
      /\ \A n \in rcv.stored : rcv.nextRx < n /\ n < snd.highTx
  BY DEF IInv, ReceiverOK, Receivers
<1>2. /\ rcv' \in Receivers /\ rcv'.nextRx = rcv.nextRx
      /\ rcv'.stored = rcv.stored
  BY <1>1 DEF DelAckTimeout, Receivers
<1>3. net' \subseteq net \cup Ack(rcv') /\ Arrived' = Arrived
  BY <1>2 DEF DelAckTimeout, Ack, Arrived
<1>4. rcv.nextRx <= rcv'.nextRx
  BY <1>1, <1>2, Constants
<1> QED
  BY <1>1, <1>2, <1>3, <1>4, OthersKeep DEF IInv, DelAckTimeout

LEMMA LoseKeeps ==
  ASSUME NEW m
  PROVE  IInv /\ Lose(m) => IInv' /\ Onward
<1> SUFFICES ASSUME IInv, Lose(m) PROVE IInv' /\ Onward
  OBVIOUS
<1>1. /\ rcv \in Receivers /\ rcv.nextRx \in 0 .. Total
      /\ rcv.nextRx <= snd.highTx
      /\ \A n \in rcv.stored : rcv.nextRx < n /\ n < snd.highTx
  BY DEF IInv, ReceiverOK, Receivers
<1>2. net' \subseteq net \cup Ack(rcv') /\ Arrived' = Arrived
  BY DEF Lose, Arrived
<1>3. rcv.nextRx <= rcv'.nextRx /\ losses' \in 0 .. MaxLosses
  BY <1>1, Constants DEF Lose, IInv
<1> QED
  BY <1>1, <1>2, <1>3, OthersKeep DEF Lose

LEMMA StepKeeps == IInv /\ [Next]_vars => IInv' /\ Onward
<1> SUFFICES ASSUME IInv, [Next]_vars PROVE IInv' /\ Onward
  OBVIOUS
<1>1. CASE PendingEvent
  BY <1>1, PendingEventKeeps
<1>2. CASE ReTxTimeout
  BY <1>2, ReTxTimeoutKeeps
<1>3. CASE DelAckTimeout
  BY <1>3, DelAckTimeoutKeeps
<1>4. ASSUME NEW m \in net, ReceiveAck(m) \/ ReceiveData(m) \/ Lose(m)
      PROVE  IInv' /\ Onward
  BY <1>4, ReceiveAckKeeps, ReceiveDataKeeps, LoseKeeps
<1>5. CASE UNCHANGED vars
  <2>1. Follows(snd, snd)
    BY FollowsItself DEF IInv
  <2> QED
    BY <1>5, <2>1
        DEF vars, IInv, ReceiverOK, NetOK, Acks, Arrived, Reported, Onward
<1> QED
  BY <1>1, <1>2, <1>3, <1>4, <1>5 DEF Next

-----------------------------------------------------------------------------
(* The theorems.                                                           *)

LEMMA Invariance == Spec => []IInv
<1>1. IInv /\ [Next]_vars => IInv'
  BY StepKeeps
<1> QED
  BY <1>1, InitEstablishes, PTL DEF Spec

\* The types of the handlers' state, for every run: the scoreboard speaks of
\* what is outstanding, the head is never reported as received, the receiver
\* is between the head and what was sent.
THEOREM TypeCorrect == Spec => []TypeOK
<1> USE Constants
<1>1. IInv => TypeOK
  <2> SUFFICES ASSUME IInv PROVE TypeOK
    OBVIOUS
  <2>1. /\ snd \in Senders /\ snd.head <= snd.highTx
        /\ snd.recover <= snd.highTx /\ snd.ecnEchoSeq <= snd.head
        /\ snd.sacked \cup snd.lost \cup snd.retrans \subseteq Sent(snd)
        /\ snd.sacked \cap ({snd.head} \cup snd.lost \cup snd.retrans) = {}
    BY DEF IInv, Board
  <2>2. /\ rcv.nextRx \in 0 .. Total /\ rcv.delAck \in BOOLEAN
        /\ snd.head <= rcv.nextRx /\ rcv.stored \subseteq Seqs
        /\ \A n \in rcv.stored : rcv.nextRx < n /\ n < snd.highTx
    BY DEF IInv, ReceiverOK
  <2>3. /\ snd.head \in 0 .. Total /\ snd.highTx \in 0 .. Total
        /\ snd.recover \in 0 .. Total /\ snd.ecnEchoSeq \in 0 .. Total
    BY <2>1 DEF Senders
  <2>4. /\ snd.highTx \in snd.head .. Total
        /\ snd.recover \in 0 .. snd.highTx /\ snd.ecnEchoSeq \in 0 .. snd.head
        /\ rcv.nextRx \in snd.head .. Total
    BY <2>1, <2>2, <2>3
  <2>5. rcv.stored \subseteq rcv.nextRx + 1 .. snd.highTx - 1
    BY <2>2, <2>3 DEF Seqs
  <2>6. /\ snd.congState \in CongStates /\ snd.dupAckCount \in Nat
        /\ {snd.recoverActive, snd.firstPartial, snd.pending, snd.retx,
            snd.asserted, rcv.delAck} \subseteq BOOLEAN
    BY <2>1, <2>2 DEF Senders
  <2>7. /\ snd.out = {} /\ net \subseteq Segments
        /\ losses \in 0 .. MaxLosses /\ early \in 0 .. MaxEarly
    BY DEF IInv, NetOK
  <2> QED
    BY <2>1, <2>3, <2>4, <2>5, <2>6, <2>7 DEF TypeOK
<1> QED
  BY <1>1, Invariance, PTL

\* The assertions of DupAck never fail where no acknowledgement carries an ECN
\* echo, whatever is lost, reordered or repeated and whatever the window is.
THEOREM AssertionsSafe == ~Ecn => (Spec => []AssertionsHold)
<1> SUFFICES ASSUME ~Ecn PROVE Spec => []AssertionsHold
  OBVIOUS
<1>1. IInv => AssertionsHold
  BY DEF IInv, Counted, AssertionsHold
<1> QED
  BY <1>1, Invariance, PTL

\* Fast recovery is never entered twice for the losses of one window: not by
\* the third duplicate and not by the rule that looks at the segment after the
\* head, after a timeout or not.
THEOREM RecoversOnce == Spec => OneRecoveryPerWindow
<1>1. IInv /\ [Next]_vars
        => [snd.congState # "recovery" /\ snd'.congState = "recovery"
              => snd'.head >= snd.recover]_vars
  <2> SUFFICES ASSUME IInv, [Next]_vars,
                      snd.congState # "recovery", snd'.congState = "recovery"
               PROVE  snd'.head >= snd.recover
    OBVIOUS
  <2>1. Follows(snd, snd') /\ Board(snd) /\ Board(snd')
    BY StepKeeps DEF IInv, Onward
  <2>2. snd.recover \in 0 .. Total /\ snd'.head \in 0 .. Total
    BY <2>1, SenderTypes
  <2> QED
    BY <2>1, <2>2, Constants DEF Follows
<1> QED
  BY <1>1, Invariance, PTL DEF Spec, OneRecoveryPerWindow

\* The sender and the receiver keep the promise of ByteStream, its safety: a
\* segment is delivered once and in order, and forgotten by the sender only
\* after it was delivered.
THEOREM ImplementsStreamSafely == Spec => Stream!Spec
<1> USE Constants
<1>1. Init => Stream!Init
  BY DEF Init, Stream!Init
<1>2. IInv /\ IInv' /\ [Next]_vars => Stream!Next \/ UNCHANGED Stream!vars
  <2> SUFFICES ASSUME IInv, IInv', [Next]_vars
               PROVE  Stream!Next \/ UNCHANGED Stream!vars
    OBVIOUS
  <2>1. /\ snd.head \in 0 .. Total /\ snd'.head \in 0 .. Total
        /\ rcv.nextRx \in 0 .. Total /\ rcv'.nextRx \in 0 .. Total
        /\ snd.head <= rcv.nextRx /\ snd'.head <= rcv'.nextRx
        /\ snd.head <= snd'.head
    BY StepKeeps, SenderTypes DEF IInv, ReceiverOK, Follows, Onward
  <2>2. CASE rcv'.nextRx = rcv.nextRx
    BY <2>1, <2>2 DEF Stream!Next, Stream!Acknowledge, Stream!vars
  <2>3. CASE snd' = snd /\ rcv.nextRx <= rcv'.nextRx
    BY <2>1, <2>3 DEF Stream!Next, Stream!Deliver, Stream!vars
  <2>4. rcv' = rcv \/ (snd' = snd /\ rcv.nextRx <= rcv'.nextRx)
    BY StepKeeps DEF Onward
  <2> QED
    BY <2>2, <2>3, <2>4
<1> QED
  BY <1>1, <1>2, Invariance, PTL DEF Spec, Stream!Spec

=============================================================================

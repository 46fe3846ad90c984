--------------------------- MODULE TcpVegas_proofs ---------------------------
(***************************************************************************)
(* The Vegas+ window for every segment size, threshold, RTT and sequence   *)
(* of acknowledgements.  Each lemma follows one call of the code.          *)
(***************************************************************************)
EXTENDS TcpVegas, TLAPS

\* The minimum of this cycle is a sample exactly when samples were counted,
\* and the minimum of the connection is not above it.
Samples(t) == t.baseRtt <= t.minRtt /\ (t.cntRtt > 0 <=> t.minRtt < TimeMax)

\* The states in which the window is the sender's own.
Own(t) == t.congState \in {"OPEN", "DISORDER", "LOSS"}

\* The inductive invariant.
Good(t) ==
  /\ t \in Tcb
  /\ Samples(t)
  /\ t.ssThresh >= 2 * SegmentSize
  /\ Own(t) => t.cWnd >= SegmentSize
  /\ t.congState \in {"DISORDER", "RECOVERY", "LOSS"} => ~t.doing

\* What Vegas promises of OPEN, true as long as CWR is not left.
On(t) == t.congState = "OPEN" => t.doing

\* The constants, for leaves that calculate.
LEMMA Constants ==
  /\ SegmentSize \in Nat /\ SegmentSize >= 1
  /\ Modulus \in Nat /\ Modulus >= 1
  /\ Beta \in Nat /\ Beta >= 1 /\ Alpha \in Nat /\ Gamma \in Nat
  /\ TimeMax \in Nat
  /\ \A r \in Rtts : r \in Nat /\ r < TimeMax
BY VegasAssumption

\* RTT samples: only the sample fields and the mode change.
LEMMA PktsAckedFacts ==
  ASSUME NEW t \in Tcb, Samples(t), NEW rtt \in Rtts \cup {0}
  PROVE  LET p == PktsAcked(t, rtt)
         IN /\ p \in Tcb /\ Samples(p)
            /\ p.congState = t.congState /\ p.cWnd = t.cWnd
            /\ p.ssThresh = t.ssThresh /\ p.doing = t.doing
            /\ t.mode = "AGGRESSIVE" => p.mode = "AGGRESSIVE"
<1> USE Constants
<1>1. CASE rtt = 0
  BY <1>1 DEF PktsAcked
<1>2. CASE rtt # 0
  <2>t. /\ t.vCount \in Nat /\ t.lastRtt \in Nat
        /\ t.minRtt \in 1..TimeMax /\ t.baseRtt \in 1..TimeMax
        /\ t.cntRtt \in 0..3 /\ t.cWnd \in Nat
        /\ rtt \in Rtts /\ rtt \in 1..TimeMax /\ rtt < TimeMax
    BY <1>2 DEF Tcb
  <2> DEFINE c == CountRtt(t, rtt)
  <2>1. /\ c \in Tcb
        /\ c.congState = t.congState /\ c.cWnd = t.cWnd
        /\ c.ssThresh = t.ssThresh /\ c.doing = t.doing
        /\ c.minRtt = t.minRtt /\ c.baseRtt = t.baseRtt
        /\ c.cntRtt = t.cntRtt
        /\ t.mode = "AGGRESSIVE" => c.mode = "AGGRESSIVE"
    <3>1. t.vCount + 1 \in Nat /\ Larger(t.vCount - 1, 0) \in Nat
      BY <2>t DEF Larger
    <3>2. CASE rtt > t.lastRtt /\ t.lastCwnd = t.cWnd
      BY <3>1, <3>2 DEF CountRtt, Tcb
    <3>3. CASE ~(rtt > t.lastRtt /\ t.lastCwnd = t.cWnd)
      BY <3>1, <3>3 DEF CountRtt, Tcb
    <3> QED
      BY <3>2, <3>3
  <2>2. PktsAcked(t, rtt) = [c EXCEPT !.minRtt = Smaller(t.minRtt, rtt),
                                      !.baseRtt = Smaller(t.baseRtt, rtt),
                                      !.cntRtt = Smaller(t.cntRtt + 1, 3),
                                      !.lastRtt = rtt,
                                      !.lastCwnd = t.cWnd]
    BY <1>2, <2>1 DEF PktsAcked
  <2> HIDE DEF c
  <2>3. /\ Smaller(t.minRtt, rtt) \in 1..TimeMax
        /\ Smaller(t.baseRtt, rtt) \in 1..TimeMax
        /\ Smaller(t.cntRtt + 1, 3) \in 0..3
        /\ Smaller(t.cntRtt + 1, 3) > 0
        /\ Smaller(t.minRtt, rtt) < TimeMax
        /\ Smaller(t.baseRtt, rtt) <= Smaller(t.minRtt, rtt)
    BY <2>t DEF Smaller, Samples
  <2>4. PktsAcked(t, rtt) \in Tcb
    BY <2>1, <2>2, <2>3, <2>t DEF Tcb
  <2>5. Samples(PktsAcked(t, rtt))
    BY <2>1, <2>2, <2>3 DEF Tcb, Samples
  <2> QED
    BY <2>1, <2>2, <2>4, <2>5 DEF Tcb
<1> QED
  BY <1>1, <1>2

\* Vegas goes on in OPEN and off elsewhere; the window is left alone.
LEMMA OpenFacts ==
  ASSUME NEW t \in Tcb, Samples(t), NEW seq \in Seqs
  PROVE  LET p == CongestionStateSet(t, "OPEN", seq)
         IN /\ p \in Tcb /\ Samples(p)
            /\ p.congState = "OPEN" /\ p.cWnd = t.cWnd
            /\ p.ssThresh = t.ssThresh /\ p.doing = TRUE
<1> USE Constants
<1>1. TimeMax \in 1..TimeMax /\ t.baseRtt \in 1..TimeMax
  BY DEF Tcb
<1> DEFINE p == CongestionStateSet(t, "OPEN", seq)
<1>2. p = [t EXCEPT !.doing = TRUE, !.begSndNxt = seq, !.cntRtt = 0,
                    !.minRtt = TimeMax, !.congState = "OPEN"]
  BY DEF CongestionStateSet, EnableVegas, Tcb
<1> HIDE DEF p
<1>3. p \in Tcb
  <2>1. "OPEN" \in States /\ 0 \in 0..3
    BY DEF States
  <2> QED
    BY <1>1, <1>2, <2>1 DEF Tcb
<1>4. Samples(p)
  BY <1>1, <1>2 DEF Tcb, Samples
<1> QED
  BY <1>2, <1>3, <1>4 DEF p, Tcb

\* Vegas goes off in every other state.
LEMMA CongestedFacts ==
  ASSUME NEW t \in Tcb, Samples(t), NEW state \in States \ {"OPEN"}
  PROVE  LET p == CongestionStateSet(t, state, 0)
         IN /\ p = [t EXCEPT !.doing = FALSE, !.congState = state]
            /\ p \in Tcb /\ Samples(p)
            /\ p.congState = state /\ p.cWnd = t.cWnd
            /\ p.ssThresh = t.ssThresh /\ p.doing = FALSE
<1> DEFINE p == CongestionStateSet(t, state, 0)
<1>1. p = [t EXCEPT !.doing = FALSE, !.congState = state]
  BY DEF CongestionStateSet, DisableVegas, Tcb
<1> HIDE DEF p
<1> QED
  BY <1>1 DEF p, Tcb, Samples

\* The threshold stays above two segments and is not raised, wrapped or not.
LEMMA GetSsThreshFacts ==
  ASSUME NEW t \in Tcb, t.ssThresh >= 2 * SegmentSize
  PROVE  /\ GetSsThresh(t) \in Nat
         /\ GetSsThresh(t) >= 2 * SegmentSize
         /\ GetSsThresh(t) <= t.ssThresh
<1> USE Constants
<1>1. t.cWnd \in Nat /\ t.ssThresh \in Nat
  BY DEF Tcb
<1>2. (t.cWnd - SegmentSize) % Modulus \in Nat
  BY <1>1
<1> QED
  BY <1>1, <1>2 DEF GetSsThresh, Larger, Smaller

\* The threshold, lowered, stays above two segments.
LEMMA LowerFacts ==
  ASSUME NEW t \in Tcb, t.ssThresh >= 2 * SegmentSize
  PROVE  LET p == Lower(t)
         IN /\ p \in Tcb /\ p = [t EXCEPT !.ssThresh = p.ssThresh]
            /\ p.ssThresh >= 2 * SegmentSize /\ p.ssThresh <= t.ssThresh
            /\ p.cWnd = t.cWnd /\ p.congState = t.congState
            /\ p.doing = t.doing /\ p.mode = t.mode
            /\ Samples(t) => Samples(p)
BY GetSsThreshFacts DEF Lower, Tcb, Samples


\* Slow start and congestion avoidance never shrink the window.
LEMMA SlowStartFacts ==
  ASSUME NEW t \in Tcb, NEW n \in Int
  PROVE  LET p == SlowStart(t, n)
         IN /\ p = [t EXCEPT !.cWnd = p.cWnd]
            /\ p.cWnd \in Nat /\ p.cWnd >= t.cWnd
BY Constants DEF SlowStart, Tcb

\* Congestion avoidance adds at least one byte and at most a segment.
LEMMA AdderFacts ==
  ASSUME NEW w \in Nat, w >= SegmentSize
  PROVE  LET a == Larger(1, (SegmentSize * SegmentSize) \div w)
         IN a \in Nat /\ a <= SegmentSize
<1> USE Constants
<1> DEFINE q == (SegmentSize * SegmentSize) \div w
<1>1. q \in Nat
  OBVIOUS
<1>2. w * q <= SegmentSize * SegmentSize
  OBVIOUS
<1>3. q <= SegmentSize
  <2> SUFFICES ASSUME q >= SegmentSize + 1 PROVE FALSE
    BY <1>1
  <2>1. w * q >= w * (SegmentSize + 1)
    BY <1>1
  <2>2. w * (SegmentSize + 1) >= SegmentSize * (SegmentSize + 1)
    OBVIOUS
  <2>3. SegmentSize * (SegmentSize + 1) = SegmentSize * SegmentSize + SegmentSize
    OBVIOUS
  <2> QED
    BY <1>1, <1>2, <2>1, <2>2, <2>3
<1> HIDE DEF q
<1>4. Larger(1, q) \in Nat /\ Larger(1, q) <= SegmentSize
  BY <1>1, <1>3 DEF Larger
<1> QED
  BY <1>4 DEF q

\* So it grows the window by at most a segment,
LEMMA AvoidanceFacts ==
  ASSUME NEW t \in Tcb, NEW n \in Int, t.cWnd >= SegmentSize
  PROVE  LET p == CongestionAvoidance(t, n)
         IN /\ p = [t EXCEPT !.cWnd = p.cWnd]
            /\ p.cWnd \in Nat /\ p.cWnd >= t.cWnd
            /\ p.cWnd <= t.cWnd + SegmentSize
<1> DEFINE a == Larger(1, (SegmentSize * SegmentSize) \div t.cWnd)
<1>1. t.cWnd \in Nat
  BY DEF Tcb
<1>2. a \in Nat /\ a <= SegmentSize
  BY <1>1, AdderFacts
<1>3. CongestionAvoidance(t, n) =
        IF n >= 1 THEN [t EXCEPT !.cWnd = t.cWnd + a] ELSE t
  BY DEF CongestionAvoidance, Tcb
<1> HIDE DEF a
<1> QED
  BY <1>1, <1>2, <1>3, Constants DEF Tcb

\* and so does NewReno above the threshold.
LEMMA NewRenoFacts ==
  ASSUME NEW t \in Tcb, NEW n \in Int, t.cWnd >= SegmentSize
  PROVE  LET p == NewReno(t, n)
         IN /\ p = [t EXCEPT !.cWnd = p.cWnd]
            /\ p.cWnd \in Nat /\ p.cWnd >= t.cWnd
            /\ t.cWnd >= t.ssThresh => p.cWnd <= t.cWnd + SegmentSize
<1> DEFINE s == SlowStart(t, n)
<1>1. CASE t.cWnd >= t.ssThresh
  BY <1>1, AvoidanceFacts DEF NewReno
<1>2. CASE ~(t.cWnd >= t.ssThresh)
  <2>1. /\ s = [t EXCEPT !.cWnd = s.cWnd] /\ s.cWnd \in Nat
        /\ s.cWnd >= t.cWnd
    BY SlowStartFacts
  <2>2. s \in Tcb /\ t.cWnd \in Nat
    BY <2>1 DEF Tcb
  <2>3. NewReno(t, n) = IF s.cWnd >= s.ssThresh
                        THEN CongestionAvoidance(s, n - 1) ELSE s
    BY <1>2 DEF NewReno
  <2> HIDE DEF s
  <2> DEFINE p == CongestionAvoidance(s, n - 1)
  <2>4. s.cWnd >= SegmentSize /\ n - 1 \in Int
    BY <2>1, <2>2, Constants
  <2>5. p = [s EXCEPT !.cWnd = p.cWnd] /\ p.cWnd \in Nat /\ p.cWnd >= s.cWnd
    BY <2>2, <2>4, AvoidanceFacts
  <2> HIDE DEF p
  <2>6. CASE s.cWnd >= s.ssThresh
    <3>1. NewReno(t, n) = p
      BY <2>3, <2>6 DEF p
    <3>2. p = [t EXCEPT !.cWnd = p.cWnd]
      BY <2>1, <2>5 DEF Tcb
    <3> QED
      BY <1>2, <2>1, <2>2, <2>5, <3>1, <3>2
  <2>7. CASE ~(s.cWnd >= s.ssThresh)
    BY <1>2, <2>1, <2>3, <2>7
  <2> QED
    BY <2>6, <2>7
<1> QED
  BY <1>1, <1>2

\* The assertion of the code: the target is not above the window.
LEMMA TargetBelow ==
  ASSUME NEW t \in Tcb, Samples(t)
  PROVE  /\ SegCwnd(t) \in Nat /\ TargetCwnd(t) \in Nat
         /\ TargetCwnd(t) <= SegCwnd(t)
         /\ SegCwnd(t) * SegmentSize <= t.cWnd
         /\ t.cWnd < (SegCwnd(t) + 1) * SegmentSize
<1> USE Constants
<1> DEFINE a == SegCwnd(t)  b == t.baseRtt  c == t.minRtt
           q == (a * b) \div c
<1>1. t.cWnd \in Nat /\ b \in Nat /\ c \in Nat /\ b <= c /\ c >= 1
  BY DEF Tcb, Samples
<1>2. /\ a \in Nat
      /\ a * SegmentSize <= t.cWnd
      /\ t.cWnd < (a + 1) * SegmentSize
  BY <1>1 DEF SegCwnd
<1> HIDE DEF a, b, c
<1>3. a * b \in Nat /\ q \in Nat /\ c * q <= a * b
  BY <1>1, <1>2
<1>4. q <= a
  <2> SUFFICES ASSUME q >= a + 1 PROVE FALSE
    BY <1>2, <1>3
  <2> HIDE DEF q
  <2>1. c * q >= c * (a + 1)
    BY <1>1, <1>2, <1>3
  <2>2. c * (a + 1) = a * c + c
    BY <1>1, <1>2
  <2>3. a * b <= a * c
    BY <1>1, <1>2
  <2> QED
    BY <1>1, <1>2, <1>3, <2>1, <2>2, <2>3
<1>5. TargetCwnd(t) = q
  BY DEF TargetCwnd, a, b, c
<1> QED
  BY <1>2, <1>3, <1>4, <1>5 DEF a

\* What setting a window of k segments and lowering the threshold does.
LEMMA ResizeLower ==
  ASSUME NEW t \in Tcb, NEW k \in Nat, t.ssThresh >= 2 * SegmentSize
  PROVE  LET p == Lower(Resize(t, k))
         IN /\ p = [t EXCEPT !.cWnd = p.cWnd, !.ssThresh = p.ssThresh]
            /\ p.cWnd = k * SegmentSize
            /\ p.ssThresh \in Nat /\ p.ssThresh >= 2 * SegmentSize
<1> DEFINE r == Resize(t, k)
<1>1. k * SegmentSize \in Nat
  BY Constants
<1>2. r = [t EXCEPT !.cWnd = k * SegmentSize]
  BY DEF Resize
<1> HIDE DEF r
<1>3. /\ r \in Tcb /\ r.ssThresh >= 2 * SegmentSize
      /\ r.cWnd = k * SegmentSize
  BY <1>1, <1>2 DEF Tcb
<1>4. GetSsThresh(r) \in Nat /\ GetSsThresh(r) >= 2 * SegmentSize
  BY <1>3, GetSsThreshFacts
<1>5. Lower(r) = [r EXCEPT !.ssThresh = GetSsThresh(r)]
  BY DEF Lower
<1>6. Lower(r) = [t EXCEPT !.cWnd = k * SegmentSize,
                           !.ssThresh = GetSsThresh(r)]
  BY <1>2, <1>5 DEF Tcb
<1> QED
  BY <1>1, <1>4, <1>6 DEF Tcb, r

\* The adjustment at the end of a cycle.
LEMMA AdjustFacts ==
  ASSUME NEW t \in Tcb, Samples(t), NEW n \in Int,
         t.ssThresh >= 2 * SegmentSize, t.cWnd >= SegmentSize
  PROVE  LET p == Adjust(t, n)
         IN /\ p = [t EXCEPT !.cWnd = p.cWnd, !.ssThresh = p.ssThresh]
            /\ p.cWnd \in Nat /\ p.cWnd >= SegmentSize
            /\ p.ssThresh \in Nat /\ p.ssThresh >= 2 * SegmentSize
            /\ t.cWnd >= t.ssThresh =>
                 /\ p.cWnd <= t.cWnd + SegmentSize
                 /\ p.cWnd > t.cWnd - 2 * SegmentSize
<1> USE Constants
<1> DEFINE a == SegCwnd(t)  g == TargetCwnd(t)
<1>1. /\ a \in Nat /\ g \in Nat /\ g <= a
      /\ a * SegmentSize <= t.cWnd
      /\ t.cWnd < (a + 1) * SegmentSize
      /\ Diff(t) = a - g
  BY TargetBelow DEF Diff
<1>2. t.cWnd \in Nat /\ t.ssThresh \in Nat
  BY DEF Tcb
<1> HIDE DEF a, g
<1>3. a >= 1
  <2> SUFFICES ASSUME a = 0 PROVE FALSE
    BY <1>1
  <2>1. (a + 1) * SegmentSize = SegmentSize
    OBVIOUS
  <2> QED
    BY <1>1, <1>2, <2>1
<1>m. \A k \in Nat : k * SegmentSize \in Nat
                     /\ (k >= 1 => k * SegmentSize >= SegmentSize)
  OBVIOUS
<1>4. CASE t.cWnd < t.ssThresh /\ Diff(t) > Gamma
  <2> DEFINE k == Smaller(a, g + 1)
  <2>1. k \in Nat /\ k >= 1
    BY <1>1, <1>3 DEF Smaller
  <2>2. Adjust(t, n) = Lower(Resize(t, k))
    BY <1>4 DEF Adjust, a, g
  <2> HIDE DEF k
  <2>3. k * SegmentSize \in Nat /\ k * SegmentSize >= SegmentSize
    BY <1>m, <2>1
  <2>4. LET p == Lower(Resize(t, k))
        IN /\ p = [t EXCEPT !.cWnd = p.cWnd, !.ssThresh = p.ssThresh]
           /\ p.cWnd = k * SegmentSize
           /\ p.ssThresh \in Nat /\ p.ssThresh >= 2 * SegmentSize
    BY <2>1, ResizeLower
  <2> QED
    BY <1>2, <1>4, <2>2, <2>3, <2>4
<1>5. CASE t.cWnd < t.ssThresh /\ ~(Diff(t) > Gamma)
  <2>1. Adjust(t, n) = SlowStart(t, n)
    BY <1>5 DEF Adjust
  <2>2. SlowStart(t, n) = [t EXCEPT !.cWnd = SlowStart(t, n).cWnd]
        /\ SlowStart(t, n).cWnd \in Nat /\ SlowStart(t, n).cWnd >= t.cWnd
    BY SlowStartFacts
  <2>3. SlowStart(t, n).ssThresh = t.ssThresh
    BY <2>2 DEF Tcb
  <2>4. SlowStart(t, n) = [t EXCEPT !.cWnd = SlowStart(t, n).cWnd,
                                    !.ssThresh = SlowStart(t, n).ssThresh]
    BY <2>2, <2>3 DEF Tcb
  <2> QED
    BY <1>2, <1>5, <2>1, <2>2, <2>3, <2>4
<1>6. CASE ~(t.cWnd < t.ssThresh) /\ Diff(t) > Beta
  <2>1. a - 1 \in Nat /\ a - 1 >= 1
    BY <1>1, <1>6
  <2>2. Adjust(t, n) = Lower(Resize(t, a - 1))
    BY <1>6 DEF Adjust, a
  <2>3. (a - 1) * SegmentSize \in Nat /\ (a - 1) * SegmentSize >= SegmentSize
    BY <1>m, <2>1
  <2>4. (a + 1) * SegmentSize = (a - 1) * SegmentSize + 2 * SegmentSize
    BY <1>1
  <2>5. a * SegmentSize = (a - 1) * SegmentSize + SegmentSize
    BY <1>1
  <2>6. Lower(Resize(t, a - 1)).cWnd = (a - 1) * SegmentSize
    BY <2>1, ResizeLower
  <2>7. /\ (a - 1) * SegmentSize <= t.cWnd + SegmentSize
        /\ (a - 1) * SegmentSize > t.cWnd - 2 * SegmentSize
    BY <1>1, <1>2, <2>3, <2>4, <2>5
  <2> QED
    BY <2>1, <2>2, <2>3, <2>6, <2>7, ResizeLower
<1>7. CASE ~(t.cWnd < t.ssThresh) /\ ~(Diff(t) > Beta) /\ Diff(t) < Alpha
  <2>1. Adjust(t, n) = Resize(t, a + 1)
    BY <1>7 DEF Adjust, a
  <2>2. Resize(t, a + 1) = [t EXCEPT !.cWnd = (a + 1) * SegmentSize]
    BY DEF Resize
  <2>3. /\ (a + 1) * SegmentSize \in Nat
        /\ (a + 1) * SegmentSize = a * SegmentSize + SegmentSize
    BY <1>1
  <2>4. /\ Resize(t, a + 1).cWnd = (a + 1) * SegmentSize
        /\ Resize(t, a + 1).ssThresh = t.ssThresh
        /\ Resize(t, a + 1) = [t EXCEPT !.cWnd = (a + 1) * SegmentSize,
                                        !.ssThresh = t.ssThresh]
    BY <2>2, <2>3 DEF Tcb
  <2>5. /\ (a + 1) * SegmentSize >= SegmentSize
        /\ (a + 1) * SegmentSize <= t.cWnd + SegmentSize
        /\ (a + 1) * SegmentSize > t.cWnd - 2 * SegmentSize
    <3>1. a * SegmentSize \in Nat
      BY <1>1
    <3> HIDE <1>m
    <3> QED
      BY <1>1, <1>2, <2>3, <3>1
  <2> QED
    BY <1>2, <2>1, <2>3, <2>4, <2>5
<1>8. CASE ~(t.cWnd < t.ssThresh) /\ ~(Diff(t) > Beta) /\ ~(Diff(t) < Alpha)
  <2>1. Adjust(t, n) = t
    BY <1>8 DEF Adjust
  <2>2. t = [t EXCEPT !.cWnd = t.cWnd, !.ssThresh = t.ssThresh]
    BY DEF Tcb
  <2> QED
    BY <1>2, <2>1, <2>2
<1> QED
  BY <1>4, <1>5, <1>6, <1>7, <1>8

\* The end of a cycle: the adjustment, then the reset of the samples.
LEMMA EndCycleFacts ==
  ASSUME NEW t \in Tcb, Samples(t), NEW n \in Int, NEW seq \in Seqs,
         t.ssThresh >= 2 * SegmentSize, t.cWnd >= SegmentSize
  PROVE  LET p == EndCycle(t, n, seq)
         IN /\ p \in Tcb /\ Samples(p)
            /\ p.congState = t.congState /\ p.doing = t.doing
            /\ p.mode = t.mode
            /\ p.ssThresh >= 2 * SegmentSize
            /\ p.cWnd >= SegmentSize
            /\ t.cWnd >= t.ssThresh =>
                 /\ p.cWnd <= t.cWnd + SegmentSize
                 /\ p.cWnd > t.cWnd - 2 * SegmentSize
<1> USE Constants
<1> DEFINE r == IF t.cntRtt <= 2 THEN NewReno(t, n)
                ELSE RaiseSsThresh(Adjust(t, n))
<1>0. t.cWnd \in Nat /\ t.ssThresh \in Nat /\ TimeMax \in 1..TimeMax
      /\ t.baseRtt \in 1..TimeMax
  BY DEF Tcb
<1>1. /\ r = [t EXCEPT !.cWnd = r.cWnd, !.ssThresh = r.ssThresh]
      /\ r.cWnd \in Nat /\ r.cWnd >= SegmentSize
      /\ r.ssThresh \in Nat /\ r.ssThresh >= 2 * SegmentSize
      /\ t.cWnd >= t.ssThresh =>
           /\ r.cWnd <= t.cWnd + SegmentSize
           /\ r.cWnd > t.cWnd - 2 * SegmentSize
  <2>1. CASE t.cntRtt <= 2
    <3>1. r = NewReno(t, n)
      BY <2>1
    <3> HIDE DEF r
    <3>2. /\ r = [t EXCEPT !.cWnd = r.cWnd]
          /\ r.cWnd \in Nat /\ r.cWnd >= t.cWnd
          /\ t.cWnd >= t.ssThresh => r.cWnd <= t.cWnd + SegmentSize
      BY <3>1, NewRenoFacts
    <3>3. r.ssThresh = t.ssThresh
      BY <3>2 DEF Tcb
    <3>4. r = [t EXCEPT !.cWnd = r.cWnd, !.ssThresh = r.ssThresh]
      BY <3>2, <3>3 DEF Tcb
    <3> QED
      BY <1>0, <3>2, <3>3, <3>4
  <2>2. CASE ~(t.cntRtt <= 2)
    <3> DEFINE a == Adjust(t, n)
    <3>1. r = [a EXCEPT !.ssThresh = Larger(a.ssThresh, (3 * a.cWnd) \div 4)]
      BY <2>2 DEF RaiseSsThresh
    <3> HIDE DEF r
    <3>2. /\ a = [t EXCEPT !.cWnd = a.cWnd, !.ssThresh = a.ssThresh]
          /\ a.cWnd \in Nat /\ a.cWnd >= SegmentSize
          /\ a.ssThresh \in Nat /\ a.ssThresh >= 2 * SegmentSize
          /\ t.cWnd >= t.ssThresh =>
               /\ a.cWnd <= t.cWnd + SegmentSize
               /\ a.cWnd > t.cWnd - 2 * SegmentSize
      BY AdjustFacts
    <3> HIDE DEF a
    <3> DEFINE h == Larger(a.ssThresh, (3 * a.cWnd) \div 4)
    <3>3. h \in Nat /\ h >= 2 * SegmentSize
      BY <3>2 DEF Larger
    <3>4. r = [a EXCEPT !.ssThresh = h]
      BY <3>1
    <3> HIDE DEF h
    <3>5. /\ r = [t EXCEPT !.cWnd = a.cWnd, !.ssThresh = h]
          /\ r.cWnd = a.cWnd /\ r.ssThresh = h
      BY <3>2, <3>4 DEF Tcb
    <3> QED
      BY <3>2, <3>3, <3>5
  <2> QED
    BY <2>1, <2>2
<1>2. EndCycle(t, n, seq) = [r EXCEPT !.begSndNxt = seq, !.cntRtt = 0,
                                      !.minRtt = TimeMax]
  BY DEF EndCycle
<1> HIDE DEF r
<1>3. r \in Tcb /\ r.congState = t.congState /\ r.doing = t.doing
      /\ r.mode = t.mode /\ r.baseRtt = t.baseRtt
  BY <1>1 DEF Tcb
<1>4. EndCycle(t, n, seq) \in Tcb
  <2>1. 0 \in 0..3
    OBVIOUS
  <2> QED
    BY <1>0, <1>2, <1>3, <2>1 DEF Tcb
<1>5. Samples(EndCycle(t, n, seq))
  BY <1>0, <1>2, <1>3 DEF Tcb, Samples
<1> QED
  BY <1>1, <1>2, <1>3, <1>4, <1>5 DEF Tcb

\* One call of IncreaseWindow, in each of its branches.
LEMMA IncreaseFacts ==
  ASSUME NEW t \in Tcb, Samples(t), NEW n \in Int, NEW ack \in Seqs,
         NEW seq \in Seqs,
         t.ssThresh >= 2 * SegmentSize, t.cWnd >= SegmentSize
  PROVE  LET p == IncreaseWindow(t, n, ack, seq)
         IN /\ p \in Tcb /\ Samples(p)
            /\ p.congState = t.congState /\ p.doing = t.doing
            /\ p.ssThresh >= 2 * SegmentSize
            /\ p.cWnd >= SegmentSize
            /\ ~t.doing => p.ssThresh = t.ssThresh
            /\ t.mode = "AGGRESSIVE" => p.cWnd >= t.cWnd
            /\ t.cWnd >= t.ssThresh =>
                 /\ p.cWnd <= t.cWnd + SegmentSize
                 /\ p.cWnd > t.cWnd - 2 * SegmentSize
<1> USE Constants
<1> DEFINE p == IncreaseWindow(t, n, ack, seq)
<1>0. t.cWnd \in Nat /\ t.ssThresh \in Nat
  BY DEF Tcb
<1>g. ASSUME NEW w \in Nat, p = [t EXCEPT !.cWnd = w]
      PROVE  /\ p \in Tcb /\ Samples(p) /\ p.cWnd = w
             /\ p.congState = t.congState /\ p.doing = t.doing
             /\ p.ssThresh = t.ssThresh
  <2> HIDE DEF p
  <2> QED
    BY <1>g DEF Tcb, Samples
<1>1. CASE ~t.doing \/ t.mode = "AGGRESSIVE"
  <2>1. p = NewReno(t, n)
    BY <1>1 DEF IncreaseWindow
  <2>2. /\ p = [t EXCEPT !.cWnd = p.cWnd]
        /\ p.cWnd \in Nat /\ p.cWnd >= t.cWnd
        /\ t.cWnd >= t.ssThresh => p.cWnd <= t.cWnd + SegmentSize
    BY <2>1, NewRenoFacts
  <2> QED
    BY <1>0, <1>g, <2>2
<1>2. CASE ~(~t.doing \/ t.mode = "AGGRESSIVE") /\ ack >= t.begSndNxt
  <2>1. p = EndCycle(t, n, seq)
    BY <1>2 DEF IncreaseWindow
  <2> QED
    BY <1>2, <2>1, EndCycleFacts
<1>3. CASE /\ ~(~t.doing \/ t.mode = "AGGRESSIVE") /\ ~(ack >= t.begSndNxt)
           /\ t.cWnd < t.ssThresh
  <2>1. p = SlowStart(t, n)
    BY <1>3 DEF IncreaseWindow
  <2>2. p = [t EXCEPT !.cWnd = p.cWnd] /\ p.cWnd \in Nat /\ p.cWnd >= t.cWnd
    BY <2>1, SlowStartFacts
  <2> QED
    BY <1>0, <1>3, <1>g, <2>2
<1>4. CASE /\ ~(~t.doing \/ t.mode = "AGGRESSIVE") /\ ~(ack >= t.begSndNxt)
           /\ ~(t.cWnd < t.ssThresh)
  <2>1. p = t
    BY <1>4 DEF IncreaseWindow
  <2> QED
    BY <1>0, <1>4, <2>1
<1> QED
  BY <1>1, <1>2, <1>3, <1>4

-----------------------------------------------------------------------------
(* The handlers of the socket.                                             *)

\* The recovery algorithm moves the window and nothing else.
LEMMA RecoveredFacts ==
  ASSUME NEW t \in Tcb, Samples(t), NEW w \in Nat
  PROVE  LET p == Recovered(t, w)
         IN /\ p \in Tcb /\ Samples(p) /\ p.ssThresh = t.ssThresh
            /\ p.congState = t.congState /\ p.doing = t.doing
            /\ p.mode = t.mode
BY DEF Recovered, Tcb, Samples

\* Entering CWR lowers the threshold.
LEMMA EnterCwrFacts ==
  ASSUME NEW t, Good(t), NEW w \in Nat
  PROVE  LET p == EnterCwr(t, w)
         IN /\ Good(p) /\ p.congState = "CWR" /\ p.ssThresh <= t.ssThresh
<1> DEFINE l == Lower(t)
<1>1. /\ l \in Tcb /\ Samples(l) /\ l.ssThresh >= 2 * SegmentSize
      /\ l.ssThresh <= t.ssThresh
  BY LowerFacts DEF Good
<1>2. EnterCwr(t, w) = [l EXCEPT !.congState = "CWR", !.cWnd = w]
  BY DEF EnterCwr, Recovered
<1> HIDE DEF l
<1>3. "CWR" \in States
  BY DEF States
<1> QED
  BY <1>1, <1>2, <1>3 DEF Good, Tcb, Samples, Own

\* Entering recovery lowers the threshold and ends the aggressive mode.
LEMMA EnterRecoveryFacts ==
  ASSUME NEW t \in Tcb, Samples(t), t.ssThresh >= 2 * SegmentSize,
         NEW w \in Nat
  PROVE  LET p == EnterRecovery(t, w)
         IN /\ Good(p) /\ p.congState = "RECOVERY"
            /\ p.ssThresh <= t.ssThresh
<1> DEFINE u == [t EXCEPT !.vCount = @ \div 2, !.mode = "MODERATE"]
           v == CongestionStateSet(u, "RECOVERY", 0)
           l == Lower(v)
<1>1. /\ u \in Tcb /\ Samples(u) /\ u.ssThresh = t.ssThresh
  <2>1. t.vCount \in Nat
    BY DEF Tcb
  <2>2. t.vCount \div 2 \in Nat
    BY <2>1
  <2> QED
    BY <2>2 DEF Tcb, Samples
<1>2. EnterRecovery(t, w) = Recovered(l, w)
  BY DEF EnterRecovery
<1> HIDE DEF u
<1>3. /\ v \in Tcb /\ Samples(v) /\ v.congState = "RECOVERY"
      /\ v.ssThresh = t.ssThresh /\ v.doing = FALSE
  <2>1. "RECOVERY" \in States \ {"OPEN"}
    BY DEF States
  <2> QED
    BY <1>1, <2>1, CongestedFacts
<1> HIDE DEF v
<1>4. /\ l \in Tcb /\ Samples(l) /\ l.ssThresh >= 2 * SegmentSize
      /\ l.ssThresh <= t.ssThresh /\ l.congState = "RECOVERY"
      /\ l.doing = FALSE
  BY <1>3, LowerFacts
<1> HIDE DEF l
<1> QED
  BY <1>2, <1>4, RecoveredFacts DEF Good, Own

\* A duplicate acknowledgement moves OPEN to DISORDER or into recovery.
LEMMA DupAckFacts ==
  ASSUME NEW t, Good(t), NEW lost \in BOOLEAN, NEW w \in Nat
  PROVE  LET p == DupAck(t, lost, w)
         IN /\ Good(p) /\ p.ssThresh <= t.ssThresh
            /\ t.congState \in {"OPEN", "DISORDER"} =>
                 p.congState \in {"DISORDER", "RECOVERY"}
            /\ t.congState \notin {"OPEN", "DISORDER"} =>
                 p.congState = t.congState /\ p.doing = t.doing
<1>0. t \in Tcb /\ t.ssThresh \in Nat /\ t.congState \in States
  BY DEF Good, Tcb
<1>1. CASE t.congState \in {"OPEN", "DISORDER"}
  <2> DEFINE d == CongestionStateSet(t, "DISORDER", 0)
  <2>1. /\ d \in Tcb /\ Samples(d) /\ d.congState = "DISORDER"
        /\ d.cWnd = t.cWnd /\ d.ssThresh = t.ssThresh /\ d.doing = FALSE
    <3>1. "DISORDER" \in States \ {"OPEN"} /\ Samples(t)
      BY DEF States, Good
    <3> QED
      BY <1>0, <3>1, CongestedFacts
  <2> HIDE DEF d
  <2>2. d.ssThresh >= 2 * SegmentSize /\ t.cWnd >= SegmentSize
    BY <1>1, <2>1 DEF Good, Own
  <2>3. CASE lost
    <3>1. DupAck(t, lost, w) = EnterRecovery(d, w)
      BY <1>1, <2>3 DEF DupAck, d
    <3> QED
      BY <1>1, <2>1, <2>2, <3>1, EnterRecoveryFacts
  <2>4. CASE ~lost
    <3>1. DupAck(t, lost, w) = d
      BY <1>1, <2>4 DEF DupAck, d
    <3> QED
      BY <1>0, <1>1, <2>1, <2>2, <3>1 DEF Good, Own
  <2> QED
    BY <2>3, <2>4
<1>2. CASE t.congState = "RECOVERY"
  <2>1. DupAck(t, lost, w) = Recovered(t, w)
    BY <1>2 DEF DupAck
  <2> DEFINE p == Recovered(t, w)
  <2>2. /\ p \in Tcb /\ Samples(p) /\ p.ssThresh = t.ssThresh
        /\ p.congState = t.congState /\ p.doing = t.doing
    BY <1>0, RecoveredFacts DEF Good
  <2> HIDE DEF p
  <2>3. Good(p)
    BY <1>2, <2>2 DEF Good, Own
  <2>4. DupAck(t, lost, w) = p
    BY <2>1 DEF p
  <2> QED
    BY <1>0, <1>2, <2>2, <2>3, <2>4
<1>3. CASE t.congState \in {"CWR", "LOSS"}
  <2>1. DupAck(t, lost, w) = t
    BY <1>3 DEF DupAck
  <2> QED
    BY <1>0, <1>3, <2>1
<1> QED
  BY <1>0, <1>1, <1>2, <1>3 DEF States

\* What ReceivedAck does before the acknowledgement is looked at.
LEMMA BeforeAckFacts ==
  ASSUME NEW t, Good(t), NEW passed \in BOOLEAN, NEW echo \in BOOLEAN,
         NEW w \in Nat
  PROVE  LET p == BeforeAck(t, passed, echo, w)
         IN /\ Good(p) /\ p.ssThresh <= t.ssThresh
            /\ ~echo /\ t.congState # "CWR" => p = t
            /\ echo => p.congState = "CWR"
<1>0. t \in Tcb /\ t.ssThresh \in Nat /\ t.congState \in States
  BY DEF Good, Tcb
<1> DEFINE u == IF t.congState = "CWR" /\ passed THEN LeaveCwr(t) ELSE t
<1>1. Good(u) /\ u.ssThresh = t.ssThresh
  <2>1. CASE t.congState = "CWR" /\ passed
    <3>1. u = [t EXCEPT !.congState = "OPEN", !.cWnd = t.ssThresh]
      BY <2>1 DEF LeaveCwr
    <3> HIDE DEF u
    <3>2. "OPEN" \in States /\ t.ssThresh >= SegmentSize
      BY <1>0, Constants DEF States, Good
    <3> QED
      BY <1>0, <3>1, <3>2 DEF Good, Own, Tcb, Samples
  <2>2. CASE ~(t.congState = "CWR" /\ passed)
    BY <2>2
  <2> QED
    BY <2>1, <2>2
<1>2. ~echo /\ t.congState # "CWR" => BeforeAck(t, passed, echo, w) = t
  BY DEF BeforeAck
<1>3. CASE echo /\ u.congState # "CWR"
  <2>1. BeforeAck(t, passed, echo, w) = EnterCwr(u, w)
    BY <1>3 DEF BeforeAck
  <2> HIDE DEF u
  <2> QED
    BY <1>1, <1>2, <1>3, <2>1, EnterCwrFacts
<1>4. CASE ~(echo /\ u.congState # "CWR")
  <2>1. BeforeAck(t, passed, echo, w) = u
    BY <1>4 DEF BeforeAck
  <2> HIDE DEF u
  <2> QED
    BY <1>0, <1>1, <1>2, <1>4, <2>1
<1> QED
  BY <1>3, <1>4

\* What an acknowledgement's handling p of t keeps.
AckKept(t, p, dup, covers) ==
  /\ Good(p)
  /\ p.congState # "OPEN" => p.ssThresh <= t.ssThresh
  /\ On(t) => On(p)
  /\ t.congState # "CWR" => p.congState # "CWR"
  /\ t.congState = "OPEN" =>
       /\ t.mode = "AGGRESSIVE" => p.cWnd >= t.cWnd
       /\ t.cWnd >= t.ssThresh =>
            /\ p.cWnd <= t.cWnd + SegmentSize
            /\ p.cWnd > t.cWnd - 2 * SegmentSize
  /\ dup /\ t.congState = "DISORDER" => p.congState # "OPEN"
  /\ ~covers /\ t.congState = "RECOVERY" => p.congState # "OPEN"

\* What ProcessAck does in each congestion state.
LEMMA AfterAckFacts ==
  ASSUME NEW t, Good(t), NEW dup \in BOOLEAN, NEW counted \in BOOLEAN,
         NEW covers \in BOOLEAN, NEW n \in Int, NEW rtt \in Rtts \cup {0},
         NEW ack \in Seqs, NEW seq \in Seqs, NEW w \in Nat
  PROVE  AckKept(t, AfterAck(t, dup, counted, covers, n, rtt, ack, seq, w),
                 dup, covers)
<1> DEFINE p == AfterAck(t, dup, counted, covers, n, rtt, ack, seq, w)
           k == PktsAcked(t, rtt)
           s == CongestionStateSet(k, "OPEN", seq)
<1> SUFFICES
      /\ Good(p)
      /\ p.congState # "OPEN" => p.ssThresh <= t.ssThresh
      /\ On(t) => On(p)
      /\ t.congState # "CWR" => p.congState # "CWR"
      /\ t.congState = "OPEN" =>
           /\ t.mode = "AGGRESSIVE" => p.cWnd >= t.cWnd
           /\ t.cWnd >= t.ssThresh =>
                /\ p.cWnd <= t.cWnd + SegmentSize
                /\ p.cWnd > t.cWnd - 2 * SegmentSize
      /\ dup /\ t.congState = "DISORDER" => p.congState # "OPEN"
      /\ ~covers /\ t.congState = "RECOVERY" => p.congState # "OPEN"
  BY DEF AckKept
<1>0. /\ t \in Tcb /\ Samples(t) /\ t.ssThresh \in Nat /\ t.cWnd \in Nat
      /\ t.congState \in States /\ t.ssThresh >= 2 * SegmentSize
      /\ Own(t) => t.cWnd >= SegmentSize
      /\ t.congState \in {"DISORDER", "RECOVERY", "LOSS"} => ~t.doing
      /\ "OPEN" \in States /\ SegmentSize \in Nat /\ SegmentSize >= 1
  BY Constants DEF Good, Tcb, States
<1>1. /\ k \in Tcb /\ Samples(k)
      /\ k.congState = t.congState /\ k.cWnd = t.cWnd
      /\ k.ssThresh = t.ssThresh /\ k.doing = t.doing
      /\ t.mode = "AGGRESSIVE" => k.mode = "AGGRESSIVE"
  BY <1>0, PktsAckedFacts
<1> HIDE DEF k
<1>2. /\ s \in Tcb /\ Samples(s) /\ s.congState = "OPEN"
      /\ s.cWnd = t.cWnd /\ s.ssThresh = t.ssThresh /\ s.doing = TRUE
  BY <1>0, <1>1, OpenFacts
<1> HIDE DEF s
<1>3. CASE t.congState = "OPEN"
  <2>1. p = IncreaseWindow(k, n, ack, seq)
    BY <1>3 DEF AfterAck, OpenAck, k
  <2> HIDE DEF p
  <2>2. k.cWnd >= SegmentSize
    BY <1>0, <1>1, <1>3 DEF Own
  <2>3. /\ p \in Tcb /\ Samples(p)
        /\ p.congState = "OPEN" /\ p.doing = k.doing
        /\ p.ssThresh >= 2 * SegmentSize /\ p.cWnd >= SegmentSize
        /\ k.mode = "AGGRESSIVE" => p.cWnd >= k.cWnd
        /\ k.cWnd >= k.ssThresh =>
             /\ p.cWnd <= k.cWnd + SegmentSize
             /\ p.cWnd > k.cWnd - 2 * SegmentSize
    BY <1>0, <1>1, <1>3, <2>1, <2>2, IncreaseFacts
  <2> QED
    BY <1>1, <1>3, <2>3 DEF Good, Own, On, p
<1>4. CASE t.congState = "DISORDER"
  <2> DEFINE u == IF counted THEN k ELSE t
             v == CongestionStateSet(u, "OPEN", seq)
  <2>1. p = IF dup THEN u ELSE IncreaseWindow(v, n, ack, seq)
    BY <1>4 DEF AfterAck, DisorderAck, k
  <2>2. /\ u \in Tcb /\ Samples(u)
        /\ u.congState = t.congState /\ u.cWnd = t.cWnd
        /\ u.ssThresh = t.ssThresh /\ u.doing = t.doing
    BY <1>0, <1>1
  <2> HIDE DEF u
  <2>3. /\ v \in Tcb /\ Samples(v) /\ v.congState = "OPEN"
        /\ v.cWnd = t.cWnd /\ v.ssThresh = t.ssThresh /\ v.doing = TRUE
    BY <1>0, <2>2, OpenFacts
  <2> HIDE DEF v
  <2>4. t.cWnd >= SegmentSize
    BY <1>0, <1>4 DEF Own
  <2>5. CASE dup
    <3>1. p = u
      BY <2>1, <2>5
    <3> HIDE DEF p
    <3> QED
      BY <1>0, <1>4, <2>2, <2>4, <3>1 DEF Good, Own, On, p
  <2>6. CASE ~dup
    <3>1. p = IncreaseWindow(v, n, ack, seq)
      BY <2>1, <2>6
    <3> HIDE DEF p
    <3>2. /\ p \in Tcb /\ Samples(p)
          /\ p.congState = "OPEN" /\ p.doing = TRUE
          /\ p.ssThresh >= 2 * SegmentSize /\ p.cWnd >= SegmentSize
      BY <1>0, <2>3, <2>4, <3>1, IncreaseFacts
    <3> QED
      BY <1>4, <2>6, <3>2 DEF Good, Own, On, p
  <2> QED
    BY <2>5, <2>6
<1>5. CASE t.congState = "CWR"
  <2>1. p = IF n >= 1 THEN Recovered(k, w) ELSE k
    BY <1>5 DEF AfterAck, CwrAck, k
  <2> HIDE DEF p
  <2>2. /\ p \in Tcb /\ Samples(p) /\ p.ssThresh = t.ssThresh
        /\ p.congState = "CWR" /\ p.doing = t.doing
    BY <1>1, <1>5, <2>1, RecoveredFacts
  <2> QED
    BY <1>0, <1>5, <2>2 DEF Good, Own, On, p
<1>6. CASE t.congState = "RECOVERY" /\ ~covers
  <2> DEFINE u == IF n >= 1 THEN Recovered(t, w) ELSE t
  <2>1. p = PktsAcked(u, rtt)
    BY <1>6 DEF AfterAck, PartialAck
  <2> HIDE DEF p
  <2>2. /\ u \in Tcb /\ Samples(u) /\ u.ssThresh = t.ssThresh
        /\ u.congState = "RECOVERY" /\ u.doing = t.doing
    BY <1>0, <1>6, RecoveredFacts
  <2> HIDE DEF u
  <2>3. /\ p \in Tcb /\ Samples(p) /\ p.ssThresh = t.ssThresh
        /\ p.congState = "RECOVERY" /\ p.doing = t.doing
    BY <2>1, <2>2, PktsAckedFacts
  <2> QED
    BY <1>0, <1>6, <2>3 DEF Good, Own, On, p
<1>7. CASE t.congState = "RECOVERY" /\ covers
  <2> DEFINE u == [s EXCEPT !.cWnd = s.ssThresh]
  <2>1. p = IncreaseWindow(u, n, ack, seq)
    BY <1>7 DEF AfterAck, EndRecoveryAck, s, k
  <2> HIDE DEF p
  <2>2. /\ u \in Tcb /\ Samples(u) /\ u.congState = "OPEN"
        /\ u.doing = TRUE /\ u.ssThresh = t.ssThresh
        /\ u.cWnd = t.ssThresh
    BY <1>0, <1>2 DEF Tcb, Samples
  <2> HIDE DEF u
  <2>3. u.cWnd >= SegmentSize
    BY <1>0, <2>2
  <2>4. /\ p \in Tcb /\ Samples(p)
        /\ p.congState = "OPEN" /\ p.doing = TRUE
        /\ p.ssThresh >= 2 * SegmentSize /\ p.cWnd >= SegmentSize
    BY <1>0, <2>1, <2>2, <2>3, IncreaseFacts
  <2> QED
    BY <1>7, <2>4 DEF Good, Own, On, p
<1>8. CASE t.congState = "LOSS" /\ ~covers
  <2>1. p = IncreaseWindow(k, n, ack, seq)
    BY <1>8 DEF AfterAck, LossAck, k
  <2> HIDE DEF p
  <2>2. k.cWnd >= SegmentSize /\ ~k.doing
    BY <1>0, <1>1, <1>8 DEF Own
  <2>3. /\ p \in Tcb /\ Samples(p)
        /\ p.congState = "LOSS" /\ p.doing = k.doing
        /\ p.ssThresh >= 2 * SegmentSize /\ p.cWnd >= SegmentSize
        /\ p.ssThresh = t.ssThresh
    BY <1>0, <1>1, <1>8, <2>1, <2>2, IncreaseFacts
  <2> QED
    BY <1>0, <1>1, <1>8, <2>2, <2>3 DEF Good, Own, On, p
<1>9. CASE t.congState = "LOSS" /\ covers
  <2>1. p = IncreaseWindow(s, n, ack, seq)
    BY <1>9 DEF AfterAck, EndLossAck, s, k
  <2> HIDE DEF p
  <2>2. s.cWnd >= SegmentSize
    BY <1>0, <1>2, <1>9 DEF Own
  <2>3. /\ p \in Tcb /\ Samples(p)
        /\ p.congState = "OPEN" /\ p.doing = TRUE
        /\ p.ssThresh >= 2 * SegmentSize /\ p.cWnd >= SegmentSize
    BY <1>0, <1>2, <2>1, <2>2, IncreaseFacts
  <2> QED
    BY <1>9, <2>3 DEF Good, Own, On, p
<1> QED
  BY <1>0, <1>3, <1>4, <1>5, <1>6, <1>7, <1>8, <1>9 DEF States

-----------------------------------------------------------------------------
(* Steps of the sender.                                                    *)

\* A retransmission timeout.
LEMMA TimeoutFacts ==
  ASSUME Good(tcb), NEW again \in BOOLEAN, ReTxTimeout(again)
  PROVE  /\ Good(tcb') /\ tcb'.congState = "LOSS"
         /\ tcb'.ssThresh <= tcb.ssThresh
<1> DEFINE t == IF again THEN tcb ELSE Lower(tcb)
           s == CongestionStateSet(t, "LOSS", 0)
<1>1. /\ t \in Tcb /\ Samples(t) /\ t.ssThresh >= 2 * SegmentSize
      /\ t.ssThresh <= tcb.ssThresh
  BY LowerFacts DEF Good, Tcb
<1>2. tcb' = [s EXCEPT !.cWnd = SegmentSize, !.vCount = 0,
                       !.mode = "MODERATE"]
  BY DEF ReTxTimeout
<1> HIDE DEF t
<1>3. "LOSS" \in States \ {"OPEN"}
  BY DEF States
<1>4. /\ s \in Tcb /\ Samples(s) /\ s.congState = "LOSS"
      /\ s.ssThresh = t.ssThresh /\ s.doing = FALSE
  BY <1>1, <1>3, CongestedFacts
<1> HIDE DEF s
<1>5. tcb' \in Tcb
  BY <1>2, <1>4, Constants DEF Tcb
<1>6. /\ tcb'.congState = "LOSS" /\ tcb'.cWnd = SegmentSize
      /\ tcb'.ssThresh = t.ssThresh /\ tcb'.doing = FALSE
      /\ Samples(tcb')
  BY <1>2, <1>4 DEF Tcb, Samples
<1> QED
  BY <1>1, <1>5, <1>6, Constants DEF Good, Own

\* An acknowledgement of nothing new.
LEMMA OldAckFacts ==
  ASSUME Good(tcb), NEW dup \in BOOLEAN, NEW lost \in BOOLEAN, NEW w \in Nat,
         NEW rtt \in Rtts \cup {0}, OldAck(dup, lost, w, rtt)
  PROVE  /\ Good(tcb') /\ tcb'.ssThresh <= tcb.ssThresh
         /\ On(tcb) => On(tcb')
         /\ tcb.congState # "CWR" => tcb'.congState # "CWR"
         /\ tcb.congState = "OPEN" /\ tcb'.congState = "OPEN" =>
              tcb'.cWnd = tcb.cWnd
<1> DEFINE u == IF dup THEN DupAck(tcb, lost, w) ELSE tcb
<1>0. tcb \in Tcb /\ tcb.ssThresh \in Nat /\ tcb.congState \in States
  BY DEF Good, Tcb
<1>1. /\ Good(u) /\ u.ssThresh <= tcb.ssThresh
      /\ u.congState = "OPEN" =>
           /\ tcb.congState = "OPEN" /\ u.cWnd = tcb.cWnd
           /\ u.doing = tcb.doing
      /\ tcb.congState # "CWR" => u.congState # "CWR"
  BY <1>0, DupAckFacts DEF States
<1>2. tcb' = PktsAcked(u, rtt)
  BY DEF OldAck
<1> HIDE DEF u
<1>3. u \in Tcb /\ Samples(u)
  BY <1>1 DEF Good
<1>4. /\ tcb' \in Tcb /\ Samples(tcb')
      /\ tcb'.congState = u.congState /\ tcb'.cWnd = u.cWnd
      /\ tcb'.ssThresh = u.ssThresh /\ tcb'.doing = u.doing
  BY <1>2, <1>3, PktsAckedFacts
<1> QED
  BY <1>1, <1>4 DEF Good, Own, On

\* An acknowledgement handled in CWR leaves the state alone.
LEMMA CwrStays ==
  ASSUME NEW t \in Tcb, Samples(t), t.congState = "CWR", NEW dup, NEW counted,
         NEW covers, NEW n \in Int, NEW rtt \in Rtts \cup {0}, NEW ack,
         NEW seq, NEW w \in Nat
  PROVE  AfterAck(t, dup, counted, covers, n, rtt, ack, seq, w).congState
           = "CWR"
<1> DEFINE k == PktsAcked(t, rtt)
<1>1. k \in Tcb /\ Samples(k) /\ k.congState = "CWR"
  BY PktsAckedFacts
<1>2. AfterAck(t, dup, counted, covers, n, rtt, ack, seq, w) =
        IF n >= 1 THEN Recovered(k, w) ELSE k
  BY DEF AfterAck, CwrAck
<1> HIDE DEF k
<1> QED
  BY <1>1, <1>2, RecoveredFacts

\* What one step keeps; echo: does it carry a congestion echo?
StepKept(echo) ==
  /\ Good(tcb')
  /\ tcb'.congState # "OPEN" /\ ~RepeatedSyn =>
       tcb'.ssThresh <= tcb.ssThresh
  /\ ~echo /\ tcb.congState # "CWR" =>
       /\ On(tcb) => On(tcb')
       /\ tcb'.congState # "CWR"
  /\ tcb.congState = "OPEN" /\ tcb'.congState = "OPEN" /\ ~RepeatedSyn =>
       /\ tcb.mode = "AGGRESSIVE" => tcb'.cWnd >= tcb.cWnd
       /\ tcb.cWnd >= tcb.ssThresh =>
            /\ tcb'.cWnd <= tcb.cWnd + SegmentSize
            /\ tcb'.cWnd > tcb.cWnd - 2 * SegmentSize

\* An acknowledgement of something new.
LEMMA NewAckFacts ==
  ASSUME Good(tcb), NEW echo \in BOOLEAN, NEW passed \in BOOLEAN,
         NEW dup \in BOOLEAN, NEW lost \in BOOLEAN, NEW counted \in BOOLEAN,
         NEW n \in Int, NEW rtt \in Rtts \cup {0}, NEW ack \in Seqs,
         NEW seq \in Seqs, NEW w \in Nat,
         NewAck(echo, passed, dup, lost, counted, n, rtt, ack, seq, w)
  PROVE  StepKept(echo)
<1> DEFINE t == BeforeAck(tcb, passed, echo, w)
           u == IF dup THEN DupAck(t, lost, w) ELSE t
           c == passed /\ (u.congState = "RECOVERY" => t.congState = "RECOVERY")
<1>1. tcb' = AfterAck(u, dup, counted, c, n, rtt, ack, seq, w)
  BY DEF NewAck
<1>2. /\ Good(t) /\ t.ssThresh <= tcb.ssThresh
      /\ ~echo /\ tcb.congState # "CWR" => t = tcb
      /\ echo => t.congState = "CWR"
  BY BeforeAckFacts
<1>b. c \in BOOLEAN
  OBVIOUS
<1>d. u.congState = "RECOVERY" /\ t.congState # "RECOVERY" => ~c
  OBVIOUS
<1> HIDE DEF t, c
<1>n. tcb \in Tcb /\ t \in Tcb
      /\ tcb.ssThresh \in Nat /\ t.ssThresh \in Nat /\ t.congState \in States
  BY <1>2 DEF Good, Tcb
<1>3. /\ Good(u) /\ u.ssThresh <= t.ssThresh
      /\ u.congState = "OPEN" => u = t
      /\ t.congState # "CWR" => u.congState # "CWR"
      /\ t.congState = "CWR" => u.congState = "CWR"
      /\ t.congState = "OPEN" =>
           \/ u = t
           \/ u.congState = "DISORDER" /\ dup
           \/ u.congState = "RECOVERY" /\ ~c
      /\ On(t) => On(u)
  <2>1. CASE dup
    <3>1. /\ Good(u) /\ u.ssThresh <= t.ssThresh
          /\ t.congState \in {"OPEN", "DISORDER"} =>
               u.congState \in {"DISORDER", "RECOVERY"}
          /\ t.congState \notin {"OPEN", "DISORDER"} =>
               u.congState = t.congState /\ u.doing = t.doing
      BY <1>2, <2>1, DupAckFacts
    <3>2. CASE t.congState = "OPEN"
      <4>1. CASE u.congState = "RECOVERY"
        BY <1>d, <3>1, <3>2, <4>1 DEF On
      <4>2. CASE u.congState = "DISORDER"
        BY <2>1, <3>1, <3>2, <4>2 DEF On
      <4> QED
        BY <3>1, <3>2, <4>1, <4>2
    <3>3. CASE t.congState = "DISORDER"
      BY <3>1, <3>3 DEF On
    <3>4. CASE t.congState = "CWR" \/ t.congState = "LOSS"
               \/ t.congState = "RECOVERY"
      BY <3>1, <3>4 DEF On
    <3> QED
      BY <1>n, <3>2, <3>3, <3>4 DEF States
  <2>2. CASE ~dup
    <3>1. u = t
      BY <2>2
    <3> HIDE DEF u
    <3> QED
      BY <1>2, <1>n, <3>1
  <2> QED
    BY <2>1, <2>2
<1> HIDE DEF u
<1>3g. Good(u)
  BY <1>3
<1>a. AckKept(u, AfterAck(u, dup, counted, c, n, rtt, ack, seq, w), dup, c)
  BY <1>3g, <1>b, AfterAckFacts
<1>t. AckKept(u, tcb', dup, c)
  BY <1>a, <1>1
<1>4. /\ Good(tcb')
      /\ tcb'.congState # "OPEN" => tcb'.ssThresh <= u.ssThresh
      /\ On(u) => On(tcb')
      /\ u.congState # "CWR" => tcb'.congState # "CWR"
      /\ u.congState = "OPEN" =>
           /\ u.mode = "AGGRESSIVE" => tcb'.cWnd >= u.cWnd
           /\ u.cWnd >= u.ssThresh =>
                /\ tcb'.cWnd <= u.cWnd + SegmentSize
                /\ tcb'.cWnd > u.cWnd - 2 * SegmentSize
      /\ dup /\ u.congState = "DISORDER" => tcb'.congState # "OPEN"
      /\ ~c /\ u.congState = "RECOVERY" => tcb'.congState # "OPEN"
  BY <1>t DEF AckKept
<1>5. tcb' \in Tcb /\ tcb'.ssThresh \in Nat /\ u.ssThresh \in Nat
  BY <1>3, <1>4 DEF Good, Tcb
<1>6. tcb'.congState # "OPEN" => tcb'.ssThresh <= tcb.ssThresh
  BY <1>2, <1>3, <1>4, <1>5, <1>n
<1>7. ~echo /\ tcb.congState # "CWR" =>
        (On(tcb) => On(tcb')) /\ tcb'.congState # "CWR"
  BY <1>2, <1>3, <1>4
<1>8. ASSUME tcb.congState = "OPEN", tcb'.congState = "OPEN"
      PROVE  u = tcb
  <2>1. ~echo
    <3> SUFFICES ASSUME echo PROVE FALSE
      OBVIOUS
    <3>1. u.congState = "CWR"
      BY <1>2, <1>3
    <3>2. tcb'.congState = "CWR"
      BY <1>1, <3>1, <1>3, CwrStays DEF Good
    <3> QED
      BY <1>8, <3>2
  <2>2. t = tcb
    BY <1>2, <1>8, <2>1
  <2> QED
    BY <1>3, <1>4, <1>8, <2>2
<1> QED
  BY <1>4, <1>6, <1>7, <1>8 DEF StepKept

\* Setting window and threshold to their initial values.
LEMMA InitialWindowFacts ==
  ASSUME NEW t \in Tcb
  PROVE  LET p == InitialWindow(t)
         IN /\ p \in Tcb
            /\ p.cWnd >= SegmentSize /\ p.ssThresh >= 2 * SegmentSize
            /\ p.congState = t.congState /\ p.doing = t.doing
            /\ Samples(t) => Samples(p)
<1> DEFINE w == InitialCwnd * SegmentSize
<1>1. /\ SegmentSize \in Nat /\ InitialCwnd \in Nat /\ InitialCwnd >= 1
      /\ InitialSsThresh \in Nat /\ InitialSsThresh >= 2 * SegmentSize
  BY VegasAssumption
<1>2. w \in Nat /\ w >= SegmentSize
  BY <1>1
<1>3. InitialWindow(t) = [t EXCEPT !.cWnd = w, !.ssThresh = InitialSsThresh]
  BY DEF InitialWindow
<1> HIDE DEF w
<1> QED
  BY <1>1, <1>2, <1>3 DEF Tcb, Samples

\* A SYN or SYN+ACK that comes again.
LEMMA SynFacts ==
  ASSUME Good(tcb), RepeatedSyn
  PROVE  StepKept(Ecn)
<1>1. /\ tcb' \in Tcb /\ Samples(tcb')
      /\ tcb'.cWnd >= SegmentSize /\ tcb'.ssThresh >= 2 * SegmentSize
      /\ tcb'.congState = tcb.congState /\ tcb'.doing = tcb.doing
  BY InitialWindowFacts DEF Good, RepeatedSyn
<1> QED
  BY <1>1 DEF StepKept, Good, On

\* What one step of the sender keeps.
LEMMA StepFacts ==
  ASSUME Good(tcb), [Next]_tcb
  PROVE  StepKept(Ecn)
<1>0. /\ tcb.ssThresh \in Nat /\ tcb.cWnd \in Nat
      /\ SegmentSize \in Nat /\ SegmentSize >= 1
  BY Constants DEF Good, Tcb
<1>w. \A b : \A w \in WindowsOf(b) : w \in Nat
  BY VegasAssumption DEF WindowsOf
<1>a. Acked \subseteq Int
  BY VegasAssumption DEF Acked
<1>e. Ecn \in BOOLEAN
  BY VegasAssumption
<1>1. ASSUME UNCHANGED tcb
      PROVE  StepKept(Ecn)
  BY <1>0, <1>1 DEF StepKept
<1>2. ASSUME NEW again \in BOOLEAN, ReTxTimeout(again)
      PROVE  StepKept(Ecn)
  <2>1. /\ Good(tcb') /\ tcb'.congState = "LOSS"
        /\ tcb'.ssThresh <= tcb.ssThresh
        /\ On(tcb')
    BY <1>2, TimeoutFacts DEF On
  <2> QED
    BY <2>1 DEF StepKept
<1>3. ASSUME NEW dup \in BOOLEAN, NEW rtt \in Rtts \cup {0},
             NEW lost \in {FALSE, dup},
             NEW w \in WindowsOf(lost \/ Recovering),
             OldAck(dup, lost, w, rtt)
      PROVE  StepKept(Ecn)
  <2>1. w \in Nat /\ lost \in BOOLEAN
    BY <1>w
  <2>2. /\ Good(tcb') /\ tcb'.ssThresh <= tcb.ssThresh
        /\ On(tcb) => On(tcb')
        /\ tcb.congState # "CWR" => tcb'.congState # "CWR"
        /\ tcb.congState = "OPEN" /\ tcb'.congState = "OPEN" =>
             tcb'.cWnd = tcb.cWnd
    BY <1>3, <2>1, OldAckFacts
  <2> QED
    BY <1>0, <2>2 DEF StepKept
<1>4. CASE \E dup \in BOOLEAN, rtt \in Rtts \cup {0} :
             \E lost \in {FALSE, dup} :
               \E w \in WindowsOf(lost \/ Recovering) :
                 OldAck(dup, lost, w, rtt) /\ Bounded
  BY <1>3, <1>4
<1>5. CASE \E echo \in {FALSE, Ecn}, passed \in {FALSE, tcb.congState # "OPEN"},
          counted \in {FALSE, tcb.congState = "DISORDER"}, dup \in BOOLEAN,
          n \in Acked, rtt \in Rtts \cup {0}, ack, nextTx \in Seqs :
         \E lost \in {FALSE, dup} :
           \E w \in WindowsOf(lost \/ echo \/ Recovering) :
             /\ NewAck(echo, passed, dup, lost, counted, n, rtt, ack, nextTx, w)
             /\ Bounded
  <2>1. PICK echo \in {FALSE, Ecn}, passed \in {FALSE, tcb.congState # "OPEN"},
             counted \in {FALSE, tcb.congState = "DISORDER"}, dup \in BOOLEAN,
             n \in Acked, rtt \in Rtts \cup {0}, ack \in Seqs, nextTx \in Seqs :
          \E lost \in {FALSE, dup} :
            \E w \in WindowsOf(lost \/ echo \/ Recovering) :
              /\ NewAck(echo, passed, dup, lost, counted, n, rtt, ack, nextTx, w)
              /\ Bounded
    BY <1>5, Zenon
  <2>2. PICK lost \in {FALSE, dup} :
          \E w \in WindowsOf(lost \/ echo \/ Recovering) :
            /\ NewAck(echo, passed, dup, lost, counted, n, rtt, ack, nextTx, w)
            /\ Bounded
    BY <2>1, Zenon
  <2>3. PICK w \in WindowsOf(lost \/ echo \/ Recovering) :
          NewAck(echo, passed, dup, lost, counted, n, rtt, ack, nextTx, w)
    BY <2>2, Zenon
  <2>4. /\ echo \in BOOLEAN /\ passed \in BOOLEAN /\ counted \in BOOLEAN
        /\ lost \in BOOLEAN /\ n \in Int /\ w \in Nat
    BY <1>w, <1>a, <1>e
  <2>5. ~Ecn => ~echo
    BY <1>e
  <2>6. StepKept(echo)
    BY <2>3, <2>4, NewAckFacts, SMTT(120) DEF StepKept
  <2> QED
    BY <2>5, <2>6 DEF StepKept
<1>6. CASE \E again \in BOOLEAN : ReTxTimeout(again)
  BY <1>2, <1>6
<1> QED
  BY <1>1, <1>4, <1>5, <1>6, SynFacts DEF Next

\* A new connection satisfies the invariant, with Vegas on in OPEN.
LEMMA InitialState == Init => Good(tcb) /\ On(tcb) /\ tcb.congState # "CWR"
<1> SUFFICES ASSUME Init PROVE Good(tcb) /\ On(tcb) /\ tcb.congState # "CWR"
  OBVIOUS
<1> DEFINE t(l) == [congState |-> "OPEN", cWnd |-> 0, ssThresh |-> 0,
                    vCount |-> 0, lastCwnd |-> l, lastRtt |-> 0,
                    mode |-> "MODERATE", baseRtt |-> TimeMax,
                    minRtt |-> TimeMax, cntRtt |-> 0, doing |-> TRUE,
                    begSndNxt |-> 0]
<1>1. PICK l \in Windows : tcb = InitialWindow(t(l))
  BY DEF Init
<1>2. /\ l \in Nat /\ TimeMax \in 1..TimeMax /\ 0 \in 0..3
      /\ "OPEN" \in States /\ 0 \in Seqs
  BY VegasAssumption DEF Windows, States
<1>3. t(l) \in Tcb /\ Samples(t(l))
  BY <1>2 DEF Tcb, Samples
<1>4. t(l).congState = "OPEN" /\ t(l).doing = TRUE
  OBVIOUS
<1> HIDE DEF t
<1> QED
  BY <1>1, <1>3, <1>4, InitialWindowFacts DEF Good, Own, On

\* The types of TcpSocketState's and TcpVegas's members, and the two
\* invariants of the window and the samples: the window never starves, the
\* threshold does not wrap and the assertion of the adjustment holds.
THEOREM WindowSafe == Spec => [](TypeOK /\ WindowOpen /\ SamplesInOrder)
<1>1. Init => Good(tcb)
  BY InitialState
<1>2. Good(tcb) /\ [Next]_tcb => Good(tcb)'
  BY StepFacts DEF StepKept
<1>3. Good(tcb) => TypeOK /\ WindowOpen /\ SamplesInOrder
  BY DEF Good, TypeOK, WindowOpen, SamplesInOrder, Samples, Own
<1> QED
  BY <1>1, <1>2, <1>3, PTL DEF Spec

\* Without congestion echoes Vegas is on in OPEN and off in the states that
\* lost something (tcp-vegas.h 106-111).
THEOREM VegasFollowsState ==
  ASSUME Ecn = FALSE PROVE Spec => []VegasWhenOpen
<1> DEFINE I == Good(tcb) /\ On(tcb) /\ tcb.congState # "CWR"
<1>1. Init => I
  BY InitialState
<1>2. I /\ [Next]_tcb => I'
  BY StepFacts DEF StepKept
<1>3. I => VegasWhenOpen
  BY DEF Good, On, VegasWhenOpen
<1> QED
  BY <1>1, <1>2, <1>3, PTL DEF Spec

\* Of the steps that end outside OPEN only a SYN that comes again raises the
\* threshold (tcp-vegas.cc 257-263, tcp-socket-base.cc 1168-1171).
THEOREM ThresholdNotRaised == Spec => CongestionLowers
<1>1. Init => Good(tcb)
  BY InitialState
<1>2. Good(tcb) /\ [Next]_tcb =>
        /\ Good(tcb)'
        /\ [(tcb'.congState # "OPEN" /\ tcb'.ssThresh > tcb.ssThresh)
              => RepeatedSyn]_tcb
  <2> SUFFICES ASSUME Good(tcb), [Next]_tcb
               PROVE  /\ Good(tcb)'
                      /\ (tcb'.congState # "OPEN" /\ tcb'.ssThresh > tcb.ssThresh)
                           => RepeatedSyn
    OBVIOUS
  <2>1. StepKept(Ecn) /\ tcb.ssThresh \in Nat /\ tcb'.ssThresh \in Nat
    BY StepFacts DEF StepKept, Good, Tcb
  <2> QED
    BY <2>1 DEF StepKept
<1> QED
  BY <1>1, <1>2, PTL DEF Spec, CongestionLowers

\* Unless a SYN comes again, an aggressive sender in OPEN never shrinks its
\* window, and a moderate one above the threshold moves it linearly.
THEOREM ModesBehave == Spec => AggressiveHolds /\ ModerateIsLinear
<1>1. Init => Good(tcb)
  BY InitialState
<1>2. Good(tcb) /\ [Next]_tcb =>
        /\ Good(tcb)'
        /\ [(/\ tcb.mode = "AGGRESSIVE" /\ ~RepeatedSyn
             /\ tcb.congState = "OPEN" /\ tcb'.congState = "OPEN")
              => tcb'.cWnd >= tcb.cWnd]_tcb
        /\ [(/\ tcb.mode = "MODERATE" /\ tcb.cWnd >= tcb.ssThresh
             /\ ~RepeatedSyn
             /\ tcb.congState = "OPEN" /\ tcb'.congState = "OPEN")
              => /\ tcb'.cWnd <= tcb.cWnd + SegmentSize
                 /\ tcb'.cWnd > tcb.cWnd - 2 * SegmentSize]_tcb
  BY StepFacts DEF StepKept
<1> QED
  BY <1>1, <1>2, PTL DEF Spec, AggressiveHolds, ModerateIsLinear

\* The members of TcpSocketState and TcpVegas hold what their types allow, with
\* the unsigned arithmetic of the code.
THEOREM TypeCorrect == Spec => []TypeOK
BY WindowSafe, PTL

\* The NS_ASSERT of the adjustment holds, and the minimum it divides by is a
\* sample, for any sequence of samples and states (tcp-vegas.cc 190-192).
THEOREM SamplesStayInOrder == Spec => []SamplesInOrder
BY WindowSafe, PTL
=============================================================================

------------------------------ MODULE TcpVegas ------------------------------
(***************************************************************************)
(* The congestion window of a TCP Vegas+ sender (tcp-vegas.cc) and the     *)
(* handlers of the socket that drive it (tcp-socket-base.cc): new and      *)
(* duplicate acknowledgements, the ECN echo, the retransmission timeout,   *)
(* and a SYN or SYN+ACK that is repeated when the connection is in use.    *)
(*                                                                         *)
(* Which acknowledgement arrives, how it compares with the recovery point  *)
(* and the RTT estimate that goes with it are inputs here.  The slow start *)
(* and congestion avoidance of NewReno and the recovery algorithm are      *)
(* ns-3's.  A window is in bytes, a time is a natural number.              *)
(***************************************************************************)
EXTENDS Integers

CONSTANTS
  SegmentSize,      \* m_segmentSize
  Modulus,          \* 2^32, where unsigned subtraction wraps
  InitialCwnd,      \* m_initialCWnd, in segments
  InitialSsThresh,  \* m_initialSsThresh
  Alpha, Beta, Gamma,
  VCountMax,        \* v_count_max
  Rtts,             \* RTT estimates; 0 means there is none yet
  TimeMax,          \* Time::Max()
  Seqs,             \* sequence numbers
  MaxAcked,         \* bound: segments acknowledged at once
  RecoveryWindows,  \* what the recovery algorithm may set
  MaxWindow,        \* bound: the largest window considered
  MaxCount,         \* bound: the largest v_count considered
  Ecn               \* does the peer echo congestion marks?

ASSUME VegasAssumption ==
  /\ SegmentSize \in Nat \ {0} /\ MaxWindow \in Nat /\ Modulus \in Nat
  /\ InitialCwnd \in Nat \ {0} /\ InitialCwnd * SegmentSize <= MaxWindow
  /\ InitialSsThresh \in Nat /\ InitialSsThresh < Modulus
  /\ 2 * SegmentSize <= InitialSsThresh /\ 3 * MaxWindow < Modulus
  /\ Alpha \in Nat /\ Beta \in Nat \ {0} /\ Gamma \in Nat
  /\ VCountMax \in Nat /\ MaxCount \in Nat /\ MaxAcked \in Nat
  /\ TimeMax \in Nat \ {0} /\ Rtts \subseteq 0 .. TimeMax - 1
  /\ Seqs \subseteq Nat /\ 0 \in Seqs
  /\ RecoveryWindows \subseteq Nat
  /\ Ecn \in BOOLEAN

VARIABLE tcb   \* TcpSocketState, with the members of its TcpVegas object

States == {"OPEN", "DISORDER", "CWR", "RECOVERY", "LOSS"}
Windows == 0..MaxWindow
Acked == 0..MaxAcked

Tcb == [
  congState : States,
  cWnd      : Nat,
  ssThresh  : Nat,
  vCount    : Nat,
  lastCwnd  : Nat,
  lastRtt   : Rtts \cup {0},
  mode      : {"MODERATE", "AGGRESSIVE"},
  baseRtt   : 1..TimeMax,
  minRtt    : 1..TimeMax,
  cntRtt    : 0..3,        \* 3 stands for "more than two"
  doing     : BOOLEAN,     \* m_doingVegasNow
  begSndNxt : Seqs]

TypeOK == tcb \in Tcb

Larger(a, b) == IF a >= b THEN a ELSE b
Smaller(a, b) == IF a <= b THEN a ELSE b

\* DoForwardUp sets the window and the threshold on every SYN.
InitialWindow(t) ==
  [t EXCEPT !.cWnd = InitialCwnd * SegmentSize, !.ssThresh = InitialSsThresh]

\* After the handshake.  lastCwnd has no initializer.
Init == \E l \in Windows :
  tcb = InitialWindow(
    [congState |-> "OPEN", cWnd |-> 0, ssThresh |-> 0,
     vCount |-> 0, lastCwnd |-> l, lastRtt |-> 0, mode |-> "MODERATE",
     baseRtt |-> TimeMax, minRtt |-> TimeMax, cntRtt |-> 0,
     doing |-> TRUE, begSndNxt |-> 0])

-----------------------------------------------------------------------------
(* tcp-vegas.cc.  An operator maps the state before a call to the one      *)
(* after it.                                                               *)

\* Mutant of CountRtt: the counter has no floor.
CountRttUnbounded(t, rtt) ==
  IF rtt < t.lastRtt THEN [t EXCEPT !.vCount = @ - 1] ELSE t

\* The additional mode switching: RTT rising under an unchanged window.
CountRtt(t, rtt) ==
  IF rtt > t.lastRtt /\ t.lastCwnd = t.cWnd
  THEN [t EXCEPT !.vCount = @ + 1,
                 !.mode = IF t.vCount + 1 > VCountMax THEN "AGGRESSIVE" ELSE @]
  ELSE IF rtt < t.lastRtt
  THEN [t EXCEPT !.vCount = Larger(@ - 1, 0)]
  ELSE t

PktsAcked(t, rtt) ==
  IF rtt = 0 THEN t
  ELSE [CountRtt(t, rtt) EXCEPT
          !.minRtt = Smaller(@, rtt),
          !.baseRtt = Smaller(@, rtt),
          !.cntRtt = Smaller(@ + 1, 3),
          !.lastRtt = rtt,
          !.lastCwnd = t.cWnd]

\* Mutant of EnableVegas: the samples of the last cycle still count.
EnableVegasKeepsCount(t, nextTx) ==
  [t EXCEPT !.doing = TRUE, !.begSndNxt = nextTx, !.minRtt = TimeMax]

EnableVegas(t, nextTx) ==
  [t EXCEPT !.doing = TRUE, !.begSndNxt = nextTx,
            !.cntRtt = 0, !.minRtt = TimeMax]

DisableVegas(t) == [t EXCEPT !.doing = FALSE]

CongestionStateSet(t, state, nextTx) ==
  [(IF state = "OPEN" THEN EnableVegas(t, nextTx) ELSE DisableVegas(t))
     EXCEPT !.congState = state]

\* Mutant of GetSsThresh: no floor of two segments.
GetSsThreshNoFloor(t) == Smaller(t.ssThresh, (t.cWnd - SegmentSize) % Modulus)

\* Mutant of GetSsThresh: not capped by the old threshold.
GetSsThreshUncapped(t) ==
  Larger((t.cWnd - SegmentSize) % Modulus, 2 * SegmentSize)

\* Unsigned arithmetic: a window below one segment wraps around.
GetSsThresh(t) ==
  Larger(Smaller(t.ssThresh, (t.cWnd - SegmentSize) % Modulus),
         2 * SegmentSize)

\* TcpNewReno (ns-3).
SlowStart(t, n) == IF n >= 1 THEN [t EXCEPT !.cWnd = @ + SegmentSize] ELSE t

CongestionAvoidance(t, n) ==
  IF n >= 1
  THEN [t EXCEPT !.cWnd = @ + Larger(1, (SegmentSize * SegmentSize) \div @)]
  ELSE t

NewReno(t, n) ==
  IF t.cWnd >= t.ssThresh THEN CongestionAvoidance(t, n)
  ELSE LET s == SlowStart(t, n)
       IN IF s.cWnd >= s.ssThresh THEN CongestionAvoidance(s, n - 1) ELSE s

SegCwnd(t) == t.cWnd \div SegmentSize
TargetCwnd(t) == (SegCwnd(t) * t.baseRtt) \div t.minRtt
Diff(t) == SegCwnd(t) - TargetCwnd(t)

Resize(t, segments) == [t EXCEPT !.cWnd = segments * SegmentSize]
Lower(t) == [t EXCEPT !.ssThresh = GetSsThresh(t)]

\* Mutant of Adjust: the window shrinks by two segments.
AdjustByTwo(t, n) ==
  IF t.cWnd < t.ssThresh THEN SlowStart(t, n)
  ELSE IF Diff(t) > Beta THEN Lower(Resize(t, SegCwnd(t) - 2))
  ELSE t

\* The once-per-RTT adjustment.
Adjust(t, n) ==
  IF t.cWnd < t.ssThresh
  THEN IF Diff(t) > Gamma
       THEN Lower(Resize(t, Smaller(SegCwnd(t), TargetCwnd(t) + 1)))
       ELSE SlowStart(t, n)
  ELSE IF Diff(t) > Beta THEN Lower(Resize(t, SegCwnd(t) - 1))
  ELSE IF Diff(t) < Alpha THEN Resize(t, SegCwnd(t) + 1)
  ELSE t

RaiseSsThresh(t) ==
  [t EXCEPT !.ssThresh = Larger(@, (3 * t.cWnd) \div 4)]

\* A cycle ends when what was sent at its beginning is acknowledged; with two
\* samples or fewer it ends without an adjustment.
EndCycle(t, n, nextTx) ==
  [(IF t.cntRtt <= 2 THEN NewReno(t, n) ELSE RaiseSsThresh(Adjust(t, n)))
     EXCEPT !.begSndNxt = nextTx, !.cntRtt = 0, !.minRtt = TimeMax]

IncreaseWindow(t, n, ack, nextTx) ==
  IF ~t.doing \/ t.mode = "AGGRESSIVE" THEN NewReno(t, n)
  ELSE IF ack >= t.begSndNxt THEN EndCycle(t, n, nextTx)
  ELSE IF t.cWnd < t.ssThresh THEN SlowStart(t, n)
  ELSE t

-----------------------------------------------------------------------------
(* tcp-socket-base.cc.                                                     *)

\* The recovery algorithm of ns-3 (EnterRecovery, DoRecovery) may set any
\* window.
Recovered(t, w) == [t EXCEPT !.cWnd = w]

EnterCwr(t, w) == Recovered([Lower(t) EXCEPT !.congState = "CWR"], w)

EnterRecovery(t, w) ==
  LET u == [t EXCEPT !.vCount = @ \div 2, !.mode = "MODERATE"]
  IN Recovered(Lower(CongestionStateSet(u, "RECOVERY", 0)), w)

\* DupAck: lost is the scoreboard's verdict that recovery has to start.
DupAck(t, lost, w) ==
  CASE t.congState \in {"OPEN", "DISORDER"} /\ lost ->
         EnterRecovery(CongestionStateSet(t, "DISORDER", 0), w)
    [] t.congState \in {"OPEN", "DISORDER"} /\ ~lost ->
         CongestionStateSet(t, "DISORDER", 0)
    [] t.congState = "RECOVERY" -> Recovered(t, w)
    [] OTHER -> t

\* ReceivedAck: the end of CWR.  No CongestionStateSet is called.
LeaveCwr(t) == [t EXCEPT !.congState = "OPEN", !.cWnd = t.ssThresh]

\* ProcessAck of an acknowledgement of the head of the buffer: dup says
\* whether it counts as a duplicate.
OldAck(dup, lost, w, rtt) ==
  tcb' = PktsAcked(IF dup THEN DupAck(tcb, lost, w) ELSE tcb, rtt)

\* ReceivedAck up to ProcessAck: CWR is left when the recovery point is
\* passed, and entered by an ECN echo.
BeforeAck(t, passed, echo, w) ==
  LET u == IF t.congState = "CWR" /\ passed THEN LeaveCwr(t) ELSE t
  IN IF echo /\ u.congState # "CWR" THEN EnterCwr(u, w) ELSE u

\* ProcessAck of new data, by congestion state.  covers: the acknowledgement
\* reaches the recovery point; counted: it acknowledges at least as many
\* segments as there were duplicates.
PartialAck(t, n, rtt, w) ==
  PktsAcked(IF n >= 1 THEN Recovered(t, w) ELSE t, rtt)

LossAck(t, n, rtt, ack, nextTx) ==
  IncreaseWindow(PktsAcked(t, rtt), n, ack, nextTx)

CwrAck(t, n, rtt, w) ==
  LET u == PktsAcked(t, rtt) IN IF n >= 1 THEN Recovered(u, w) ELSE u

OpenAck(t, n, rtt, ack, nextTx) ==
  IncreaseWindow(PktsAcked(t, rtt), n, ack, nextTx)

DisorderAck(t, dup, counted, n, rtt, ack, nextTx) ==
  LET u == IF counted THEN PktsAcked(t, rtt) ELSE t
  IN IF dup THEN u
     ELSE IncreaseWindow(CongestionStateSet(u, "OPEN", nextTx), n, ack, nextTx)

EndRecoveryAck(t, n, rtt, ack, nextTx) ==
  LET u == CongestionStateSet(PktsAcked(t, rtt), "OPEN", nextTx)
  IN IncreaseWindow([u EXCEPT !.cWnd = u.ssThresh], n, ack, nextTx)

EndLossAck(t, n, rtt, ack, nextTx) ==
  IncreaseWindow(CongestionStateSet(PktsAcked(t, rtt), "OPEN", nextTx),
                 n, ack, nextTx)

AfterAck(t, dup, counted, covers, n, rtt, ack, nextTx, w) ==
  CASE t.congState = "OPEN" -> OpenAck(t, n, rtt, ack, nextTx)
    [] t.congState = "DISORDER" ->
         DisorderAck(t, dup, counted, n, rtt, ack, nextTx)
    [] t.congState = "CWR" -> CwrAck(t, n, rtt, w)
    [] t.congState = "RECOVERY" /\ ~covers -> PartialAck(t, n, rtt, w)
    [] t.congState = "RECOVERY" /\ covers ->
         EndRecoveryAck(t, n, rtt, ack, nextTx)
    [] t.congState = "LOSS" /\ ~covers -> LossAck(t, n, rtt, ack, nextTx)
    [] t.congState = "LOSS" /\ covers -> EndLossAck(t, n, rtt, ack, nextTx)

NewAck(echo, passed, dup, lost, counted, n, rtt, ack, nextTx, w) ==
  LET t == BeforeAck(tcb, passed, echo, w)
      u == IF dup THEN DupAck(t, lost, w) ELSE t
      \* Entering recovery moves the recovery point beyond any acknowledgement.
      covers == passed /\ (u.congState = "RECOVERY" => t.congState = "RECOVERY")
  IN tcb' = AfterAck(u, dup, counted, covers, n, rtt, ack, nextTx, w)

\* ReTxTimeout: the threshold is not lowered again for the same segment.
ReTxTimeout(again) ==
  /\ again => tcb.congState = "LOSS"
  /\ LET t == IF again THEN tcb ELSE Lower(tcb)
     IN tcb' = [CongestionStateSet(t, "LOSS", 0) EXCEPT
                  !.cWnd = SegmentSize, !.vCount = 0, !.mode = "MODERATE"]

\* A SYN or SYN+ACK that comes again, in any congestion state; ESTABLISHED
\* ignores it, but only after this.
RepeatedSyn == tcb' = InitialWindow(tcb)

\* The bounds of the model.
Bounded == tcb'.cWnd <= MaxWindow /\ tcb'.vCount <= MaxCount

\* The recovery algorithm runs in these calls only.
WindowsOf(runs) == IF runs THEN RecoveryWindows ELSE {0}
Recovering == tcb.congState \in {"CWR", "RECOVERY"}

Next ==
  \/ \E dup \in BOOLEAN, rtt \in Rtts \cup {0} :
       \E lost \in {FALSE, dup} :
         \E w \in WindowsOf(lost \/ Recovering) :
           OldAck(dup, lost, w, rtt) /\ Bounded
  \/ \E echo \in {FALSE, Ecn}, passed \in {FALSE, tcb.congState # "OPEN"},
        counted \in {FALSE, tcb.congState = "DISORDER"}, dup \in BOOLEAN,
        n \in Acked, rtt \in Rtts \cup {0}, ack, nextTx \in Seqs :
       \E lost \in {FALSE, dup} :
         \E w \in WindowsOf(lost \/ echo \/ Recovering) :
           /\ NewAck(echo, passed, dup, lost, counted, n, rtt, ack, nextTx, w)
           /\ Bounded
  \/ \E again \in BOOLEAN : ReTxTimeout(again)
  \/ RepeatedSyn

Spec == Init /\ [][Next]_tcb

-----------------------------------------------------------------------------
(* Properties.                                                             *)

\* Outside the recovery algorithm's reign the window is at least one segment
\* and the threshold at least two: the decrements of Vegas and the unsigned
\* subtraction of GetSsThresh never starve the sender (tcp-vegas.cc 206-235,
\* 257-263).
WindowOpen ==
  /\ tcb.ssThresh >= 2 * SegmentSize
  /\ tcb.congState \in {"OPEN", "DISORDER", "LOSS"} => tcb.cWnd >= SegmentSize

\* The NS_ASSERT of the adjustment ("implies baseRtt <= minRtt"), with the
\* minimum it divides by a real sample (tcp-vegas.cc 190-192).
SamplesInOrder ==
  /\ tcb.baseRtt <= tcb.minRtt
  /\ tcb.cntRtt > 0 <=> tcb.minRtt < TimeMax

\* "We only start a Vegas cycle when we are in normal congestion state": in
\* OPEN Vegas is on, in every state that lost something it is off
\* (tcp-vegas.h 106-111).
VegasWhenOpen ==
  /\ tcb.congState = "OPEN" => tcb.doing
  /\ tcb.congState \in {"DISORDER", "RECOVERY", "LOSS"} => ~tcb.doing

\* Of the steps that end outside OPEN only a repeated SYN raises the slow
\* start threshold, to its initial value: a timeout in the middle of a
\* recovery, whose window may be so small that the subtraction wraps around,
\* does not lift it (tcp-vegas.cc 257-263, tcp-socket-base.cc 1168-1171).
CongestionLowers == [][
  (tcb'.congState # "OPEN" /\ tcb'.ssThresh > tcb.ssThresh)
    => RepeatedSyn]_tcb

\* In aggressive mode the sender does not back off from a growing RTT: only a
\* congestion state, or a repeated SYN, shrinks its window.
AggressiveHolds == [][
  (/\ tcb.mode = "AGGRESSIVE" /\ ~RepeatedSyn
   /\ tcb.congState = "OPEN" /\ tcb'.congState = "OPEN")
    => tcb'.cWnd >= tcb.cWnd]_tcb

\* Above the threshold, in moderate mode, one acknowledgement (that is no
\* SYN+ACK) moves the window by at most one segment and the bytes of a started
\* one: "linear".
ModerateIsLinear == [][
  (/\ tcb.mode = "MODERATE" /\ tcb.cWnd >= tcb.ssThresh /\ ~RepeatedSyn
   /\ tcb.congState = "OPEN" /\ tcb'.congState = "OPEN")
    => /\ tcb'.cWnd <= tcb.cWnd + SegmentSize
       /\ tcb'.cWnd > tcb.cWnd - 2 * SegmentSize]_tcb

(* Statements of README.md and of the code's comments that the code does   *)
(* not meet.                                                               *)

\* "a counter to track consecutive RTT increases": a sample below the last
\* one ends a row of increases.
CountsConsecutive == [][
  tcb'.lastRtt < tcb.lastRtt => tcb'.vCount = 0]_tcb

\* "No action for received SYN+ACK, it is probably a duplicated packet"
\* (tcp-socket-base.cc 1322-1325).
RepeatedSynIgnored == [][~RepeatedSyn]_tcb
=============================================================================

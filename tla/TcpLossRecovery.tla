--------------------------- MODULE TcpLossRecovery ---------------------------
(***************************************************************************)
(* Loss recovery of TcpSocketBase with SACK: the congestion states of the  *)
(* sender, duplicate acknowledgements, fast retransmit, partial            *)
(* acknowledgements and the retransmission timeout, against a receiver     *)
(* that reports what it has out of order, over a network that loses and    *)
(* reorders.  No segment of the handshake is in flight any more.           *)
(*                                                                         *)
(* The unit is one segment; the application wrote everything while the     *)
(* connection was being set up, and the receiver's window never binds.     *)
(* The congestion window is an input, so that what holds here holds for    *)
(* any congestion control; the scoreboard itself, class TcpTxBuffer, is    *)
(* not in the repository and is modelled from its use.                     *)
(***************************************************************************)
EXTENDS Integers, FiniteSets

CONSTANTS
  Total,       \* bound: segments written
  ReTxThresh,  \* m_retxThresh
  MaxCWnd,     \* bound: the congestion window
  MaxLosses,   \* bound: segments lost
  MaxEarly,    \* bound: retransmission timeouts with segments in flight
  Ecn          \* whether acknowledgements may carry the ECN echo

ASSUME LossRecoveryAssumption ==
  /\ {MaxLosses, MaxEarly} \subseteq Nat
  /\ {Total, ReTxThresh, MaxCWnd} \subseteq Nat \ {0}
  /\ Ecn \in BOOLEAN

VARIABLES
  snd,     \* the sending socket
  rcv,     \* the receiving socket
  net,     \* the segments in flight, a set
  losses,  \* segments lost so far
  early    \* early timeouts so far

vars == <<snd, rcv, net, losses, early>>

Seqs == 0 .. Total - 1
CongStates == {"open", "disorder", "cwr", "recovery", "loss"}
Segments == [kind : {"data"}, seq : Seqs, again : BOOLEAN]
              \cup [kind : {"ack"}, ack : 0 .. Total, sack : SUBSET Seqs]

Init ==
  /\ snd = [head |-> 0, highTx |-> 0,
            sacked |-> {}, lost |-> {}, retrans |-> {},  \* the scoreboard
            congState |-> "open", dupAckCount |-> 0,
            recover |-> 0, recoverActive |-> FALSE, firstPartial |-> TRUE,
            ecnEchoSeq |-> 0,
            pending |-> TRUE, retx |-> FALSE,
            asserted |-> TRUE,  \* every assertion met so far held
            out |-> {}]         \* segments the handler sends
  /\ rcv = [nextRx |-> 0, stored |-> {}, delAck |-> FALSE]
  /\ net = {} /\ losses = 0 /\ early = 0

-----------------------------------------------------------------------------
(* The scoreboard.                                                         *)

Sent(s) == s.head .. s.highTx - 1

BytesInFlight(s) ==
  Cardinality(Sent(s) \ (s.sacked \cup s.lost)) + Cardinality(s.retrans)

\* Enough segments above the hole have arrived.
PresumedLost(s) ==
  {n \in Sent(s) \ s.sacked :
     Cardinality({k \in s.sacked : k > n}) >= ReTxThresh}

Update(s, sack) ==
  LET t == [s EXCEPT !.sacked = @ \cup (sack \cap Sent(s)),
                     !.retrans = @ \ sack]
  IN [t EXCEPT !.lost = (@ \ sack) \cup PresumedLost(t)]

\* Mutant: what is acknowledged is still counted as lost.
DiscardUpToKeepsLost(s, ack) ==
  LET above(S) == {n \in S : n >= ack}
  IN [s EXCEPT !.head = ack, !.sacked = above(@), !.retrans = above(@)]

DiscardUpTo(s, ack) ==
  LET above(S) == {n \in S : n >= ack}
  IN [s EXCEPT !.head = ack, !.sacked = above(@), !.lost = above(@),
               !.retrans = above(@)]

MarkHeadAsLost(s) ==
  [s EXCEPT !.lost = @ \cup {s.head}, !.retrans = @ \ {s.head}]

SetSentListLost(s) == [s EXCEPT !.lost = Sent(s) \ s.sacked, !.retrans = {}]

\* The k least of S.
First(S, k) == {n \in S : Cardinality({j \in S : j < n}) < k}

\* SendDataPacket, for each of these segments.
SendSegments(s, fresh, again) ==
  [s EXCEPT
     !.out = @ \cup [kind : {"data"}, seq : fresh, again : {FALSE}]
               \cup [kind : {"data"}, seq : again, again : {TRUE}],
     !.highTx = @ + Cardinality(fresh), !.retrans = @ \cup again,
     !.retx = @ \/ fresh \cup again # {}]

\* What NextSeg returns, k times: the lost, then what was never sent, then, in
\* recovery (rule 3), whatever is not known to have arrived.
Missing(s) == s.lost \ s.retrans
Unsent(s) == s.highTx .. Total - 1
Unheard(s) == (s.head .. Total - 1) \ (s.lost \cup s.sacked \cup s.retrans)

SendNext(s, k, enableRule3) ==
  LET left == k - Cardinality(Missing(s))
      third == IF enableRule3
               THEN First(Unheard(s), left - Cardinality(Unsent(s))) ELSE {}
  IN SendSegments(s, First(Unsent(s), left), First(Missing(s), k) \cup third)

SendPendingData(s, cWnd) ==
  SendNext(s, cWnd - BytesInFlight(s), s.congState = "recovery")

DoRetransmit(s) ==
  IF Missing(s) \cup Unsent(s) = {} THEN SendSegments(s, {}, {s.head})
  ELSE SendNext(s, 1, FALSE)

-----------------------------------------------------------------------------
(* The congestion states.                                                  *)

EnterRecovery(s) ==
  LET t == IF s.head \in s.lost THEN s ELSE MarkHeadAsLost(s)
  IN DoRetransmit([t EXCEPT !.congState = "recovery", !.recover = s.highTx,
                            !.recoverActive = TRUE])

Asserting(s, holds) == [s EXCEPT !.asserted = @ /\ holds]

Disordered(s) ==
  LET t == Asserting(s, s.dupAckCount <= ReTxThresh \/ s.recoverActive)
  IN IF \/ /\ s.dupAckCount = ReTxThresh
           /\ s.head >= s.recover \/ ~s.recoverActive
        \/ s.head + 1 \in s.lost
     THEN EnterRecovery(t) ELSE t

\* Mutant: duplicate acknowledgements are counted after a timeout, too.
DupAckInLoss(s) ==
  LET t == [s EXCEPT !.dupAckCount = @ + (IF s.congState = "recovery" THEN 0
                                          ELSE 1)]
  IN CASE t.congState = "open" -> Disordered(
            Asserting([t EXCEPT !.congState = "disorder"], t.dupAckCount = 1))
       [] t.congState = "disorder" -> Disordered(t)
       [] OTHER -> t

DupAck(s) ==
  LET t == [s EXCEPT !.dupAckCount = @ + 1]
  IN CASE s.congState = "open" -> Disordered(
            Asserting([t EXCEPT !.congState = "disorder"], t.dupAckCount = 1))
       [] s.congState = "disorder" -> Disordered(t)
       [] s.congState = "cwr" -> t
       [] OTHER -> s

\* Mutant: the timer is stopped and not started again.
NewAckStops(s, resetRTO) == [s EXCEPT !.retx = @ /\ ~resetRTO]

NewAck(s, resetRTO) == [s EXCEPT !.retx = (@ \/ resetRTO) /\ s.head < Total]

PartialAck(s) ==
  LET t == IF s.head \in s.retrans THEN s ELSE DoRetransmit(s)
  IN [NewAck(t, s.firstPartial) EXCEPT !.firstPartial = FALSE]

\* Mutant: a timeout's recovery is over with the first new acknowledgement.
AckRecoversLossAtOnce(s, isDupack) ==
  LET t == [s EXCEPT !.congState = "open", !.dupAckCount = 0,
                     !.firstPartial = TRUE]
  IN CASE s.congState = "recovery" /\ s.head < s.recover -> PartialAck(s)
       [] s.congState = "cwr" -> NewAck(s, TRUE)
       [] s.congState = "disorder" /\ isDupack -> s
       [] OTHER -> NewAck(t, TRUE)

\* An acknowledgement of new data, which s has taken: the branches of
\* ProcessAck.  A timeout leaves dupAckCount 0, so it is reset on all ways to
\* "open".
AckOfNewData(s, isDupack) ==
  LET ended == [s EXCEPT !.recoverActive = @ /\ s.head < s.recover]
      open == [ended EXCEPT !.congState = "open"]
  IN CASE s.congState = "recovery" /\ s.head < s.recover -> PartialAck(s)
       [] s.congState = "loss" /\ s.head < s.recover -> NewAck(s, TRUE)
       [] s.congState = "cwr" -> NewAck(s, TRUE)
       [] s.congState = "disorder" /\ isDupack -> ended
       [] s.congState = "recovery" /\ s.head >= s.recover ->
            NewAck([open EXCEPT !.firstPartial = TRUE, !.dupAckCount = 0],
                   TRUE)
       [] s.congState = "loss" /\ s.head >= s.recover ->
            NewAck([open EXCEPT !.firstPartial = TRUE], TRUE)
       [] OTHER -> NewAck(open, TRUE)

ProcessAck(s, isDupack, isNew) ==
  LET t == IF isDupack THEN DupAck(s) ELSE s
  IN IF ~isNew THEN t
     ELSE AckOfNewData(IF isDupack THEN t ELSE [t EXCEPT !.dupAckCount = 0],
                       isDupack)

LeaveCwr(s) ==
  IF s.congState = "cwr" /\ s.head > s.recover
  THEN [s EXCEPT !.congState = "open"] ELSE s

\* The ECN echo of an acknowledgement of new data; EnterCwr.
ReadEcho(s) ==
  LET t == [s EXCEPT !.ecnEchoSeq = s.head]
  IN IF s.ecnEchoSeq >= s.head THEN s
     ELSE IF s.congState = "cwr" THEN t
     ELSE [t EXCEPT !.congState = "cwr", !.recover = s.highTx]

ReceivedAck(s, m, ece, cWnd) ==
  LET updated == Update(s, m.sack)
      isDupack == updated.sacked # s.sacked
      isNew == m.ack > s.head
      t == LeaveCwr(DiscardUpTo(updated, m.ack))
      u == IF isNew /\ ece THEN ReadEcho(t) ELSE t
  IN SendPendingData(ProcessAck(u, isDupack, isNew), cWnd)

-----------------------------------------------------------------------------
(* The steps.                                                              *)

SenderSteps(s, received) ==
  /\ snd' = [s EXCEPT !.out = {}]
  /\ net' = (net \ received) \cup s.out
  /\ UNCHANGED <<rcv, losses>>

PendingEvent ==
  /\ snd.pending
  /\ \E cWnd \in 1 .. MaxCWnd :
       SenderSteps(SendPendingData([snd EXCEPT !.pending = FALSE], cWnd), {})
  /\ UNCHANGED early

\* ProcessEstablished drops what is below the head; nothing beyond highTx is
\* ever acknowledged here.
ReceiveAck(m) ==
  /\ m \in net /\ m.kind = "ack"
  /\ IF m.ack < snd.head THEN SenderSteps(snd, {m})
     ELSE \E cWnd \in 1 .. MaxCWnd, ece \in {FALSE, Ecn} :
            SenderSteps(ReceivedAck(snd, m, ece, cWnd), {m})
  /\ UNCHANGED early

ReTxTimeout ==
  /\ snd.retx
  /\ early < MaxEarly \/ net = {}
  /\ early' = IF net = {} THEN early ELSE early + 1
  /\ LET s == [SetSentListLost(snd) EXCEPT
                 !.retx = FALSE, !.dupAckCount = 0, !.congState = "loss",
                 !.recover = snd.highTx, !.recoverActive = TRUE]
     IN SenderSteps(IF snd.head = Total THEN [snd EXCEPT !.retx = FALSE]
                    ELSE SendPendingData(s, 1), {})

Ack(r) == {[kind |-> "ack", ack |-> r.nextRx, sack |-> r.stored]}

AddRx(r, seq) ==
  LET got == r.stored \cup {n \in {seq} : n >= r.nextRx}
      next == CHOOSE n \in r.nextRx .. Total :
                n \notin got /\ r.nextRx .. n - 1 \subseteq got
  IN [r EXCEPT !.nextRx = next, !.stored = {n \in got : n > next}]

\* Only a segment in order, with nothing stored above it, may wait for its
\* acknowledgement.
ReceiveData(m) ==
  LET r == AddRx(rcv, m.seq)
  IN /\ m \in net /\ m.kind = "data"
     /\ \/ /\ rcv' = [r EXCEPT !.delAck = FALSE]
           /\ net' = (net \ {m}) \cup Ack(r)
        \/ /\ ~rcv.delAck /\ r.stored = {} /\ r.nextRx = rcv.nextRx + 1
           /\ rcv' = [r EXCEPT !.delAck = TRUE]
           /\ net' = net \ {m}
     /\ UNCHANGED <<snd, losses, early>>

DelAckTimeout ==
  /\ rcv.delAck
  /\ rcv' = [rcv EXCEPT !.delAck = FALSE]
  /\ net' = net \cup Ack(rcv)
  /\ UNCHANGED <<snd, losses, early>>

Lose(m) ==
  /\ m \in net /\ losses < MaxLosses
  /\ net' = net \ {m} /\ losses' = losses + 1
  /\ UNCHANGED <<snd, rcv, early>>

Next ==
  \/ PendingEvent \/ ReTxTimeout \/ DelAckTimeout
  \/ \E m \in net : ReceiveAck(m) \/ ReceiveData(m) \/ Lose(m)

Spec == Init /\ [][Next]_vars

\* The scheduler runs every event it holds and the network delivers what it
\* does not lose.  The weak fairness of the handlers that send is written out,
\* as in TcpZeroWindow.
FairSpec ==
  /\ Spec
  /\ WF_vars(DelAckTimeout)
  /\ []<>~snd.pending \/ []<><<PendingEvent>>_vars
  /\ \/ []<>~(snd.retx /\ (early < MaxEarly \/ net = {}))
     \/ []<><<ReTxTimeout>>_vars
  /\ \/ []<>~(\E m \in net : m.kind = "ack")
     \/ []<><<\E m \in net : ReceiveAck(m)>>_vars
  /\ \/ []<>~(\E m \in net : m.kind = "data")
     \/ []<><<\E m \in net : ReceiveData(m)>>_vars

-----------------------------------------------------------------------------
(* Properties.                                                             *)

\* The fields hold what the code's types allow; the scoreboard speaks of what
\* is outstanding, and the head itself is never reported as received.
TypeOK ==
  /\ snd.head \in 0 .. Total /\ snd.highTx \in snd.head .. Total
  /\ snd.sacked \cup snd.lost \cup snd.retrans \subseteq Sent(snd)
  /\ snd.sacked \cap ({snd.head} \cup snd.lost \cup snd.retrans) = {}
  /\ snd.congState \in CongStates /\ snd.dupAckCount \in Nat
  /\ snd.recover \in 0 .. snd.highTx /\ snd.ecnEchoSeq \in 0 .. snd.head
  /\ {snd.recoverActive, snd.firstPartial, snd.pending, snd.retx,
      snd.asserted, rcv.delAck} \subseteq BOOLEAN
  /\ snd.out = {}
  /\ rcv.nextRx \in snd.head .. Total
  /\ rcv.stored \subseteq rcv.nextRx + 1 .. snd.highTx - 1
  /\ net \subseteq Segments
  /\ losses \in 0 .. MaxLosses /\ early \in 0 .. MaxEarly

\* The assertions of DupAck hold (1495, 1523): no count is left over when the
\* sender is back in "open", and in "disorder" the threshold is not passed
\* unless a recovery point forbids to act on it.
AssertionsHold == snd.asserted

\* A window is reduced once for its losses: fast recovery is entered only when
\* everything sent before the last recovery, or timeout, has been acknowledged
\* (DupAck, "avoid entering CA_RECOVERY and reducing sending rate again",
\* although its second way into recovery does not look at m_recover).
OneRecoveryPerWindow ==
  [][snd.congState # "recovery" /\ snd'.congState = "recovery"
       => snd'.head >= snd.recover]_vars

Stream == INSTANCE ByteStream WITH
  written <- Total, delivered <- rcv.nextRx, acked <- snd.head

\* Whatever is lost, reordered or retransmitted too early, all segments arrive
\* and are acknowledged, in order, and none is forgotten before: there is
\* always a timer, an acknowledgement or a segment that brings the next one.
ImplementsStream == Stream!LiveSpec

\* Not so (FindingHeadLost): a head that counts as lost makes the sender enter
\* recovery, few duplicates or not (DupAck, "IsLost (HighACK + 1)"); the code
\* asks for the segment after the head.
LostHeadIsRecovered == snd.congState = "disorder" => snd.head \notin snd.lost
=============================================================================

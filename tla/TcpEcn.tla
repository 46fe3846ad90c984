------------------------------- MODULE TcpEcn -------------------------------
(***************************************************************************)
(* ECN between two established ends of TcpSocketBase: the mark of a router,*)
(* its echo by the receiver (ECE), the one reduction of the sender and the *)
(* CWR flag that ends the echo.  m_ecnState is shared by the two roles of  *)
(* a socket.  Segments are reordered, lost and retransmitted; none of the  *)
(* handshake is in flight any more.                                        *)
(*                                                                         *)
(* A segment of data takes one sequence number.  What scoreboard and       *)
(* windows decide is an input, as in TcpConnection: the duplicate that     *)
(* starts a recovery, what is retransmitted, how many new segments go.     *)
(***************************************************************************)
EXTENDS Naturals, FiniteSets, Bags

CONSTANTS
  Hosts,     \* the two ends
  Data,      \* bound: Data[h] segments h has to send
  MaxMarks,  \* bound: segments the routers mark
  MaxRtos,   \* bound: retransmission timeouts
  Capacity   \* bound: segments in flight

ASSUME EcnAssumption ==
  /\ IsFiniteSet(Hosts) /\ Cardinality(Hosts) = 2
  /\ Data \in [Hosts -> Nat]
  /\ MaxMarks \in Nat /\ MaxRtos \in Nat /\ Capacity \in Nat

VARIABLES
  sock,   \* the sockets
  net,    \* the segments in flight, a bag
  marks,  \* segments marked so far
  rtos    \* timeouts so far

vars == <<sock, net, marks, rtos>>

Peer(h) == CHOOSE p \in Hosts : p # h
CongStates == {"OPEN", "CWR", "RECOVERY", "LOSS"}
EcnStates == {"IDLE", "CE_RCVD", "SENDING_ECE", "ECE_RCVD", "CWR_SENT"}

Established == [
  ecnState |-> "IDLE", ecnCESeq |-> 0, ecnEchoSeq |-> 0, ecnCWRSeq |-> 0,
  congState |-> "OPEN", recover |-> 0,
  head |-> 1, highTx |-> 1,            \* m_txBuffer, m_highTxMark
  nextRx |-> 1, stored |-> {},         \* m_rxBuffer
  delAck |-> FALSE, pending |-> TRUE,  \* m_delAckEvent, m_sendPendingDataEvent
  cuts |-> 0, cwrs |-> 0, cutAt |-> 0, \* history: reductions for echoes, CWR
                                       \* flags sent, highTx at the reduction
  out |-> {}]                          \* segments the handler sends

Init ==
  /\ sock = [h \in Hosts |-> Established]
  /\ net = EmptyBag /\ marks = 0 /\ rtos = 0

-----------------------------------------------------------------------------
(* Sending.                                                                *)

Send(s, seq, len, ece, cwr) ==
  [s EXCEPT !.delAck = FALSE,
            !.out = @ \cup {[seq |-> seq, len |-> len, ack |-> s.nextRx,
                             ece |-> ece, cwr |-> cwr]}]

\* Acknowledge and, while the peer has not reduced its window, echo the mark.
SendAck(s) ==
  IF s.ecnState \in {"CE_RCVD", "SENDING_ECE"}
  THEN [Send(s, s.highTx, 0, TRUE, FALSE) EXCEPT !.ecnState = "SENDING_ECE"]
  ELSE Send(s, s.highTx, 0, FALSE, FALSE)

\* Mutant: CWR for every echo.
CwrDueAlways(s, seq) == s.ecnState = "ECE_RCVD" /\ seq >= s.highTx
CwrDue(s, seq) ==
  s.ecnState = "ECE_RCVD" /\ s.ecnEchoSeq > s.ecnCWRSeq /\ seq >= s.highTx

SendDataPacket(s, seq) ==
  LET cwr == CwrDue(s, seq)
      t == IF cwr THEN [s EXCEPT !.ecnState = "CWR_SENT", !.ecnCWRSeq = seq,
                                 !.cwrs = @ + 1]
           ELSE s
  IN [Send(t, seq, 1, FALSE, cwr) EXCEPT
        !.highTx = IF seq >= @ THEN seq + 1 ELSE @]

\* SendDataPacket for the next n segments.  CWR is due for none but the first,
\* whose CWR takes the socket out of ECE_RCVD.
SendNew(s, n) ==
  LET t == SendDataPacket(s, s.highTx)
  IN IF n = 0 THEN s
     ELSE [t EXCEPT !.highTx = s.highTx + n,
                    !.out = @ \cup [seq : s.highTx + 1 .. s.highTx + n - 1,
                                    len : {1}, ack : {s.nextRx}, ece : {FALSE},
                                    cwr : {FALSE}]]

\* lost: what the scoreboard wants again, 0 for nothing; k: the new segments
\* the window allows, at least one when nothing is in flight.
SendPendingData(s, lost, k, data) ==
  LET again == IF lost \in s.head .. s.highTx - 1
               THEN SendDataPacket(s, lost) ELSE s
      left == data + 1 - s.highTx
      new == IF s.head = s.highTx /\ k = 0 THEN 1 ELSE k
  IN SendNew(again, IF new < left THEN new ELSE left)

-----------------------------------------------------------------------------
(* The sender's answer to an echo.                                         *)

\* Mutant: the window is reduced again for every echo.
MayReduceAlways(s) == TRUE
MayReduce(s) == s.congState # "CWR"

EnterCwr(s) ==
  [s EXCEPT !.congState = "CWR", !.recover = s.highTx, !.cuts = @ + 1,
            !.cutAt = s.highTx]

\* old: the head before the acknowledgement; s already has the new one.
ProcessEcho(s, m, old) ==
  IF m.ack > old /\ m.ece
  THEN IF s.ecnEchoSeq >= m.ack THEN s
       ELSE LET t == [s EXCEPT !.ecnEchoSeq = m.ack, !.ecnState = "ECE_RCVD"]
            IN IF MayReduce(s) THEN EnterCwr(t) ELSE t
  ELSE IF s.ecnState = "ECE_RCVD" /\ ~m.ece
  THEN [s EXCEPT !.ecnState = "IDLE"] ELSE s

\* DupAck and ProcessAck, as far as the congestion state is concerned.
ProcessAck(s, m, old, dup, lost) ==
  LET t == IF dup /\ s.congState = "OPEN"
           THEN [SendDataPacket(s, s.head) EXCEPT !.congState = "RECOVERY",
                                                  !.recover = s.highTx]
           ELSE s
  IN CASE m.ack = old -> t
       [] m.ack > old /\ m.ack < t.recover /\ t.congState = "RECOVERY" ->
            IF lost \in t.head .. t.highTx - 1 THEN SendDataPacket(t, lost)
            ELSE t
       [] m.ack > old /\ m.ack >= t.recover
            /\ t.congState \in {"RECOVERY", "LOSS"} ->
            [t EXCEPT !.congState = "OPEN"]
       [] OTHER -> t

-----------------------------------------------------------------------------
(* The receiver.                                                           *)

\* Mutant: what is delivered stays in the buffer.
AddRxKeeps(s, seq) ==
  LET got == s.stored \cup {seq}
  IN [s EXCEPT !.nextRx = IF seq = @ THEN @ + 1 ELSE @, !.stored = got]

AddRx(s, seq) ==
  LET got == s.stored \cup {seq}
      next == CHOOSE n \in s.nextRx .. s.nextRx + Cardinality(got) :
                n \notin got /\ \A i \in s.nextRx .. n - 1 : i \in got
  IN [s EXCEPT !.nextRx = next, !.stored = {i \in got : i > next}]

ReceivedData(s, m, delay) ==
  LET t == AddRx(s, m.seq)
      inOrder == t.stored = {} /\ t.nextRx = s.nextRx + 1
  IN IF m.seq < s.nextRx \/ m.seq \in s.stored THEN SendAck(s)
     ELSE IF inOrder /\ delay /\ ~s.delAck THEN [t EXCEPT !.delAck = TRUE]
     ELSE SendAck(t)

\* ForwardUp and DoForwardUp: the mark, then the CWR flag, which ends the echo
\* unless this segment is marked.
ReadEcn(s, m, ce) ==
  LET t == IF ce /\ s.ecnCESeq < m.seq
           THEN [s EXCEPT !.ecnCESeq = m.seq, !.ecnState = "CE_RCVD"] ELSE s
  IN IF m.cwr /\ t.ecnState # "CE_RCVD" THEN [t EXCEPT !.ecnState = "IDLE"]
     ELSE t

ReceivedAck(s, m, in, data) ==
  LET acked == [s EXCEPT !.head = m.ack]
      open == IF s.congState = "CWR" /\ m.ack > s.recover
              THEN [acked EXCEPT !.congState = "OPEN"] ELSE acked
      t == ProcessAck(ProcessEcho(open, m, s.head), m, s.head, in.dup, in.lost)
      u == IF m.len > 0 THEN ReceivedData(t, m, in.delay) ELSE t
  IN SendPendingData(u, in.lost, in.k, data)

OutOfRange(s, m) == m.len > 0 /\ m.seq + 1 < s.nextRx

ForwardUp(s, m, ce, in, data) ==
  LET t == ReadEcn(s, m, ce)
  IN IF OutOfRange(s, m) THEN Send(s, s.highTx, 0, FALSE, FALSE)
     ELSE IF m.ack < t.head THEN t
     ELSE ReceivedAck(t, m, in, data)

-----------------------------------------------------------------------------
(* The steps.                                                              *)

\* More than Capacity new segments could not leave.
Inputs(s, data) ==
  [dup : BOOLEAN, lost : {0} \cup s.head .. s.highTx - 1,
   k : {k \in 0 .. data + 1 - s.highTx : k <= Capacity}, delay : BOOLEAN]

\* The handler on h has turned its socket into s.
Steps(h, s, received) ==
  LET all == (net (-) received) (+)
        SetToBag({[to |-> Peer(h), seq |-> m.seq, len |-> m.len, ack |-> m.ack,
                   ece |-> m.ece, cwr |-> m.cwr] : m \in s.out})
  IN /\ BagCardinality(all) <= Capacity
     /\ sock' = [sock EXCEPT ![h] = [s EXCEPT !.out = {}]]
     /\ net' = all

Receive(h) ==
  \E m \in BagToSet(net), ce \in BOOLEAN, in \in Inputs(sock[h], Data[h]) :
    /\ m.to = h
    /\ ce => m.len = 1 /\ marks < MaxMarks
    /\ in.dup => /\ m.ack = sock[h].head /\ m.ack < sock[h].highTx
                  /\ sock[h].congState = "OPEN"
    /\ in.delay => m.len = 1 /\ ~sock[h].delAck
    /\ m.ack < sock[h].head => in.lost = 0 /\ in.k = 0
    /\ Steps(h, ForwardUp(sock[h], m, ce, in, Data[h]), SetToBag({m}))
    /\ marks' = IF ce THEN marks + 1 ELSE marks
    /\ UNCHANGED rtos

Lose ==
  \E m \in BagToSet(net) :
    net' = net (-) SetToBag({m}) /\ UNCHANGED <<sock, marks, rtos>>

PendingEvent(h) ==
  /\ sock[h].pending
  /\ \E k \in 1 .. Data[h] :
       Steps(h, SendPendingData([sock[h] EXCEPT !.pending = FALSE], 0, k,
                                Data[h]), EmptyBag)
  /\ UNCHANGED <<marks, rtos>>

DelAckTimeout(h) ==
  /\ sock[h].delAck
  /\ Steps(h, SendAck(sock[h]), EmptyBag)
  /\ UNCHANGED <<marks, rtos>>

ReTxTimeout(h) ==
  LET s == sock[h]
  IN /\ s.head < s.highTx /\ rtos < MaxRtos
     /\ Steps(h, SendDataPacket([s EXCEPT !.congState = "LOSS",
                                          !.recover = s.highTx], s.head),
              EmptyBag)
     /\ rtos' = rtos + 1
     /\ UNCHANGED marks

Next ==
  \/ \E h \in Hosts : \/ Receive(h) \/ PendingEvent(h)
                      \/ DelAckTimeout(h) \/ ReTxTimeout(h)
  \/ Lose

Spec == Init /\ [][Next]_vars

-----------------------------------------------------------------------------
(* Properties.                                                             *)

\* The fields hold what the code's types allow, and no end is ahead of the
\* other.
TypeOK ==
  /\ \A h \in Hosts :
       LET s == sock[h]
       IN /\ s.ecnState \in EcnStates /\ s.congState \in CongStates
          /\ s.out = {} /\ {s.delAck, s.pending} \subseteq BOOLEAN
          /\ s.highTx \in 1 .. Data[h] + 1 /\ s.head \in 1 .. s.highTx
          /\ s.nextRx \in 1 .. sock[Peer(h)].highTx
          /\ s.stored \subseteq s.nextRx + 1 .. sock[Peer(h)].highTx
          /\ {s.recover, s.ecnEchoSeq, s.ecnCWRSeq} \subseteq 0 .. s.highTx
          /\ s.ecnCESeq \in 0 .. sock[Peer(h)].highTx
  /\ IsABag(net) /\ marks \in 0 .. MaxMarks /\ rtos \in 0 .. MaxRtos

\* Every CWR flag is backed by a reduction of its own, whatever timeouts,
\* recoveries and data in the other direction come between the echo and the
\* next new segment (SendDataPacket 2785, EnterCwr).
CwrMeansReduced == \A h \in Hosts : sock[h].cwrs <= sock[h].cuts

\* The window is reduced for echoes at most once per window of data: again
\* only for an echo beyond what was out at the last reduction, or while the
\* socket recovers from a timeout (EnterCwr 1386, ReceivedAck 1620).
OncePerWindow ==
  [][\A h \in Hosts : sock'[h].cuts > sock[h].cuts =>
       sock'[h].head > sock[h].cutAt \/ sock[h].congState = "LOSS"]_vars

\* Not so (FindingsEcn): without the exception of a timeout.
OnceEvenAfterTimeout ==
  [][\A h \in Hosts : sock'[h].cuts > sock[h].cuts =>
       sock'[h].head > sock[h].cutAt]_vars

\* Not so (FindingsEcn): an echo ends by a CWR flag only.  The answer
\* to an echo for the data of the other direction ends it as well.
EchoEndsByCwr ==
  [][\A h \in Hosts :
       sock[h].ecnState \in {"CE_RCVD", "SENDING_ECE"}
       /\ sock'[h].ecnState \notin {"CE_RCVD", "SENDING_ECE"} =>
         \E m \in BagToSet(net) :
           /\ m.to = h /\ m.cwr
           /\ m \in BagToSet(net') => net'[m] < net[m]]_vars
=============================================================================

---------------------------- MODULE TcpZeroWindow ----------------------------
(***************************************************************************)
(* Flow control of TcpSocketBase: the advertised window, silly window      *)
(* avoidance, the persist timer and the retransmission timer it competes   *)
(* with, between an application that writes and one that reads slowly.     *)
(* Segments are lost and reordered; sequence numbers count from 0 after    *)
(* the handshake, of which no segment is in flight any more.               *)
(*                                                                         *)
(* The congestion window is an input.  Loss is repaired by the timer; the  *)
(* recovery by duplicate acknowledgements is in TcpLossRecovery.           *)
(***************************************************************************)
EXTENDS Integers, FiniteSets

CONSTANTS
  Packets,    \* m_nPackets of the application
  TxBuffer,   \* size of the send buffer
  Buffer,     \* size of the receive buffer
  SegSize,    \* m_segmentSize, and the size of the application's packets
  Shift,      \* m_rcvWindShift of the receiver = m_sndWindShift of the sender
  MaxCWnd,    \* bound: the congestion window, in segments
  MaxLosses,  \* bound: segments lost
  MaxEarly    \* bound: retransmission timeouts with segments in flight

ASSUME ZeroWindowAssumption ==
  /\ {Packets, MaxLosses, MaxEarly} \subseteq Nat /\ Shift \in 0 .. 14
  /\ {TxBuffer, Buffer, SegSize, MaxCWnd} \subseteq Nat \ {0}

VARIABLES
  sent,     \* m_packetsSent of the application
  snd,      \* the sending socket
  rcv,      \* the receiving socket and its reader
  net,      \* the segments in flight, a set
  losses,   \* segments lost so far
  early,    \* early timeouts so far
  crashed   \* the program has dereferenced a null pointer

vars == <<sent, snd, rcv, net, losses, early, crashed>>

Total == Packets * SegSize
Bytes == 0 .. Total
Segments ==
  [kind : {"data", "probe"}, seq : Bytes, len : 1 .. SegSize]
    \cup [kind : {"ack"}, ack : Bytes, win : 0 .. Buffer]

Init ==
  /\ snd = [written |-> 0, head |-> 0,       \* m_txBuffer
            nextTx |-> 0, highTx |-> 0,
            lost |-> {},                     \* sent bytes marked as lost
            rWnd |-> Buffer, highRxAckMark |-> 0,
            retx |-> FALSE, persist |-> FALSE, pending |-> FALSE,
            out |-> {}]                      \* segments the handler sends
  /\ rcv = [nextRx |-> 0, stored |-> {}, read |-> 0, delAck |-> FALSE]
  /\ sent = 0 /\ net = {} /\ losses = 0 /\ early = 0 /\ crashed = FALSE

Least(S) == CHOOSE n \in S : \A k \in S : n <= k

-----------------------------------------------------------------------------
(* Sending.                                                                *)

AvailableWindow(s, cWnd) ==
  LET inFlight == s.highTx - s.head - Cardinality(s.lost)
      window == Least({s.rWnd, cWnd})
  IN IF inFlight > window THEN 0 ELSE window - inFlight

SendDataPacket(s, seq, len) ==
  [s EXCEPT !.out = @ \cup {[kind |-> "data", seq |-> seq, len |-> len]},
            !.retx = TRUE, !.nextTx = seq + len,
            !.lost = @ \ (seq .. seq + len - 1),
            !.highTx = IF seq + len > @ THEN seq + len ELSE @]

\* The scoreboard's next segment (NextSeg): what is lost, then new data as far
\* as the window of the receiver goes.
NextSeg(s) ==
  IF s.lost # {}
  THEN LET seq == Least(s.lost)
       IN [seq |-> seq, max |-> CHOOSE n \in 1 .. SegSize :
             /\ seq .. seq + n - 1 \subseteq s.lost
             /\ n = SegSize \/ seq + n \notin s.lost]
  ELSE [seq |-> s.highTx, max |-> Least({SegSize, s.written - s.highTx,
                                         s.rWnd - (s.highTx - s.head)})]

SillyWindow(s, avail, seq) == avail < SegSize /\ s.written - seq > avail

\* One round of the loop in SendPendingData.
SendNext(s, cWnd) ==
  LET avail == AvailableWindow(s, cWnd)
      next == NextSeg(s)
  IN IF avail = 0 \/ next.max <= 0 \/ SillyWindow(s, avail, next.seq) THEN s
     ELSE SendDataPacket(s, next.seq, Least({avail, next.max}))

\* The loop: every round sends a byte or more, or nothing from then on.
SendPendingData(s, cWnd) ==
  LET round[i \in 0 .. s.written - s.head] ==
        IF i = 0 THEN s ELSE SendNext(round[i - 1], cWnd)
  IN round[s.written - s.head]

-----------------------------------------------------------------------------
(* Acknowledgements at the sender.                                         *)

\* Mutant: any window is taken, that of an old acknowledgement too.
UpdateWindowSizeAlways(s, m) == [s EXCEPT !.rWnd = m.win]

UpdateWindowSize(s, m) ==
  IF \/ m.ack = s.highRxAckMark /\ m.win > s.rWnd
     \/ m.ack > s.highRxAckMark
  THEN [s EXCEPT !.rWnd = m.win, !.highRxAckMark = m.ack]
  ELSE s

EnterPersist(s) ==
  IF s.rWnd = 0 /\ ~s.persist
  THEN [s EXCEPT !.retx = FALSE, !.persist = TRUE] ELSE s

\* Mutant: the probes end, but nothing is sent.
LeavePersistSilently(s, cWnd) ==
  IF s.rWnd # 0 /\ s.persist THEN [s EXCEPT !.persist = FALSE] ELSE s

LeavePersist(s, cWnd) ==
  IF s.rWnd # 0 /\ s.persist
  THEN SendPendingData([s EXCEPT !.persist = FALSE], cWnd) ELSE s

NewAck(s, ack) ==
  [s EXCEPT !.head = ack, !.retx = s.written > ack,
            !.lost = {n \in @ : n >= ack},
            !.nextTx = IF ack > @ THEN ack ELSE @]

\* ProcessEstablished: an acknowledgement below the head or beyond what was
\* sent, as a probe's is, is dropped; its window has been read.
ProcessEstablished(s, m, cWnd) ==
  IF m.ack < s.head \/ m.ack > s.highTx THEN s
  ELSE SendPendingData(IF m.ack > s.head THEN NewAck(s, m.ack) ELSE s, cWnd)

DoForwardUp(s, m, cWnd) ==
  LeavePersist(
    ProcessEstablished(EnterPersist(UpdateWindowSize(s, m)), m, cWnd), cWnd)

-----------------------------------------------------------------------------
(* The receiver.                                                           *)

MaxRx(r) == r.read + Buffer
AdvertisedWindowSize(r) == ((MaxRx(r) - r.nextRx) \div 2^Shift) * 2^Shift
Ack(r) == {[kind |-> "ack", ack |-> r.nextRx, win |-> AdvertisedWindowSize(r)]}

OutOfRange(r, m) == m.seq + m.len < r.nextRx \/ MaxRx(r) <= m.seq

\* Mutant: what lies beyond the buffer is taken, too.
AddRxBeyond(r, m) ==
  LET got == r.stored \cup (m.seq .. m.seq + m.len - 1)
      next == Least({n \in r.nextRx .. Total + SegSize : n \notin got})
  IN [r EXCEPT !.nextRx = next + 1, !.stored = {n \in got : n > next}]

AddRx(r, m) ==
  LET got == r.stored \cup
        {n \in m.seq .. m.seq + m.len - 1 : r.nextRx <= n /\ n < MaxRx(r)}
      next == Least({n \in r.nextRx .. Total + 1 : n \notin got})
  IN [r EXCEPT !.nextRx = next, !.stored = {n \in got : n > next}]

-----------------------------------------------------------------------------
(* The steps.                                                              *)

SenderSteps(s, received) ==
  /\ snd' = [s EXCEPT !.out = {}]
  /\ net' = (net \ received) \cup s.out
  /\ UNCHANGED <<sent, rcv, losses, crashed>>

\* Send of the socket, for one packet: refused when the buffer is full; the
\* data goes a little later.
Send(s) ==
  LET t == [s EXCEPT !.written = @ + SegSize]
  IN IF s.written + SegSize - s.head > TxBuffer THEN s
     ELSE [t EXCEPT !.pending = @ \/ AvailableWindow(t, MaxCWnd) > 0]

\* The application sends at its own rate and counts what was refused, too.
SendPacket ==
  /\ sent < Packets
  /\ sent' = sent + 1 /\ snd' = Send(snd)
  /\ UNCHANGED <<rcv, net, losses, early, crashed>>

CWnds == {n * SegSize : n \in 1 .. MaxCWnd}

PendingEvent ==
  /\ snd.pending
  /\ \E cWnd \in CWnds :
       SenderSteps(SendPendingData([snd EXCEPT !.pending = FALSE], cWnd), {})
  /\ UNCHANGED early

ReceiveAck(m) ==
  /\ m \in net /\ m.kind = "ack"
  /\ \E cWnd \in CWnds : SenderSteps(DoForwardUp(snd, m, cWnd), {m})
  /\ UNCHANGED early

\* All that was sent is marked as lost; the congestion window is one segment.
ReTxTimeout ==
  /\ snd.retx
  /\ early < MaxEarly \/ net = {}
  /\ early' = IF net = {} THEN early ELSE early + 1
  /\ LET s == [snd EXCEPT !.retx = FALSE]
     IN SenderSteps(
          IF s.written = s.head THEN s
          ELSE SendPendingData([s EXCEPT !.lost = s.head .. s.highTx - 1],
                               SegSize), {})

\* The next byte is sent and taken back; without one there is no packet to
\* copy.
PersistTimeout ==
  /\ snd.persist
  /\ IF snd.nextTx = snd.written
     THEN crashed' = TRUE /\ UNCHANGED <<sent, snd, rcv, net, losses>>
     ELSE SenderSteps([snd EXCEPT !.out =
            {[kind |-> "probe", seq |-> snd.nextTx, len |-> 1]}], {})
  /\ UNCHANGED early

\* A segment without new data is acknowledged at once, any other may wait.
ReceiveData(m) ==
  LET r == AddRx(rcv, m)
      useless == OutOfRange(rcv, m) \/ r = rcv
      inOrder == r.stored = {} /\ r.nextRx = rcv.nextRx + m.len
  IN /\ m \in net /\ m.kind \in {"data", "probe"}
     /\ \/ /\ rcv' = [(IF useless THEN rcv ELSE r) EXCEPT !.delAck = FALSE]
           /\ net' = (net \ {m}) \cup Ack(rcv')
        \/ /\ ~useless /\ inOrder /\ ~rcv.delAck
           /\ rcv' = [r EXCEPT !.delAck = TRUE]
           /\ net' = net \ {m}
     /\ UNCHANGED <<sent, snd, losses, early, crashed>>

DelAckTimeout ==
  /\ rcv.delAck
  /\ rcv' = [rcv EXCEPT !.delAck = FALSE]
  /\ net' = net \cup Ack(rcv)
  /\ UNCHANGED <<sent, snd, losses, early, crashed>>

\* The application's Recv, of one byte; no window update is sent.
Recv ==
  /\ rcv.read < rcv.nextRx
  /\ rcv' = [rcv EXCEPT !.read = @ + 1]
  /\ UNCHANGED <<sent, snd, net, losses, early, crashed>>

Lose(m) ==
  /\ m \in net /\ losses < MaxLosses
  /\ net' = net \ {m} /\ losses' = losses + 1
  /\ UNCHANGED <<sent, snd, rcv, early, crashed>>

Timers == PendingEvent \/ ReTxTimeout \/ PersistTimeout \/ DelAckTimeout

Next ==
  ~crashed /\ \/ SendPacket \/ Timers \/ Recv
              \/ \E m \in net : ReceiveAck(m) \/ ReceiveData(m) \/ Lose(m)

Spec == Init /\ [][Next]_vars

\* The scheduler runs every event it holds, the network delivers what it does
\* not lose, and the reader goes on reading.  Nothing makes the writer write.
\* For the handlers that send, weak fairness is written out with the guard in
\* the place of ENABLED, which TLC would be long in evaluating: each of them
\* changes the state whenever its guard holds.
FairSpec ==
  /\ Spec
  /\ WF_vars(~crashed /\ PersistTimeout)
  /\ WF_vars(~crashed /\ DelAckTimeout)
  /\ WF_vars(~crashed /\ Recv)
  /\ []<>~(~crashed /\ snd.pending) \/ []<><<PendingEvent>>_vars
  /\ \/ []<>~(~crashed /\ snd.retx /\ (early < MaxEarly \/ net = {}))
     \/ []<><<ReTxTimeout>>_vars
  /\ \/ []<>~(~crashed /\ \E m \in net : m.kind = "ack")
     \/ []<><<\E m \in net : ReceiveAck(m)>>_vars
  /\ \/ []<>~(~crashed /\ \E m \in net : m.kind # "ack")
     \/ []<><<\E m \in net : ReceiveData(m)>>_vars

-----------------------------------------------------------------------------
(* Properties.                                                             *)

\* The fields hold what the code's types allow, in the order una <= nextTx <=
\* highTx <= written.
TypeOK ==
  /\ sent \in 0 .. Packets
  /\ snd.head \in Bytes /\ snd.nextTx \in snd.head .. snd.highTx
  /\ snd.highTx <= snd.written /\ snd.written \in Bytes
  /\ snd.lost \subseteq snd.head .. snd.highTx - 1 /\ snd.out = {}
  /\ snd.rWnd \in 0 .. Buffer /\ snd.highRxAckMark \in snd.head .. snd.written
  /\ {snd.retx, snd.persist, snd.pending, rcv.delAck, crashed}
       \subseteq BOOLEAN
  /\ rcv.nextRx \in Bytes /\ rcv.read \in 0 .. rcv.nextRx
  /\ rcv.stored \subseteq rcv.nextRx + 1 .. MaxRx(rcv) - 1
  /\ net \subseteq Segments
  /\ losses \in 0 .. MaxLosses /\ early \in 0 .. MaxEarly

\* Only probes leave the receiver's buffer behind: whatever windows arrive
\* late or in another order, no byte is sent for which there is no room
\* (UpdateWindowSize, the assertion of SendDataPacket 2760).
NeverOutOfWindow == snd.highTx <= MaxRx(rcv)

Stream == INSTANCE ByteStream WITH
  written <- snd.written, delivered <- rcv.nextRx, acked <- snd.head

\* The two ends implement the stream: nothing is acknowledged that has not
\* arrived, and all that is written arrives and is acknowledged, through closed
\* windows, lost probes, lost window updates and timeouts meanwhile: a closed
\* window never stays unprobed, nor what waited for an open one unsent.
ImplementsStream == Stream!LiveSpec

\* Not so (FindingsZeroWindow): what the application counts as sent is in the
\* stream.
SentIsWritten == snd.written = sent * SegSize

\* Not so (FindingsZeroWindow): a probe has a byte to send.
ProbeHasData == ~crashed
=============================================================================

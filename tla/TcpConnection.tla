--------------------------- MODULE TcpConnection ---------------------------
(***************************************************************************)
(* The connection state machine of TcpSocketBase (tcp-socket-base.cc): the *)
(* handshake, the transfer and the teardown between two hosts over a       *)
(* network that loses, reorders and, through retransmissions, duplicates   *)
(* segments.                                                               *)
(*                                                                         *)
(* A segment of data takes one sequence number.  A running event is a      *)
(* field of the socket; it may run at any time.  What depends on windows,  *)
(* scoreboard and congestion state is an input: how many new segments a    *)
(* call sends and which outstanding one it retransmits.  ECN is off, the   *)
(* advertised windows stay open and the applications read what arrives.    *)
(***************************************************************************)
EXTENDS Naturals, FiniteSets, Bags

CONSTANTS
  Hosts,         \* the two ends of the connection
  Active,        \* the hosts that call Connect; the others listen
  Data,          \* bound: Data[h] calls of Send on h
  Closers,       \* hosts whose application calls Close
  Shutters,      \* hosts whose application calls ShutdownSend
  SynRetries,    \* m_synRetries
  DataRetries,   \* m_dataRetries
  MaxForks,      \* bound: sockets forked by a listener
  Capacity       \* bound: segments in flight

ASSUME ConnectionAssumption ==
  /\ IsFiniteSet(Hosts) /\ Cardinality(Hosts) = 2
  /\ Active \subseteq Hosts /\ Active # {}
  /\ Closers \subseteq Hosts /\ Shutters \subseteq Hosts
  /\ Data \in [Hosts -> Nat]
  /\ SynRetries \in Nat \ {0} /\ DataRetries \in Nat
  /\ MaxForks \in Nat /\ Capacity \in Nat

VARIABLES
  sock,   \* the socket of each host; for a listener, the one it forked
  app,    \* what its application has done
  forks,  \* sockets forked by a host's listener
  net     \* the segments in flight, a bag

vars == <<sock, app, forks, net>>

Peer(h) == CHOOSE p \in Hosts : p # h

States == {"CLOSED", "SYN_SENT", "SYN_RCVD", "ESTABLISHED", "CLOSE_WAIT",
           "LAST_ACK", "FIN_WAIT_1", "FIN_WAIT_2", "CLOSING", "TIME_WAIT"}
Flags == {"SYN", "SYNACK", "ACK", "FINACK", "RST", "RSTACK"}
\* What m_retxEvent runs: SendEmptyPacket(flags) or ReTxTimeout().
RetxEvents == {"none", "SYN", "SYNACK", "FINACK", "data"}

Segments == [to : Hosts, flags : Flags, seq : Nat, ack : Nat, len : {0, 1}]

Closed == [
  state |-> "CLOSED", endPoint |-> FALSE, connected |-> FALSE,
  nextTx |-> 0, highTx |-> 0, head |-> 0, size |-> 0,     \* m_txBuffer
  nextRx |-> 0, stored |-> {}, fin |-> 0,                 \* m_rxBuffer
  closeOnEmpty |-> FALSE, shutdownSend |-> FALSE, closeNotified |-> FALSE,
  synCount |-> 0, dataRetrCount |-> 0,
  retx |-> "none", delAck |-> FALSE, lastAck |-> FALSE, timeWait |-> FALSE,
  pending |-> FALSE,                                \* m_sendPendingDataEvent
  told |-> {},           \* notifications the application got
  out |-> {}]            \* segments the current handler sends

Init ==
  /\ sock = [h \in Hosts |-> Closed]
  /\ app = [h \in Hosts |-> [sends |-> 0, closed |-> FALSE, shut |-> FALSE]]
  /\ forks = [h \in Hosts |-> 0]
  /\ net = EmptyBag

Larger(a, b) == IF a >= b THEN a ELSE b
Smaller(a, b) == IF a <= b THEN a ELSE b
End(s) == s.head + s.size
SizeFrom(s, seq) == IF seq >= End(s) THEN 0 ELSE End(s) - seq

-----------------------------------------------------------------------------
(* The receive buffer (TcpRxBuffer, ns-3).  fin = 0: no FIN seen.          *)

Finished(s) == s.fin # 0 /\ s.fin < s.nextRx

SetFin(s, seq) ==
  [s EXCEPT !.fin = seq, !.nextRx = IF @ = seq THEN @ + 1 ELSE @]

AddRx(s, seq) ==
  LET got == s.stored \cup {seq}
      next == CHOOSE n \in {s.nextRx} \cup {i + 1 : i \in got} :
                /\ n >= s.nextRx /\ n \notin got
                /\ \A i \in s.nextRx .. n - 1 : i \in got
  IN [s EXCEPT !.nextRx = IF s.fin # 0 /\ next = s.fin THEN next + 1 ELSE next,
               !.stored = {i \in got : i > next}]

-----------------------------------------------------------------------------
(* Sending.                                                                *)

Told(s, what) == [s EXCEPT !.told = @ \cup {what}]

\* Mutant: the timers survive the endpoint.
DeallocateEndPointKeepsRetx(s) == [s EXCEPT !.endPoint = FALSE]

DeallocateEndPoint(s) ==
  IF ~s.endPoint THEN s
  ELSE [s EXCEPT !.endPoint = FALSE, !.retx = "none", !.delAck = FALSE,
                 !.lastAck = FALSE, !.timeWait = FALSE, !.pending = FALSE]

Emit(s, flags, seq, len) ==
  [s EXCEPT !.out = @ \cup {[flags |-> flags, seq |-> seq, ack |-> s.nextRx,
                             len |-> len]}]

\* One SYN or SYN+ACK of m_synRetries is spent.
\* Mutants: two at once; none, so that a handshake never runs out.
RetryTwice(s) == [s EXCEPT !.synCount = @ - 2]
RetryUncounted(s) == s

Retry(s) == [s EXCEPT !.synCount = @ - 1]

SendEmptyPacket(s, flags) ==
  LET syn == flags \in {"SYN", "SYNACK"}
      seq == IF /\ flags # "FINACK"
                /\ s.state \in {"FIN_WAIT_1", "LAST_ACK", "CLOSING"}
             THEN s.nextTx + 1 ELSE s.nextTx
      sent == [Emit(IF syn THEN Retry(s) ELSE s, flags, seq, 0) EXCEPT
                 !.delAck = @ /\ flags \in {"SYN", "RST"}]
  IN IF ~s.endPoint THEN s
     ELSE IF syn /\ s.synCount = 0
     THEN DeallocateEndPoint(Told([s EXCEPT !.state = "CLOSED"], "failed"))
     ELSE IF (syn \/ flags = "FINACK") /\ s.retx = "none"
     THEN [sent EXCEPT !.retx = flags]
     ELSE sent

SendRST(s) == DeallocateEndPoint(Told(SendEmptyPacket(s, "RST"), "error"))

CloseAndNotify(s) ==
  LET t == IF s.closeNotified THEN s
           ELSE [Told(s, "closed") EXCEPT !.closeNotified = TRUE]
  IN DeallocateEndPoint([t EXCEPT !.state = "CLOSED", !.lastAck = FALSE])

\* Mutant: only new data starts the timer.
SendDataPacketTimesNew(s, seq) ==
  [Emit(s, "ACK", seq, 1) EXCEPT
     !.retx = IF @ = "none" /\ seq >= s.highTx THEN "data" ELSE @,
     !.highTx = Larger(@, seq + 1)]

SendDataPacket(s, seq) ==
  LET last == s.closeOnEmpty /\ SizeFrom(s, seq + 1) = 0
      t == [Emit(s, IF last THEN "FINACK" ELSE "ACK", seq, 1) EXCEPT
              !.delAck = FALSE,
              !.retx = IF @ = "none" THEN "data" ELSE @,
              !.highTx = Larger(@, seq + 1)]
  IN CASE last /\ s.state = "ESTABLISHED" -> [t EXCEPT !.state = "FIN_WAIT_1"]
       [] last /\ s.state = "CLOSE_WAIT" -> [t EXCEPT !.state = "LAST_ACK"]
       [] OTHER -> t

DoRetransmit(s, seq) == SendDataPacket([s EXCEPT !.nextTx = seq], seq)

\* A round of the loop: the next new segment, while there is one.
SendNext(s) ==
  IF SizeFrom(s, s.highTx) = 0 THEN s
  ELSE [SendDataPacket(s, s.highTx) EXCEPT !.nextTx = s.highTx + 1]

\* lost: the segment the scoreboard wants again, 0 for none; k: the new
\* segments the windows allow, at least one when nothing is in flight.
SendPendingData(s, lost, k) ==
  LET again == IF lost \in s.head .. s.highTx - 1
               THEN [SendDataPacket(s, lost) EXCEPT !.nextTx = lost + 1]
               ELSE s
      allowed == IF s.head = s.highTx THEN Larger(k, 1) ELSE k
      round[i \in 0 .. allowed] ==
        IF i = 0 THEN again ELSE SendNext(round[i - 1])
  IN IF s.size = 0 \/ ~s.endPoint THEN s ELSE round[allowed]

-----------------------------------------------------------------------------
(* Closing.                                                                *)

DoClose(s) ==
  CASE s.state \in {"SYN_RCVD", "ESTABLISHED"} ->
         [SendEmptyPacket(s, "FINACK") EXCEPT !.state = "FIN_WAIT_1"]
    [] s.state = "CLOSE_WAIT" ->
         [SendEmptyPacket(s, "FINACK") EXCEPT !.state = "LAST_ACK"]
    [] s.state \in {"SYN_SENT", "CLOSING"} -> CloseAndNotify(SendRST(s))
    [] OTHER -> s

Close(s) ==
  IF s.stored # {} THEN SendRST(s)
  ELSE IF SizeFrom(s, s.nextTx) > 0 THEN [s EXCEPT !.closeOnEmpty = TRUE]
  ELSE DoClose(s)

ShutdownSend(s) ==
  LET t == [s EXCEPT !.shutdownSend = TRUE, !.closeOnEmpty = TRUE]
  IN IF t.size = 0 /\ t.state \in {"ESTABLISHED", "CLOSE_WAIT"}
     THEN [SendEmptyPacket(t, "FINACK") EXCEPT
             !.state = IF @ = "ESTABLISHED" THEN "FIN_WAIT_1" ELSE "LAST_ACK"]
     ELSE t

DoPeerClose(s) ==
  LET t == [Told(s, "closed") EXCEPT !.state = "CLOSE_WAIT",
                                     !.closeNotified = TRUE]
      u == IF s.shutdownSend THEN Close(t) ELSE SendEmptyPacket(t, "ACK")
  IN IF u.state = "LAST_ACK"
     THEN [u EXCEPT !.dataRetrCount = DataRetries, !.lastAck = TRUE]
     ELSE u

TimeWait(s) ==
  [Told(s, "closed") EXCEPT
     !.state = "TIME_WAIT", !.closeNotified = TRUE, !.retx = "none",
     !.delAck = FALSE, !.lastAck = FALSE, !.pending = FALSE,
     !.timeWait = TRUE]

-----------------------------------------------------------------------------
(* Receiving.  in holds the inputs: a fast retransmission, a retransmission*)
(* by SendPendingData and its new segments, what NewAck does in the        *)
(* congestion state, and whether the acknowledgement is delayed.           *)

AckKinds == {"restart", "partial", "disorder"}
Inputs(s) ==
  LET again == {0} \cup s.head .. s.highTx - 1
  IN [fast : again, lost : again, k : 0 .. SizeFrom(s, s.highTx),
      kind : IF again = {0} THEN {"restart"} ELSE AckKinds, delay : BOOLEAN]

ReceivedData(s, m, in) ==
  LET t == AddRx(s, m.seq)
      new == m.seq >= s.nextRx /\ m.seq \notin s.stored
      gap == t.stored # {} \/ t.nextRx > s.nextRx + 1
  IN CASE ~new -> SendEmptyPacket(s, "ACK")
       [] new /\ t.nextRx > s.nextRx /\ Finished(t) /\ m.flags # "FINACK" ->
            DoPeerClose(t)
       [] OTHER ->
            IF ~gap /\ in.delay /\ ~s.delAck THEN [t EXCEPT !.delAck = TRUE]
            ELSE SendEmptyPacket(t, "ACK")

\* ESTABLISHED and SYN_RCVD.
PeerClose(s, m, in) ==
  LET t == SetFin(s, m.seq + m.len)
      u == IF m.len > 0 THEN ReceivedData(t, m, in) ELSE t
  IN IF m.seq < s.nextRx \/ (s.fin # 0 /\ m.seq > s.fin) THEN s
     ELSE IF Finished(u) THEN DoPeerClose(u) ELSE u

NewAck(s, ack, resetRTO) ==
  LET t == [s EXCEPT
              !.dataRetrCount = DataRetries,
              !.retx = IF s.state # "SYN_RCVD" /\ resetRTO THEN "data" ELSE @,
              !.nextTx = Larger(@, ack)]
  IN IF s.size = 0 /\ s.state \notin {"FIN_WAIT_1", "CLOSING"}
     THEN [t EXCEPT !.retx = "none"] ELSE t

ProcessAck(s, ack, oldHead, in) ==
  LET t == IF in.fast \in s.head .. s.highTx - 1 THEN DoRetransmit(s, in.fast)
           ELSE s
  IN CASE ack = oldHead /\ ack <= s.highTx -> t
       [] ack = oldHead /\ ack > s.highTx -> [t EXCEPT !.nextTx = ack]
       [] ack > oldHead /\ in.kind = "disorder" /\ s.size > 0 -> t
       [] OTHER -> NewAck(t, ack, in.kind # "partial" \/ s.size = 0)

\* Mutant: everything outstanding is discarded.
ReceivedAckDiscardsAll(s, m, in) ==
  LET all == [m EXCEPT !.ack = s.highTx]
  IN IF m.ack < s.head THEN s
     ELSE SendPendingData(ProcessAck([s EXCEPT !.head = all.ack,
                                               !.size = SizeFrom(s, all.ack)],
                                     all.ack, s.head, in), in.lost, in.k)

ReceivedAck(s, m, in) ==
  LET t == [s EXCEPT !.head = m.ack,
                     !.size = IF m.ack >= End(s) THEN 0 ELSE End(s) - m.ack]
      u == ProcessAck(t, m.ack, s.head, in)
      v == IF m.len > 0 THEN ReceivedData(u, m, in) ELSE u
  IN IF m.ack < s.head
     THEN IF m.len > 0 THEN ReceivedData(s, m, in) ELSE s
     ELSE SendPendingData(v, in.lost, in.k)

\* An established connection: SYN and SYN+ACK count from here.
Connected(s) ==
  [s EXCEPT !.state = "ESTABLISHED", !.connected = TRUE, !.retx = "none",
            !.highTx = s.nextTx + 1, !.nextTx = @ + 1, !.head = s.nextTx + 1]

\* Mutant: the application is not notified.
IllegalSilent(s, m) == DeallocateEndPoint([s EXCEPT !.state = "CLOSED"])

\* A segment that has no place in the state: it is answered with a reset,
\* unless it is one, and the socket closes.
Illegal(s, m) ==
  CloseAndNotify(IF m.flags = "RST" THEN s ELSE SendRST(s))

ProcessEstablished(s, m, in) ==
  CASE m.flags = "ACK" /\ m.ack < s.head -> s
    [] m.flags = "ACK" /\ m.ack >= s.head /\ m.ack > s.highTx ->
         SendEmptyPacket(s, "ACK")
    [] m.flags = "ACK" /\ m.ack \in s.head .. s.highTx -> ReceivedAck(s, m, in)
    [] m.flags \in {"SYN", "SYNACK"} -> s
    [] m.flags = "FINACK" -> PeerClose(s, m, in)
    [] OTHER -> Illegal(s, m)

ProcessSynSent(s, m, in) ==
  CASE m.flags \in {"ACK", "FINACK", "RSTACK"} -> s
    [] m.flags = "SYN" ->
         SendEmptyPacket([s EXCEPT !.state = "SYN_RCVD", !.nextRx = m.seq + 1,
                                   !.synCount = SynRetries], "SYNACK")
    [] m.flags = "SYNACK" /\ m.ack = s.nextTx + 1 ->
         LET t == [Connected(s) EXCEPT !.nextRx = m.seq + 1]
         IN Told(SendPendingData(SendEmptyPacket(t, "ACK"), in.lost, in.k),
                 "connected")
    [] OTHER -> Illegal(s, m)

ProcessSynRcvd(s, m, in) ==
  CASE m.flags = "ACK" /\ m.ack = s.nextTx + 1 ->
         ReceivedAck(Told(Connected(s), "accepted"), m, in)
    [] m.flags = "SYN" ->
         SendEmptyPacket([s EXCEPT !.nextRx = m.seq + 1], "SYNACK")
    [] m.flags = "FINACK" /\ m.seq = s.nextRx ->
         PeerClose([Told(Connected(s), "accepted") EXCEPT !.state = "SYN_RCVD"],
                   m, in)
    [] m.flags = "FINACK" /\ m.seq # s.nextRx -> s
    [] OTHER -> Illegal(s, m)

\* FIN_WAIT_1, FIN_WAIT_2 and CLOSE_WAIT, with the answer to a FIN in sequence.
AnswerFin(s, m) ==
  LET finAcked == s.size = 0 /\ m.ack = s.highTx + 1
      t == IF s.state = "FIN_WAIT_2" \/ finAcked THEN TimeWait(s)
           ELSE [s EXCEPT !.state = "CLOSING"]
  IN IF s.state \in {"FIN_WAIT_1", "FIN_WAIT_2"} /\ Finished(s)
     THEN SendEmptyPacket(t, "ACK") ELSE s

ProcessWait(s, m, in) ==
  CASE m.flags = "ACK" ->
         LET t == ReceivedAck(s, m, in)
         IN AnswerFin(IF /\ t.state = "FIN_WAIT_1" /\ t.size = 0
                         /\ m.ack = t.highTx + 1
                      THEN [t EXCEPT !.state = "FIN_WAIT_2"] ELSE t, m)
    [] m.flags = "FINACK" -> AnswerFin(SetFin(ReceivedAck(s, m, in), m.seq), m)
    [] m.flags \in {"SYN", "SYNACK"} -> s
    [] OTHER -> Illegal(s, m)

ProcessClosing(s, m) ==
  CASE m.flags = "ACK" -> IF m.seq = s.nextRx THEN TimeWait(s) ELSE s
    [] m.flags = "FINACK" -> CloseAndNotify(SendEmptyPacket(s, "ACK"))
    [] OTHER -> Illegal(s, m)

ProcessLastAck(s, m) ==
  CASE m.flags = "ACK" -> IF m.seq = s.nextRx THEN CloseAndNotify(s) ELSE s
    [] m.flags = "FINACK" -> CloseAndNotify(s)
    [] OTHER -> Illegal(s, m)

OutOfRange(s, m) ==
  CASE s.state \in {"SYN_SENT", "SYN_RCVD"} -> FALSE
    [] s.state \in {"LAST_ACK", "CLOSING", "CLOSE_WAIT"} -> m.seq # s.nextRx
    [] OTHER -> m.seq + 1 < s.nextRx \/ (s.fin # 0 /\ s.fin <= m.seq)

DoForwardUp(s, m, in) ==
  IF m.len > 0 /\ OutOfRange(s, m) THEN SendEmptyPacket(s, "ACK")
  ELSE CASE s.state = "ESTABLISHED" -> ProcessEstablished(s, m, in)
         [] s.state = "SYN_SENT" -> ProcessSynSent(s, m, in)
         [] s.state = "SYN_RCVD" -> ProcessSynRcvd(s, m, in)
         [] s.state \in {"FIN_WAIT_1", "FIN_WAIT_2", "CLOSE_WAIT"} ->
              ProcessWait(s, m, in)
         [] s.state = "CLOSING" -> ProcessClosing(s, m)
         [] s.state = "LAST_ACK" -> ProcessLastAck(s, m)
         [] OTHER -> s

-----------------------------------------------------------------------------
(* Steps.                                                                  *)

\* Some of what a handler sends is lost: by the links, or for want of room.
Send(h, out, rest) ==
  \E kept \in SUBSET out :
    LET new == SetToBag({[to |-> Peer(h), flags |-> m.flags, seq |-> m.seq,
                          ack |-> m.ack, len |-> m.len] : m \in kept})
    IN /\ BagCardinality(rest (+) new) <= Capacity
       /\ net' = rest (+) new

\* The socket of h becomes s; rest is left of the network.
Become(h, s, rest) ==
  /\ sock' = [sock EXCEPT ![h] = [s EXCEPT !.out = {}]]
  /\ Send(h, s.out, rest)

DoConnect(s) == [SendEmptyPacket(s, "SYN") EXCEPT !.state = "SYN_SENT"]

\* Connect, of an application that connects once.
Connect(h) ==
  /\ h \in Active /\ sock[h] = Closed
  /\ Become(h, DoConnect([Closed EXCEPT !.endPoint = TRUE,
                                        !.synCount = SynRetries,
                                        !.dataRetrCount = DataRetries]), net)
  /\ UNCHANGED <<app, forks>>

CompleteFork(m) ==
  SendEmptyPacket([Closed EXCEPT !.state = "SYN_RCVD", !.endPoint = TRUE,
                                 !.synCount = SynRetries,
                                 !.dataRetrCount = DataRetries,
                                 !.nextRx = m.seq + 1], "SYNACK")

\* ProcessListen schedules CompleteFork for the same instant.
Fork(h, m) ==
  /\ h \notin Active /\ ~sock[h].endPoint /\ forks[h] < MaxForks
  /\ m.to = h /\ m.flags = "SYN"
  /\ Become(h, CompleteFork(m), net (-) SetToBag({m}))
  /\ forks' = [forks EXCEPT ![h] = @ + 1]
  /\ app' = [app EXCEPT ![h] = [sends |-> 0, closed |-> FALSE, shut |-> FALSE]]

\* ForwardUp: a segment reaches the socket.
ForwardUp(h, m) ==
  /\ m.to = h /\ sock[h].endPoint
  /\ \E in \in Inputs(sock[h]) :
       Become(h, DoForwardUp(sock[h], m, in), net (-) SetToBag({m}))
  /\ UNCHANGED <<app, forks>>

\* No socket: the listener ignores what is not a SYN, and without a listener
\* TcpL4Protocol answers with a reset.  Beyond MaxForks a SYN is lost.
Unanswered(h, m) ==
  /\ m.to = h /\ ~sock[h].endPoint
  /\ (h \notin Active /\ m.flags = "SYN") => forks[h] = MaxForks
  /\ LET reset == [flags |-> IF m.flags = "SYN" THEN "RSTACK" ELSE "RST",
                   seq |-> IF m.flags = "SYN" THEN 0 ELSE m.ack,
                   ack |-> IF m.flags = "SYN" THEN m.seq + 1 ELSE 0,
                   len |-> 0]
         answer == h \in Active /\ m.flags \notin {"RST", "RSTACK"}
     IN Send(h, IF answer THEN {reset} ELSE {}, net (-) SetToBag({m}))
  /\ UNCHANGED <<sock, app, forks>>

\* A forked socket is the application's once the connection is accepted.
Usable(h) == h \in Active \/ sock[h].connected

\* Send.  Data is stored before m_shutdownSend is looked at.
AppSend(h) ==
  LET s == sock[h]
      t == [s EXCEPT !.size = @ + 1]
  IN /\ Usable(h) /\ app[h].sends < Data[h] /\ ~app[h].closed
     /\ s.state \in {"ESTABLISHED", "SYN_SENT", "CLOSE_WAIT"}
     /\ \E window \in {TRUE, s.head = s.highTx} :
          Become(h, IF ~s.shutdownSend /\ s.state # "SYN_SENT" /\ window
                    THEN [t EXCEPT !.pending = TRUE] ELSE t, net)
     /\ app' = [app EXCEPT ![h].sends = @ + 1]
     /\ UNCHANGED forks

AppClose(h) ==
  /\ h \in Closers /\ Usable(h) /\ sock[h].state # "CLOSED"
  /\ ~app[h].closed
  /\ Become(h, Close(sock[h]), net)
  /\ app' = [app EXCEPT ![h].closed = TRUE]
  /\ UNCHANGED forks

AppShutdown(h) ==
  /\ h \in Shutters /\ Usable(h) /\ sock[h].state # "CLOSED"
  /\ ~app[h].shut /\ ~app[h].closed
  /\ Become(h, ShutdownSend(sock[h]), net)
  /\ app' = [app EXCEPT ![h].shut = TRUE]
  /\ UNCHANGED forks

\* The event of Send.
PendingEvent(h) ==
  /\ sock[h].pending
  /\ \E k \in 0 .. SizeFrom(sock[h], sock[h].highTx) :
       Become(h, SendPendingData([sock[h] EXCEPT !.pending = FALSE], 0, k), net)
  /\ UNCHANGED <<app, forks>>

\* m_retxEvent running SendEmptyPacket: a SYN, SYN+ACK or FIN again.
RetransmitEmpty(h) ==
  /\ sock[h].retx \in {"SYN", "SYNACK", "FINACK"}
  /\ Become(h, SendEmptyPacket([sock[h] EXCEPT !.retx = "none"], sock[h].retx),
            net)
  /\ UNCHANGED <<app, forks>>

\* Mutant: the retries are not counted.
AfterReTxTimeoutForEver(s) ==
  IF s.size = 0 THEN s
  ELSE [SendDataPacket(s, s.head) EXCEPT !.nextTx = s.head + 1]

\* m_retxEvent running ReTxTimeout: one segment, the head of the buffer.
AfterReTxTimeout(s) ==
  LET finLost == s.size = 0 /\ s.state \in {"FIN_WAIT_1", "CLOSING"}
  IN IF s.state \in {"CLOSED", "TIME_WAIT"} \/ (s.size = 0 /\ ~finLost) THEN s
     ELSE IF finLost THEN SendEmptyPacket(s, "FINACK")
     ELSE IF s.dataRetrCount = 0 THEN DeallocateEndPoint(Told(s, "error"))
     ELSE [SendDataPacket([s EXCEPT !.dataRetrCount = @ - 1], s.head)
             EXCEPT !.nextTx = s.head + 1]

ReTxTimeout(h) ==
  /\ sock[h].retx = "data"
  /\ Become(h, AfterReTxTimeout([sock[h] EXCEPT !.retx = "none"]), net)
  /\ UNCHANGED <<app, forks>>

DelAckTimeout(h) ==
  /\ sock[h].delAck
  /\ Become(h, SendEmptyPacket([sock[h] EXCEPT !.delAck = FALSE], "ACK"), net)
  /\ UNCHANGED <<app, forks>>

\* Mutant: the retries are not counted.
AfterLastAckTimeoutForEver(s) ==
  IF s.state # "LAST_ACK" THEN s
  ELSE [SendEmptyPacket(s, "FINACK") EXCEPT !.lastAck = TRUE]

AfterLastAckTimeout(s) ==
  CASE s.state # "LAST_ACK" -> s
    [] s.state = "LAST_ACK" /\ s.dataRetrCount = 0 ->
         DeallocateEndPoint(Told(s, "error"))
    [] OTHER -> [SendEmptyPacket([s EXCEPT !.dataRetrCount = @ - 1], "FINACK")
                   EXCEPT !.lastAck = TRUE]

LastAckTimeout(h) ==
  /\ sock[h].lastAck
  /\ Become(h, AfterLastAckTimeout([sock[h] EXCEPT !.lastAck = FALSE]), net)
  /\ UNCHANGED <<app, forks>>

\* m_timewaitEvent running CloseAndNotify.
TimeWaitExpires(h) ==
  /\ sock[h].timeWait
  /\ Become(h, CloseAndNotify([sock[h] EXCEPT !.timeWait = FALSE]), net)
  /\ UNCHANGED <<app, forks>>

Events(h) ==
  \/ PendingEvent(h) \/ RetransmitEmpty(h) \/ ReTxTimeout(h)
  \/ DelAckTimeout(h) \/ LastAckTimeout(h) \/ TimeWaitExpires(h)

Next == \E h \in Hosts :
  \/ Connect(h)
  \/ \E m \in BagToSet(net) :
       Fork(h, m) \/ ForwardUp(h, m) \/ Unanswered(h, m)
  \/ AppSend(h) \/ AppClose(h) \/ AppShutdown(h)
  \/ Events(h)

Spec == Init /\ [][Next]_vars

\* The scheduler runs every event it holds.
FairSpec == Spec /\ \A h \in Hosts :
  /\ WF_vars(PendingEvent(h)) /\ WF_vars(RetransmitEmpty(h))
  /\ WF_vars(ReTxTimeout(h)) /\ WF_vars(DelAckTimeout(h))
  /\ WF_vars(LastAckTimeout(h)) /\ WF_vars(TimeWaitExpires(h))

-----------------------------------------------------------------------------
(* Properties.                                                             *)

\* The numbers have no bound in Data: between the two connections of a listener
\* that forks twice, stale acknowledgements and FINs push each other on.
TypeOK ==
  /\ \A h \in Hosts :
       /\ DOMAIN sock[h] = DOMAIN Closed
       /\ sock[h].state \in States /\ sock[h].retx \in RetxEvents
       /\ \A f \in {"nextTx", "highTx", "head", "size", "nextRx", "fin"} :
            sock[h][f] \in Nat
       /\ sock[h].stored \subseteq Nat /\ sock[h].highTx <= End(sock[h])
       /\ sock[h].synCount \in 0..SynRetries
       /\ sock[h].dataRetrCount \in 0..DataRetries
       /\ sock[h].out = {}
  /\ \A h \in Hosts : app[h].sends \in 0..Data[h] /\ forks[h] \in 0..MaxForks
  /\ IsABag(net) /\ BagToSet(net) \subseteq Segments
  /\ BagCardinality(net) <= Capacity

\* A stretch of sockets that belong to one connection: nobody forked twice.
OneConnection == \A h \in Hosts : forks[h] <= 1

\* In a simultaneous open a FIN sent in SYN_RCVD takes the number of the SYN, and
\* its acknowledgement is the SYN's: what is said of FINs holds of one opener.
OneOpener == OneConnection /\ Active # Hosts

\* What a sender discards as acknowledged, the FIN included, its peer has
\* received, whatever acknowledgements are late, doubled or reordered.
AckedWasReceived == OneConnection => \A h \in Hosts :
  sock[h].connected => sock[h].head <= Larger(sock[Peer(h)].nextRx, 1)

\* What a receiver holds or has delivered its peer has sent: nothing beyond the
\* highest mark, unless the FIN was taken.
ReceivedWasSent == OneOpener => \A h \in Hosts :
  /\ \A i \in sock[h].stored : i < sock[Peer(h)].highTx
  /\ Finished(sock[h]) \/ sock[h].nextRx <= Larger(sock[Peer(h)].highTx, 1)

\* FIN_WAIT_2 is reached only when the peer has taken the FIN.
FinWait2IsAcked == OneOpener => \A h \in Hosts :
  sock[h].state = "FIN_WAIT_2" => Finished(sock[Peer(h)])

\* What the two ends believe of each other is so: acknowledged data was
\* received, received data was sent, an acknowledged FIN was taken.
EndsAgree == AckedWasReceived /\ ReceivedWasSent /\ FinWait2IsAcked

\* Unacknowledged data never waits without a timer: while it is outstanding a
\* live socket has its retransmission event scheduled.
OutstandingIsTimed == \A h \in Hosts :
  (sock[h].endPoint /\ sock[h].connected /\ sock[h].state # "TIME_WAIT"
     /\ sock[h].head < sock[h].highTx) => sock[h].retx # "none"

\* A socket without an endpoint has no event left that would run on it and
\* dereference the endpoint (SendDataPacket, DeallocateEndPoint).
DeadIsQuiet == \A h \in Hosts : ~sock[h].endPoint =>
  /\ sock[h].retx = "none" /\ ~sock[h].delAck
  /\ ~sock[h].lastAck /\ ~sock[h].timeWait

\* Whatever takes the endpoint away, the application has been told: that the
\* connection failed, broke or closed.
DeathIsTold == \A h \in Hosts : sock[h] = Closed \/ sock[h].endPoint \/
  sock[h].told \cap {"failed", "error", "closed"} # {}

\* Within a connection what was delivered, acknowledged or sent stays so: a
\* late segment moves none of the three marks back.
NeverBackwards == [][\A h \in Hosts :
  (sock[h].connected /\ sock'[h].connected /\ forks'[h] = forks[h]) =>
    /\ sock'[h].nextRx >= sock[h].nextRx
    /\ sock'[h].head >= sock[h].head
    /\ sock'[h].highTx >= sock[h].highTx]_vars

\* A connection attempt ends, whatever the network loses: the retransmitted
\* SYN and SYN+ACK run out.
HandshakeEnds == \A h \in Hosts :
  sock[h].state \in {"SYN_SENT", "SYN_RCVD"} ~>
    sock[h].state \notin {"SYN_SENT", "SYN_RCVD"}

\* Data in flight is acknowledged or the connection is given up: m_dataRetrCount
\* counts the timeouts down however they mix with the other handlers.
DataEnds == \A h \in Hosts :
  (sock[h].endPoint /\ sock[h].connected /\ sock[h].head < sock[h].highTx) ~>
    (~sock[h].endPoint \/ sock[h].head >= sock[h].highTx)

\* "prevent endless FINs" (tcp-socket-base.cc:2372): a socket that closes on
\* its peer's FIN leaves LAST_ACK or dies.
LastAckEnds == \A h \in Hosts :
  sock[h].lastAck ~> ~sock[h].endPoint

-----------------------------------------------------------------------------
(* What comments of the source say and the code does not do.               *)

\* "otherwise fin will go when buffer empties" (tcp-socket-base.cc:683): a
\* socket closed for sending with nothing left to send has sent its FIN.
FinGoes == \A h \in Hosts :
  (sock[h].endPoint /\ sock[h].shutdownSend /\ app[h].sends > 0
     /\ sock[h].size = 0) =>
    sock[h].state \notin {"ESTABLISHED", "CLOSE_WAIT"}

\* "Need to ack, the application will close later" (tcp-socket-base.cc:2368):
\* in CLOSE_WAIT the application has its Close to call, or a FIN to come.
CloseWaitIsOpen == \A h \in Hosts :
  (sock[h].state = "CLOSE_WAIT" /\ sock[h].endPoint /\ app[h].closed) =>
    sock[h].closeOnEmpty

\* "This ACK corresponds to the FIN sent. This socket closed peacefully."
\* (tcp-socket-base.cc:2292): the ACK that ends LAST_ACK has seen the FIN.
LastAckIsOfFin == [][OneConnection =>
  \A h \in Hosts : \A m \in BagToSet(net) :
    (/\ sock[h].state = "LAST_ACK" /\ m.flags = "ACK" /\ ForwardUp(h, m)
     /\ sock'[h].state = "CLOSED") => Finished(sock[Peer(h)])]_vars

\* "this prevents data from being added to the buffer"
\* (tcp-socket-base.cc:679): once ShutdownSend was called the buffer of unsent
\* and unacknowledged data only shrinks.
ShutdownStopsData == [][\A h \in Hosts :
  (sock[h].shutdownSend /\ sock'[h].shutdownSend) =>
    sock'[h].size <= sock[h].size]_vars

\* "This ACK corresponds to the FIN sent" (tcp-socket-base.cc:2197): however
\* the connection was opened, the ACK that leads to FIN_WAIT_2 has seen the FIN.
FinWait2AckIsOfFin == OneConnection => \A h \in Hosts :
  sock[h].state = "FIN_WAIT_2" => Finished(sock[Peer(h)])

\* "Check if the close responder sent an in-sequence FIN, if so, respond ACK"
\* (tcp-socket-base.cc:2225): a socket in TIME_WAIT acknowledges the FIN.
TimeWaitAcksFin == OneConnection => \A h \in Hosts :
  sock[h].state = "TIME_WAIT" => sock[h].nextRx > sock[Peer(h)].highTx
=============================================================================

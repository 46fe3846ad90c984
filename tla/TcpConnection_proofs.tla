----------------------- MODULE TcpConnection_proofs -----------------------
(***************************************************************************)
(* The connection state machine for any amount of data, any retries, any   *)
(* number of forks and any capacity of the network: what holds of a socket *)
(* after every handler, and of the two ends with what is in flight.        *)
(*                                                                         *)
(* IInv carries timers, notifications, marks and acknowledgements; Numbers,*)
(* at the end, the numbers of data and FINs where one host opens.          *)
(***************************************************************************)
EXTENDS TcpConnection, FiniteSetTheorems, TLAPS

-----------------------------------------------------------------------------
(* The inductive invariant.                                                *)

Handshake == {"SYN_SENT", "SYN_RCVD"}
Acking == {"ACK", "FINACK"}
Ends == {"failed", "error", "closed"}

Sendings == [flags : Flags, seq : Nat, ack : Nat, len : {0, 1}]

Sockets == [
  state : States, endPoint : BOOLEAN, connected : BOOLEAN,
  nextTx : Nat, highTx : Nat, head : Nat, size : Nat,
  nextRx : Nat, stored : SUBSET Nat, fin : Nat,
  closeOnEmpty : BOOLEAN, shutdownSend : BOOLEAN, closeNotified : BOOLEAN,
  synCount : 0..SynRetries, dataRetrCount : 0..DataRetries,
  retx : RetxEvents, delAck : BOOLEAN, lastAck : BOOLEAN, timeWait : BOOLEAN,
  pending : BOOLEAN, told : SUBSET (Ends \cup {"connected", "accepted"}),
  out : SUBSET Sendings]

\* No event is left that runs on the socket.
Quiet(s) == s.retx = "none" /\ ~s.delAck /\ ~s.lastAck /\ ~s.timeWait

\* A socket within a handler: nothing was sent beyond the end of the buffer,
\* nothing acknowledged beyond what was received, and a dead socket is quiet.
Core(s) ==
  /\ s \in Sockets /\ IsFiniteSet(s.stored)
  /\ s.highTx <= End(s)
  /\ s.closeNotified => "closed" \in s.told
  /\ ~s.endPoint => Quiet(s)
  /\ \A x \in s.out : x.flags \in Acking => x.ack <= s.nextRx

\* The application of a dead socket knows.
Informed(s) == s.told \cap Ends # {}

Sane(s) ==
  /\ Core(s)
  /\ s.state = "CLOSED" => ~s.endPoint
  /\ ~s.endPoint => Informed(s)

\* What is outstanding has a timer.
Timed(s) ==
  (s.endPoint /\ s.connected /\ s.state # "TIME_WAIT" /\ s.head < s.highTx) =>
    s.retx # "none"

\* In the handshake nothing but SYNs and SYN+ACKs was ever sent.
Fresh(s) == s.state \in Handshake =>
  /\ ~s.connected /\ s.nextTx = 0 /\ s.head = 0 /\ s.highTx = 0
  /\ s.fin = 0 /\ s.stored = {} /\ (s.state = "SYN_RCVD" => s.nextRx >= 1)
  /\ s.retx \in {"none", "SYN", "SYNACK"} /\ ~s.delAck /\ ~s.pending
  /\ \A x \in s.out : x.flags \notin Acking

\* What h was told of in acknowledgements, by its head or a segment in flight,
\* its peer p has received; and a peer in the handshake has told nothing.
Heard(h, s, p, msgs) ==
  /\ s.head <= Larger(p.nextRx, 1)
  /\ \A m \in msgs : (m.to = h /\ m.flags \in Acking) => m.ack <= p.nextRx
  /\ (p = Closed \/ p.state \in Handshake) =>
       /\ s.head <= 1
       /\ \A m \in msgs : m.to = h => m.flags \notin Acking

IInv ==
  /\ sock = [h \in Hosts |-> sock[h]] /\ forks \in [Hosts -> Nat]
  /\ \A h \in Hosts :
       \/ sock[h] = Closed
       \/ Sane(sock[h]) /\ Timed(sock[h]) /\ Fresh(sock[h]) /\ sock[h].out = {}
  /\ \A h \in Hosts : (h \notin Active /\ forks[h] = 0) => sock[h] = Closed
  /\ IsABag(net) /\ BagToSet(net) \subseteq Segments
  /\ OneConnection => \A h \in Hosts :
       Heard(h, sock[h], sock[Peer(h)], BagToSet(net))

-----------------------------------------------------------------------------
(* Closing and empty segments.                                             *)

LEMMA Bounds ==
  /\ SynRetries \in Nat /\ SynRetries >= 1 /\ DataRetries \in Nat
  /\ \A h \in Hosts : Data[h] \in Nat
BY ConnectionAssumption

LEMMA CoreTypes ==
  ASSUME NEW s, Core(s)
  PROVE  /\ s \in Sockets /\ IsFiniteSet(s.stored)
         /\ s.state \in States /\ s.endPoint \in BOOLEAN
         /\ s.connected \in BOOLEAN /\ s.nextTx \in Nat /\ s.highTx \in Nat
         /\ s.head \in Nat /\ s.size \in Nat /\ s.nextRx \in Nat
         /\ s.stored \in SUBSET Nat /\ s.fin \in Nat
         /\ s.synCount \in 0..SynRetries /\ s.dataRetrCount \in 0..DataRetries
         /\ s.retx \in RetxEvents /\ s.out \in SUBSET Sendings
         /\ s.told \in SUBSET (Ends \cup {"connected", "accepted"})
BY DEF Core, Sockets

\* Between s and t nothing happened to the data, sent or received.
Same(s, t) ==
  /\ t.head = s.head /\ t.size = s.size /\ t.nextTx = s.nextTx
  /\ t.highTx = s.highTx /\ t.nextRx = s.nextRx /\ t.stored = s.stored
  /\ t.fin = s.fin /\ t.connected = s.connected

\* The endpoint goes, and every event with it.
LEMMA DeallocateEndPointFacts ==
  ASSUME NEW s, Core(s), Informed(s)
  PROVE  LET t == DeallocateEndPoint(s)
         IN /\ Sane(t) /\ ~t.endPoint /\ Same(s, t) /\ t.state = s.state
            /\ Fresh(s) => Fresh(t)
<1> DEFINE t == [s EXCEPT !.endPoint = FALSE, !.retx = "none",
                          !.delAck = FALSE, !.lastAck = FALSE,
                          !.timeWait = FALSE, !.pending = FALSE]
<1>1. CASE ~s.endPoint
  BY <1>1 DEF DeallocateEndPoint, Sane, Same
<1>2. CASE s.endPoint
  <2>1. DeallocateEndPoint(s) = t
    BY <1>2 DEF DeallocateEndPoint
  <2>2. /\ t \in Sockets /\ ~t.endPoint /\ Same(s, t) /\ t.state = s.state
        /\ Quiet(t) /\ t.told = s.told /\ t.out = s.out /\ ~t.pending
        /\ t.closeNotified = s.closeNotified
    BY DEF Core, Sockets, Same, Quiet, RetxEvents
  <2> HIDE DEF t
  <2>3. Sane(t)
    BY <2>2 DEF Sane, Core, Same, Informed, End
  <2>4. Fresh(s) => Fresh(t)
    BY <2>2 DEF Fresh, Same, Quiet
  <2> QED
    BY <2>1, <2>2, <2>3, <2>4
<1> QED
  BY <1>1, <1>2

\* What a handler sends says no more than was received.
LEMMA EmitFacts ==
  ASSUME NEW s, Core(s), NEW flags \in Flags, NEW seq \in Nat,
         NEW len \in {0, 1}
  PROVE  LET t == Emit(s, flags, seq, len)
         IN /\ Core(t) /\ Same(s, t) /\ t.state = s.state
            /\ t.endPoint = s.endPoint /\ t.retx = s.retx /\ t.told = s.told
            /\ (Fresh(s) /\ flags \notin Acking) => Fresh(t)
<1> DEFINE x == [flags |-> flags, seq |-> seq, ack |-> s.nextRx, len |-> len]
           t == [s EXCEPT !.out = @ \cup {x}]
<1>1. Emit(s, flags, seq, len) = t
  BY DEF Emit
<1>2. x \in Sendings /\ x.flags = flags /\ x.ack = s.nextRx
  BY CoreTypes DEF Sendings
<1> HIDE DEF x
<1>3. /\ t \in Sockets /\ t.out = s.out \cup {x} /\ Same(s, t)
      /\ t.state = s.state /\ t.endPoint = s.endPoint /\ t.retx = s.retx
      /\ t.delAck = s.delAck /\ t.lastAck = s.lastAck
      /\ t.timeWait = s.timeWait /\ t.pending = s.pending
      /\ t.told = s.told /\ t.closeNotified = s.closeNotified
  <2>1. s \in Sockets /\ s.out \cup {x} \in SUBSET Sendings
    BY <1>2, CoreTypes
  <2> QED
    BY <2>1 DEF Sockets, Same
<1> HIDE DEF t
<1>4. Core(t)
  <2>1. s.nextRx <= s.nextRx
    BY CoreTypes
  <2>2. \A y \in t.out : y.flags \in Acking => y.ack <= t.nextRx
    BY <1>2, <1>3, <2>1 DEF Core, Same
  <2> QED
    BY <1>3, <2>2 DEF Core, Same, End, Quiet
<1>5. (Fresh(s) /\ flags \notin Acking) => Fresh(t)
  BY <1>2, <1>3 DEF Fresh, Same
<1> QED
  BY <1>1, <1>3, <1>4, <1>5

\* What an empty segment does to its socket, given what else changes there.
LEMMA SendEmptyPacketFacts ==
  ASSUME NEW s, Sane(s), NEW flags \in Flags
  PROVE  LET t == SendEmptyPacket(s, flags)
         IN /\ Sane(t) /\ Same(s, t) /\ (Timed(s) => Timed(t))
            /\ t.state \in {s.state, "CLOSED"} /\ (t.endPoint => s.endPoint)
            /\ flags \notin {"SYN", "SYNACK"} =>
                 t.state = s.state /\ t.endPoint = s.endPoint
            /\ (flags = "FINACK" /\ s.endPoint) => t.retx # "none"
            /\ (flags \in RetxEvents /\ t.endPoint) => t.retx # "none"
            /\ (Fresh(s) /\ flags \notin Acking) => Fresh(t)
<1> DEFINE syn == flags \in {"SYN", "SYNACK"}
           seq == IF /\ flags # "FINACK"
                     /\ s.state \in {"FIN_WAIT_1", "LAST_ACK", "CLOSING"}
                  THEN s.nextTx + 1 ELSE s.nextTx
           r == IF syn THEN Retry(s) ELSE s
           e == Emit(r, flags, seq, 0)
           d == e.delAck /\ flags \in {"SYN", "RST"}
           sent == [e EXCEPT !.delAck = d]
           t == SendEmptyPacket(s, flags)
<1>0. Core(s) /\ seq \in Nat
  BY CoreTypes DEF Sane
<1> HIDE DEF seq
<1>1. CASE ~s.endPoint
  BY <1>1 DEF SendEmptyPacket, Same
<1>2. CASE s.endPoint /\ syn /\ s.synCount = 0
  <2> DEFINE c == Told([s EXCEPT !.state = "CLOSED"], "failed")
  <2>1. t = DeallocateEndPoint(c)
    BY <1>2 DEF SendEmptyPacket
  <2>2. /\ c \in Sockets /\ Same(s, c) /\ c.state = "CLOSED"
        /\ c.endPoint = s.endPoint /\ c.told = s.told \cup {"failed"}
        /\ c.closeNotified = s.closeNotified /\ c.out = s.out
    <3>1. s \in Sockets /\ s.told \cup {"failed"}
                             \in SUBSET (Ends \cup {"connected", "accepted"})
      BY <1>0, CoreTypes DEF Ends
    <3> QED
      BY <3>1 DEF Told, Sockets, Same, States
  <2> HIDE DEF c
  <2>3. Core(c) /\ Informed(c)
    BY <1>0, <1>2, <2>2 DEF Core, Same, End, Informed, Ends
  <2>4. Sane(t) /\ ~t.endPoint /\ Same(c, t) /\ t.state = "CLOSED"
    BY <2>1, <2>2, <2>3, DeallocateEndPointFacts
  <2> QED
    BY <1>2, <2>2, <2>4 DEF Same, Timed, Fresh, Handshake
<1>3. CASE s.endPoint /\ ~(syn /\ s.synCount = 0)
  <2>1. t = IF (syn \/ flags = "FINACK") /\ s.retx = "none"
            THEN [sent EXCEPT !.retx = flags] ELSE sent
    BY <1>3 DEF SendEmptyPacket, seq
  <2>2. /\ Core(r) /\ Same(s, r) /\ r.state = s.state
        /\ r.endPoint = s.endPoint /\ r.retx = s.retx /\ r.told = s.told
        /\ Fresh(s) => Fresh(r)
    <3>1. CASE ~syn
      BY <1>0, <3>1 DEF Same
    <3>2. CASE syn
      <4>1. s.synCount - 1 \in 0..SynRetries
        BY <1>0, <1>3, <3>2, Bounds, CoreTypes
      <4>2. s \in Sockets
        BY <1>0 DEF Core
      <4>3. /\ r \in Sockets /\ Same(s, r) /\ r.state = s.state
            /\ r.endPoint = s.endPoint /\ r.retx = s.retx /\ r.told = s.told
            /\ r.delAck = s.delAck /\ r.lastAck = s.lastAck
            /\ r.timeWait = s.timeWait /\ r.pending = s.pending
            /\ r.closeNotified = s.closeNotified /\ r.out = s.out
        BY <3>2, <4>1, <4>2 DEF Retry, Sockets, Same
      <4> HIDE DEF r
      <4> QED
        BY <1>0, <4>3 DEF Core, Same, End, Quiet, Fresh
    <3> QED
      BY <3>1, <3>2
  <2> HIDE DEF r
  <2>3. /\ Core(e) /\ Same(r, e) /\ e.state = r.state
        /\ e.endPoint = r.endPoint /\ e.retx = r.retx /\ e.told = r.told
        /\ (Fresh(r) /\ flags \notin Acking) => Fresh(e)
    BY <1>0, <2>2, EmitFacts
  <2> HIDE DEF e
  <2>4. /\ t \in Sockets /\ Same(e, t) /\ t.state = e.state
        /\ t.endPoint = e.endPoint /\ t.told = e.told /\ t.out = e.out
        /\ t.delAck => e.delAck
        /\ t.lastAck = e.lastAck /\ t.timeWait = e.timeWait
        /\ t.pending = e.pending /\ t.closeNotified = e.closeNotified
        /\ t.retx = IF (syn \/ flags = "FINACK") /\ s.retx = "none"
                    THEN flags ELSE e.retx
    <3>1. e \in Sockets /\ (syn \/ flags = "FINACK" => flags \in RetxEvents)
      BY <2>3 DEF Core, RetxEvents
    <3>0. d \in BOOLEAN /\ (d => e.delAck)
      OBVIOUS
    <3> HIDE DEF d
    <3>2. CASE (syn \/ flags = "FINACK") /\ s.retx = "none"
      <4> DEFINE u == [e EXCEPT !.delAck = d, !.retx = flags]
      <4>1. t = u
        BY <2>1, <3>2
      <4>2. flags \in RetxEvents
        BY <3>1, <3>2
      <4>3. u \in Sockets
        BY <3>0, <3>1, <4>2 DEF Sockets
      <4> QED
        BY <3>0, <3>1, <3>2, <4>1, <4>3 DEF Sockets, Same
    <3>3. CASE ~((syn \/ flags = "FINACK") /\ s.retx = "none")
      BY <2>1, <3>0, <3>1, <3>3 DEF Sockets, Same
    <3> QED
      BY <3>2, <3>3
  <2> HIDE DEF t
  <2>5. /\ t.endPoint /\ Same(s, t) /\ t.state = s.state
        /\ t.endPoint = s.endPoint
    BY <1>3, <2>2, <2>3, <2>4 DEF Same
  <2>6. Core(t)
    BY <2>3, <2>4, <2>5 DEF Core, Same, End
  <2>7. Sane(t)
    BY <2>5, <2>6, <1>3 DEF Sane
  <2>8. s.retx # "none" => t.retx # "none"
    BY <2>2, <2>3, <2>4
  <2>9. (Fresh(s) /\ flags \notin Acking) => Fresh(t)
    BY <2>2, <2>3, <2>4, <2>5 DEF Fresh, Same, Acking
  <2>10. flags \in {"SYN", "SYNACK", "FINACK"} => t.retx # "none"
    BY <2>2, <2>3, <2>4
  <2>11. Timed(s) => Timed(t)
    BY <1>3, <2>5, <2>8 DEF Timed, Same
  <2> QED
    BY <1>3, <2>5, <2>7, <2>9, <2>10, <2>11 DEF t, Flags, RetxEvents
<1> QED
  BY <1>1, <1>2, <1>3

\* A notification.
LEMMA ToldFacts ==
  ASSUME NEW s, Core(s), NEW what \in Ends \cup {"connected", "accepted"}
  PROVE  LET t == Told(s, what)
         IN /\ Core(t) /\ Same(s, t) /\ t.state = s.state
            /\ t.endPoint = s.endPoint /\ t.retx = s.retx
            /\ (Sane(s) => Sane(t)) /\ (Timed(s) => Timed(t))
            /\ (Fresh(s) => Fresh(t))
            /\ (what \in Ends => Informed(t)) /\ what \in t.told
            /\ t.out = s.out
<1> DEFINE t == [s EXCEPT !.told = @ \cup {what}]
<1>1. Told(s, what) = t
  BY DEF Told
<1>2. /\ t \in Sockets /\ Same(s, t) /\ t.state = s.state
      /\ t.endPoint = s.endPoint /\ t.retx = s.retx /\ t.delAck = s.delAck
      /\ t.lastAck = s.lastAck /\ t.timeWait = s.timeWait
      /\ t.pending = s.pending /\ t.told = s.told \cup {what}
      /\ t.closeNotified = s.closeNotified /\ t.out = s.out
  <2>1. s \in Sockets /\ s.told \cup {what}
                           \in SUBSET (Ends \cup {"connected", "accepted"})
    BY CoreTypes
  <2> QED
    BY <2>1 DEF Sockets, Same
<1> HIDE DEF t
<1>3. Core(t)
  BY <1>2 DEF Core, Same, End, Quiet
<1>4. Informed(s) => Informed(t)
  BY <1>2 DEF Informed
<1>5. what \in Ends => Informed(t)
  BY <1>2 DEF Informed
<1>6. Sane(s) => Sane(t)
  BY <1>2, <1>3, <1>4 DEF Sane
<1>7. (Timed(s) => Timed(t)) /\ (Fresh(s) => Fresh(t))
  BY <1>2 DEF Timed, Fresh, Same
<1> QED
  BY <1>1, <1>2, <1>3, <1>5, <1>6, <1>7

LEMMA SendRSTFacts ==
  ASSUME NEW s, Sane(s)
  PROVE  LET t == SendRST(s)
         IN /\ Sane(t) /\ ~t.endPoint /\ Same(s, t) /\ t.state = s.state
            /\ (Fresh(s) => Fresh(t))
<1> DEFINE e == SendEmptyPacket(s, "RST")
           d == Told(e, "error")
<1>1. /\ Sane(e) /\ Same(s, e) /\ e.state = s.state
      /\ (Fresh(s) => Fresh(e))
  BY SendEmptyPacketFacts DEF Flags, Acking
<1>2. SendRST(s) = DeallocateEndPoint(d)
  BY DEF SendRST
<1> HIDE DEF e
<1>3. /\ Core(d) /\ Same(e, d) /\ d.state = e.state /\ Informed(d)
      /\ (Fresh(e) => Fresh(d))
  <2>1. "error" \in Ends \cup {"connected", "accepted"} /\ "error" \in Ends
    BY DEF Ends
  <2> QED
    BY <1>1, <2>1, ToldFacts DEF Sane
<1> HIDE DEF d
<1>4. LET t == DeallocateEndPoint(d)
      IN /\ Sane(t) /\ ~t.endPoint /\ Same(d, t) /\ t.state = d.state
         /\ (Fresh(d) => Fresh(t))
  BY <1>3, DeallocateEndPointFacts
<1> QED
  BY <1>1, <1>2, <1>3, <1>4 DEF Same

LEMMA CloseAndNotifyFacts ==
  ASSUME NEW s, Core(s)
  PROVE  LET t == CloseAndNotify(s)
         IN Sane(t) /\ ~t.endPoint /\ Same(s, t) /\ t.state = "CLOSED"
<1> DEFINE u == Told(s, "closed")
           v == IF s.closeNotified THEN s
                ELSE [u EXCEPT !.closeNotified = TRUE]
           w == [v EXCEPT !.state = "CLOSED", !.lastAck = FALSE]
<1>1. CloseAndNotify(s) = DeallocateEndPoint(w)
  BY DEF CloseAndNotify
<1>2. "closed" \in Ends /\ "closed" \in Ends \cup {"connected", "accepted"}
  BY DEF Ends
<1>3. Core(u) /\ Same(s, u) /\ Informed(u) /\ "closed" \in u.told
  BY <1>2, ToldFacts
<1> HIDE DEF u
<1>4. Core(v) /\ Same(s, v) /\ Informed(v)
  <2>1. CASE s.closeNotified
    BY <1>2, <2>1 DEF Core, Same, Informed
  <2>2. CASE ~s.closeNotified
    <3>1. /\ v \in Sockets /\ Same(u, v) /\ v.state = u.state
          /\ v.endPoint = u.endPoint /\ v.retx = u.retx /\ v.delAck = u.delAck
          /\ v.lastAck = u.lastAck /\ v.timeWait = u.timeWait
          /\ v.told = u.told /\ v.out = u.out
      BY <1>3, <2>2 DEF Core, Sockets, Same
    <3> HIDE DEF v
    <3> QED
      BY <1>3, <3>1 DEF Core, Same, End, Quiet, Informed
  <2> QED
    BY <2>1, <2>2
<1> HIDE DEF v
<1>5. Core(w) /\ Same(v, w) /\ Informed(w) /\ w.state = "CLOSED"
  <2>1. /\ w \in Sockets /\ Same(v, w) /\ w.state = "CLOSED" /\ ~w.lastAck
        /\ w.endPoint = v.endPoint /\ w.retx = v.retx /\ w.delAck = v.delAck
        /\ w.timeWait = v.timeWait /\ w.closeNotified = v.closeNotified
        /\ w.told = v.told /\ w.out = v.out
    BY <1>4 DEF Core, Sockets, Same, States
  <2> HIDE DEF w
  <2> QED
    BY <1>4, <2>1 DEF Core, Same, End, Quiet, Informed
<1> HIDE DEF w
<1>6. LET t == DeallocateEndPoint(w)
      IN Sane(t) /\ ~t.endPoint /\ Same(w, t) /\ t.state = w.state
  BY <1>5, DeallocateEndPointFacts
<1> QED
  BY <1>1, <1>3, <1>4, <1>5, <1>6 DEF Same

-----------------------------------------------------------------------------
(* Sending data.                                                           *)

\* Between s and t only data was sent, perhaps with the FIN.
Sent(s, t) ==
  /\ t.head = s.head /\ t.size = s.size /\ t.nextRx = s.nextRx
  /\ t.stored = s.stored /\ t.fin = s.fin /\ t.connected = s.connected
  /\ t.endPoint = s.endPoint /\ s.highTx <= t.highTx
  /\ \/ t.state = s.state
     \/ s.state = "ESTABLISHED" /\ t.state = "FIN_WAIT_1"
     \/ s.state = "CLOSE_WAIT" /\ t.state = "LAST_ACK"

LEMMA SentReflexive ==
  ASSUME NEW s, Core(s)
  PROVE  Sent(s, s)
BY CoreTypes DEF Sent

LEMMA SentTransitive ==
  ASSUME NEW s, NEW t, NEW u, Core(s), Core(t), Core(u), Sent(s, t), Sent(t, u)
  PROVE  Sent(s, u)
<1>1. s.highTx \in Nat /\ t.highTx \in Nat /\ u.highTx \in Nat
  BY CoreTypes
<1>2. s.highTx <= u.highTx
  BY <1>1 DEF Sent
<1> QED
  BY <1>2 DEF Sent

\* A segment of the buffer goes out, and the timer runs.
LEMMA SendDataPacketFacts ==
  ASSUME NEW s, Sane(s), s.endPoint, NEW seq \in Nat, seq < End(s)
  PROVE  LET t == SendDataPacket(s, seq)
         IN /\ Sane(t) /\ Sent(s, t) /\ t.retx # "none"
            /\ t.nextTx = s.nextTx
            /\ t.highTx = Larger(s.highTx, seq + 1)
<1> DEFINE last == s.closeOnEmpty /\ SizeFrom(s, seq + 1) = 0
           flags == IF last THEN "FINACK" ELSE "ACK"
           e == Emit(s, flags, seq, 1)
           high == Larger(e.highTx, seq + 1)
           retx == IF e.retx = "none" THEN "data" ELSE e.retx
           u == [e EXCEPT !.delAck = FALSE, !.retx = retx, !.highTx = high]
           t == SendDataPacket(s, seq)
<1>1. /\ t = CASE last /\ s.state = "ESTABLISHED" ->
                    [u EXCEPT !.state = "FIN_WAIT_1"]
               [] last /\ s.state = "CLOSE_WAIT" ->
                    [u EXCEPT !.state = "LAST_ACK"]
               [] OTHER -> u
  BY DEF SendDataPacket
<1>2. Core(s) /\ flags \in Flags
  BY DEF Sane, Flags
<1> HIDE DEF last, flags
<1>3. /\ Core(e) /\ Same(s, e) /\ e.state = s.state
      /\ e.endPoint = s.endPoint /\ e.retx = s.retx
  BY <1>2, EmitFacts
<1> HIDE DEF e
<1>4. /\ e.highTx \in Nat /\ high \in Nat /\ e.highTx <= high
      /\ high <= End(s) /\ high = Larger(s.highTx, seq + 1)
  BY <1>2, <1>3, CoreTypes DEF Core, Same, Larger, End
<1>5. retx \in RetxEvents /\ retx # "none"
  BY <1>3, CoreTypes DEF RetxEvents
<1> HIDE DEF high, retx
<1>6. /\ u \in Sockets /\ u.head = e.head /\ u.size = e.size
      /\ u.nextRx = e.nextRx /\ u.stored = e.stored /\ u.fin = e.fin
      /\ u.connected = e.connected /\ u.endPoint = e.endPoint
      /\ u.nextTx = e.nextTx /\ u.highTx = high /\ u.retx = retx
      /\ u.closeNotified = e.closeNotified /\ u.told = e.told
      /\ u.out = e.out /\ u.state = e.state
  <2>1. u \in Sockets
    BY <1>3, <1>4, <1>5 DEF Core, Sockets
  <2> QED
    BY <1>3, <2>1 DEF Core, Sockets
<1> HIDE DEF u
<1>7. /\ t \in Sockets /\ t.head = u.head /\ t.size = u.size
      /\ t.nextRx = u.nextRx /\ t.stored = u.stored /\ t.fin = u.fin
      /\ t.connected = u.connected /\ t.endPoint = u.endPoint
      /\ t.nextTx = u.nextTx /\ t.highTx = u.highTx /\ t.retx = u.retx
      /\ t.closeNotified = u.closeNotified /\ t.told = u.told
      /\ t.out = u.out
      /\ \/ t.state = s.state
         \/ s.state = "ESTABLISHED" /\ t.state = "FIN_WAIT_1"
         \/ s.state = "CLOSE_WAIT" /\ t.state = "LAST_ACK"
  <2>1. CASE last /\ s.state = "ESTABLISHED"
    BY <1>1, <1>6, <2>1 DEF Sockets, States
  <2>2. CASE last /\ s.state = "CLOSE_WAIT"
    <3>1. t = [u EXCEPT !.state = "LAST_ACK"]
      BY <1>1, <2>2
    <3> QED
      BY <1>6, <2>2, <3>1 DEF Sockets, States
  <2>3. CASE ~last \/ s.state \notin {"ESTABLISHED", "CLOSE_WAIT"}
    <3>1. t = u
      BY <1>1, <2>3
    <3> QED
      BY <1>3, <1>6, <3>1
  <2> QED
    BY <2>1, <2>2, <2>3
<1> HIDE DEF t
<1>8. Core(t)
  BY <1>3, <1>4, <1>6, <1>7 DEF Core, Same, End
<1>9. t.endPoint = s.endPoint
  BY <1>3, <1>6, <1>7
<1>10. Sane(t)
  BY <1>7, <1>8, <1>9 DEF Sane
<1>11. Sent(s, t)
  BY <1>3, <1>4, <1>6, <1>7, <1>9 DEF Sent, Same
<1> QED
  BY <1>3, <1>4, <1>5, <1>6, <1>7, <1>10, <1>11 DEF t, Same

\* Only nextTx moves.
LEMMA NextTxFacts ==
  ASSUME NEW s, Core(s), NEW n \in Nat
  PROVE  LET t == [s EXCEPT !.nextTx = n]
         IN /\ Core(t) /\ Sent(s, t) /\ t.highTx = s.highTx
            /\ t.retx = s.retx /\ t.nextTx = n
            /\ (Sane(s) => Sane(t)) /\ (Timed(s) => Timed(t))
<1> DEFINE t == [s EXCEPT !.nextTx = n]
<1>1. /\ t \in Sockets /\ t.head = s.head /\ t.size = s.size
      /\ t.nextRx = s.nextRx /\ t.stored = s.stored /\ t.fin = s.fin
      /\ t.connected = s.connected /\ t.endPoint = s.endPoint
      /\ t.nextTx = n /\ t.highTx = s.highTx /\ t.retx = s.retx
      /\ t.delAck = s.delAck /\ t.lastAck = s.lastAck
      /\ t.timeWait = s.timeWait
      /\ t.closeNotified = s.closeNotified /\ t.told = s.told
      /\ t.out = s.out /\ t.state = s.state
  BY DEF Core, Sockets
<1> HIDE DEF t
<1>2. Core(t)
  BY <1>1 DEF Core, End, Quiet
<1>3. Sent(s, t)
  BY <1>1, CoreTypes DEF Sent
<1>4. (Sane(s) => Sane(t)) /\ (Timed(s) => Timed(t))
  BY <1>1, <1>2 DEF Sane, Informed, Timed
<1> QED
  BY <1>1, <1>2, <1>3, <1>4 DEF t

LEMMA SendStepFacts ==
  ASSUME NEW s, Sane(s), s.endPoint, NEW seq \in Nat, seq < End(s)
  PROVE  LET t == [SendDataPacket(s, seq) EXCEPT !.nextTx = seq + 1]
         IN /\ Sane(t) /\ Timed(t) /\ Sent(s, t) /\ t.retx # "none"
            /\ t.highTx = Larger(s.highTx, seq + 1)
<1> DEFINE u == SendDataPacket(s, seq)
           t == [u EXCEPT !.nextTx = seq + 1]
<1>1. /\ Sane(u) /\ Sent(s, u) /\ u.retx # "none"
      /\ u.highTx = Larger(s.highTx, seq + 1)
  BY SendDataPacketFacts
<1> HIDE DEF u
<1>2. Core(u) /\ seq + 1 \in Nat /\ Core(s)
  BY <1>1 DEF Sane
<1>3. /\ Core(t) /\ Sent(u, t) /\ t.highTx = u.highTx
      /\ t.retx = u.retx /\ Sane(t)
  BY <1>1, <1>2, NextTxFacts
<1> HIDE DEF t
<1>4. Sent(s, t)
  BY <1>1, <1>2, <1>3, SentTransitive
<1>5. Timed(t)
  BY <1>1, <1>3 DEF Timed
<1> QED
  BY <1>1, <1>3, <1>4, <1>5 DEF t, u

LEMMA LeastExists ==
  ASSUME NEW S \in SUBSET Nat, S # {}
  PROVE  \E n \in S : \A k \in S : n <= k
<1> DEFINE R == {p \in Nat \X Nat : p[1] < p[2]}
<1>1. IsWellFoundedOn(R, Nat)
  BY NatLessThanWellFounded DEF OpToRel
<1>2. \A j, k \in Nat : <<j, k>> \in R <=> j < k
  OBVIOUS
<1> HIDE DEF R
<1>3. PICK n \in S : \A k \in S : ~(<<k, n>> \in R)
  BY <1>1, WFMin, Zenon
<1>4. \A k \in S : ~(k < n)
  BY <1>2, <1>3
<1>5. \A k \in S : k \in Nat /\ n \in Nat
  OBVIOUS
<1> QED
  BY <1>4, <1>5

\* r holds the first n rounds of a loop that starts in s.
Rounds(r, n, step, s, S) ==
  /\ r \in [0 .. n -> S]
  /\ \A i \in 0 .. n : r[i] = IF i = 0 THEN s ELSE step[r[i - 1]]

\* A loop whose body keeps S can be run for any number of rounds.
LEMMA RoundsExist ==
  ASSUME NEW S, NEW step \in [S -> S], NEW s \in S, NEW n \in Nat
  PROVE  \E r : Rounds(r, n, step, s, S)
<1> DEFINE Bad == {k \in Nat : ~ \E r : Rounds(r, k, step, s, S)}
<1> SUFFICES ASSUME Bad # {} PROVE FALSE
  OBVIOUS
<1>1. Bad \in SUBSET Nat
  OBVIOUS
<1> HIDE DEF Bad
<1>2. PICK k \in Bad : \A j \in Bad : k <= j
  BY <1>1, LeastExists
<1>3. k \in Nat /\ ~ \E r : Rounds(r, k, step, s, S)
  BY DEF Bad
<1>4. CASE k = 0
  <2> DEFINE r == [i \in 0 .. 0 |-> s]
  <2>1. Rounds(r, 0, step, s, S)
    BY DEF Rounds
  <2> QED
    BY <1>3, <1>4, <2>1
<1>5. CASE k # 0
  <2>1. k - 1 \in Nat /\ k - 1 \notin Bad
    BY <1>2, <1>3, <1>5
  <2>2. PICK q : Rounds(q, k - 1, step, s, S)
    BY <2>1 DEF Bad
  <2> DEFINE r == [i \in 0 .. k |-> IF i = k THEN step[q[k - 1]] ELSE q[i]]
  <2>3. /\ k - 1 \in 0 .. k - 1
        /\ \A i \in 0 .. k : i # k => i \in 0 .. k - 1
        /\ \A i \in 0 .. k : i # 0 => i - 1 \in 0 .. k - 1
    BY <1>3, <1>5, <2>1
  <2>4. q[k - 1] \in S /\ step[q[k - 1]] \in S
    BY <2>2, <2>3 DEF Rounds
  <2>5. r \in [0 .. k -> S]
    BY <2>2, <2>3, <2>4 DEF Rounds
  <2>6. ASSUME NEW i \in 0 .. k
        PROVE  r[i] = IF i = 0 THEN s ELSE step[r[i - 1]]
    <3>1. CASE i = k
      <4>1. i - 1 \in 0 .. k /\ i - 1 # k
        BY <1>3, <1>5, <3>1
      <4>2. r[i - 1] = q[k - 1]
        BY <3>1, <4>1
      <4> QED
        BY <1>5, <3>1, <4>2
    <3>2. CASE i # k
      <4>1. r[i] = q[i] /\ i \in 0 .. k - 1
        BY <2>3, <3>2
      <4>2. CASE i = 0
        BY <2>2, <4>1, <4>2 DEF Rounds
      <4>3. CASE i # 0
        <5>1. i - 1 \in 0 .. k /\ i - 1 # k /\ i - 1 \in 0 .. k - 1
          BY <1>3, <3>2, <4>3
        <5> QED
          BY <2>2, <4>1, <4>3, <5>1 DEF Rounds
      <4> QED
        BY <4>2, <4>3
    <3> QED
      BY <3>1, <3>2
  <2>7. Rounds(r, k, step, s, S)
    BY <2>5, <2>6 DEF Rounds
  <2> QED
    BY <1>3, <2>7
<1> QED
  BY <1>4, <1>5

\* What starts in S and leaves it in no round ends in S.
LEMMA RoundsStay ==
  ASSUME NEW S, NEW n \in Nat, NEW r, r[0] \in S,
         \A i \in 1 .. n : r[i - 1] \in S => r[i] \in S
  PROVE  r[n] \in S
<1> DEFINE Bad == {k \in 0 .. n : r[k] \notin S}
<1>1. SUFFICES ASSUME Bad # {} PROVE FALSE
  OBVIOUS
<1>2. Bad \in SUBSET Nat
  OBVIOUS
<1> HIDE DEF Bad
<1>3. PICK k \in Bad : \A j \in Bad : k <= j
  BY <1>1, <1>2, LeastExists
<1>4. k \in 0 .. n /\ r[k] \notin S
  BY DEF Bad
<1>5. k \in 1 .. n /\ k - 1 \in 0 .. n
  BY <1>4
<1>6. r[k - 1] \in S
  BY <1>3, <1>4, <1>5 DEF Bad
<1> QED
  BY <1>4, <1>5, <1>6

\* The sockets that a handler may reach from s by sending.
Reach(s) == {t \in Sockets : Sane(t) /\ Timed(t) /\ Sent(s, t)}

LEMMA SendNextFacts ==
  ASSUME NEW s, Core(s), s.endPoint, NEW t \in Reach(s)
  PROVE  SendNext(t) \in Reach(s)
<1>1. Sane(t) /\ Core(t) /\ Sent(s, t) /\ t.endPoint
  BY DEF Reach, Sane, Sent
<1>2. CASE SizeFrom(t, t.highTx) = 0
  BY <1>2 DEF SendNext
<1>3. CASE SizeFrom(t, t.highTx) # 0
  <2> DEFINE q == t.highTx
             u == [SendDataPacket(t, q) EXCEPT !.nextTx = q + 1]
  <2>1. SendNext(t) = u
    BY <1>3 DEF SendNext
  <2>2. q \in Nat /\ q < End(t)
    BY <1>1, <1>3, CoreTypes DEF SizeFrom, End
  <2> HIDE DEF q
  <2>3. Sane(u) /\ Timed(u) /\ Sent(t, u)
    BY <1>1, <2>2, SendStepFacts
  <2> HIDE DEF u
  <2>4. Core(u) /\ u \in Sockets
    BY <2>3 DEF Sane, Core
  <2>5. Sent(s, u)
    BY <1>1, <2>3, <2>4, SentTransitive
  <2> QED
    BY <2>1, <2>3, <2>4, <2>5 DEF Reach
<1> QED
  BY <1>2, <1>3

\* The loop of SendPendingData stays in what its rounds keep.
LEMMA LoopStays ==
  ASSUME NEW S, NEW s \in S, NEW n \in Nat, \A t \in S : SendNext(t) \in S
  PROVE  LET round[i \in 0 .. n] == IF i = 0 THEN s ELSE SendNext(round[i - 1])
         IN round[n] \in S
<1> DEFINE F(g) == [i \in 0 .. n |-> IF i = 0 THEN s ELSE SendNext(g[i - 1])]
           round == CHOOSE g : g = F(g)
           step == [t \in S |-> SendNext(t)]
<1>2. \E g : g = F(g)
  <2>1. step \in [S -> S]
    OBVIOUS
  <2> HIDE DEF step
  <2>2. PICK r : Rounds(r, n, step, s, S)
    BY <2>1, RoundsExist
  <2>3. r = [i \in 0 .. n |-> r[i]]
    BY <2>2 DEF Rounds
  <2>4. ASSUME NEW i \in 0 .. n
        PROVE  r[i] = IF i = 0 THEN s ELSE SendNext(r[i - 1])
    <3>1. CASE i = 0
      BY <2>2, <3>1 DEF Rounds
    <3>2. CASE i # 0
      <4>1. i - 1 \in 0 .. n
        BY <3>2
      <4>2. r[i - 1] \in S /\ r[i] = step[r[i - 1]]
        BY <2>2, <3>2, <4>1 DEF Rounds
      <4> QED
        BY <3>2, <4>2 DEF step
    <3> QED
      BY <3>1, <3>2
  <2>5. r = F(r)
    BY <2>3, <2>4
  <2> QED
    BY <2>5
<1>3. round = F(round)
  <2> HIDE DEF F
  <2> QED
    BY <1>2
<1> HIDE DEF round
<1>4. \A i \in 0 .. n :
        round[i] = IF i = 0 THEN s ELSE SendNext(round[i - 1])
  <2> DEFINE e(i) == IF i = 0 THEN s ELSE SendNext(round[i - 1])
  <2>1. round = [i \in 0 .. n |-> e(i)]
    BY <1>3
  <2> HIDE DEF e
  <2>2. \A i \in 0 .. n : round[i] = e(i)
    BY <2>1
  <2> QED
    BY <2>2 DEF e
<1>6. round[0] \in S
  BY <1>4
<1>7. ASSUME NEW i \in 1 .. n, round[i - 1] \in S PROVE round[i] \in S
  <2>1. i \in 0 .. n /\ i # 0
    OBVIOUS
  <2> QED
    BY <1>4, <1>7, <2>1
<1>8. round[n] \in S
  BY <1>6, <1>7, RoundsStay
<1> QED
  BY <1>8 DEF round

LEMMA SendPendingDataFacts ==
  ASSUME NEW s, Sane(s), Timed(s), NEW lost, NEW k \in Nat
  PROVE  LET t == SendPendingData(s, lost, k)
         IN Sane(t) /\ Timed(t) /\ Sent(s, t)
<1> DEFINE a == IF lost \in s.head .. s.highTx - 1
                THEN [SendDataPacket(s, lost) EXCEPT !.nextTx = lost + 1]
                ELSE s
           n == IF s.head = s.highTx THEN Larger(k, 1) ELSE k
           loop == LET round[i \in 0 .. n] ==
                         IF i = 0 THEN a ELSE SendNext(round[i - 1])
                   IN round[n]
<1>1. Core(s)
  BY DEF Sane
<1>2. SendPendingData(s, lost, k) = IF s.size = 0 \/ ~s.endPoint THEN s
                                    ELSE loop
  BY DEF SendPendingData
<1>3. CASE s.size = 0 \/ ~s.endPoint
  BY <1>1, <1>2, <1>3, SentReflexive
<1>4. CASE ~(s.size = 0 \/ ~s.endPoint)
  <2>1. a \in Reach(s)
    <3>1. CASE lost \in s.head .. s.highTx - 1
      <4> DEFINE b == [SendDataPacket(s, lost) EXCEPT !.nextTx = lost + 1]
      <4>1. lost \in Nat /\ lost < End(s)
        BY <1>1, <3>1, CoreTypes DEF Core, End
      <4>2. Sane(b) /\ Timed(b) /\ Sent(s, b)
        BY <1>4, <4>1, SendStepFacts
      <4>3. a = b
        BY <3>1
      <4> HIDE DEF a, b
      <4> QED
        BY <4>2, <4>3 DEF Reach, Sane, Core
    <3>2. CASE lost \notin s.head .. s.highTx - 1
      BY <1>1, <3>2, SentReflexive DEF Reach, Core
    <3> QED
      BY <3>1, <3>2
  <2>2. n \in Nat
    BY DEF Larger
  <2> HIDE DEF a, n
  <2>3. \A t \in Reach(s) : SendNext(t) \in Reach(s)
    BY <1>1, <1>4, SendNextFacts
  <2> DEFINE S == Reach(s)
  <2>4. a \in S /\ \A t \in S : SendNext(t) \in S
    BY <2>1, <2>3
  <2> HIDE DEF S
  <2>5. loop \in S
    BY <2>2, <2>4, LoopStays
  <2> HIDE DEF loop
  <2> QED
    BY <1>2, <1>4, <2>5 DEF Reach, S
<1> QED
  BY <1>3, <1>4

-----------------------------------------------------------------------------
(* Closing.                                                                *)

\* A change of state.
LEMMA StateFacts ==
  ASSUME NEW s, Sane(s), NEW x \in States \ {"CLOSED"}
  PROVE  LET t == [s EXCEPT !.state = x]
         IN /\ Sane(t) /\ Same(s, t) /\ t.state = x
            /\ t.endPoint = s.endPoint /\ t.retx = s.retx /\ t.out = s.out
            /\ t.told = s.told
            /\ ((Timed(s) /\ s.state # "TIME_WAIT") => Timed(t))
<1> DEFINE t == [s EXCEPT !.state = x]
<1>1. /\ t \in Sockets /\ Same(s, t) /\ t.state = x
      /\ t.endPoint = s.endPoint /\ t.retx = s.retx /\ t.delAck = s.delAck
      /\ t.lastAck = s.lastAck /\ t.timeWait = s.timeWait
      /\ t.closeNotified = s.closeNotified /\ t.told = s.told
      /\ t.out = s.out
  BY DEF Sane, Core, Sockets, Same
<1> HIDE DEF t
<1>2. Sane(t)
  BY <1>1 DEF Sane, Core, End, Quiet, Informed, Same
<1>3. (Timed(s) /\ s.state # "TIME_WAIT") => Timed(t)
  BY <1>1 DEF Timed, Same
<1> QED
  BY <1>1, <1>2, <1>3 DEF t

\* The flags of the application and the retry counter.
LEMMA FlagFacts ==
  ASSUME NEW s, Sane(s), NEW empty \in BOOLEAN, NEW shut \in BOOLEAN
  PROVE  LET t == [s EXCEPT !.shutdownSend = shut, !.closeOnEmpty = empty]
         IN /\ Sane(t) /\ Same(s, t) /\ t.state = s.state
            /\ t.endPoint = s.endPoint /\ t.retx = s.retx /\ t.out = s.out
            /\ (Timed(s) => Timed(t)) /\ (Fresh(s) => Fresh(t))
<1> DEFINE t == [s EXCEPT !.shutdownSend = shut, !.closeOnEmpty = empty]
<1>1. /\ t \in Sockets /\ Same(s, t) /\ t.state = s.state
      /\ t.endPoint = s.endPoint /\ t.retx = s.retx /\ t.delAck = s.delAck
      /\ t.lastAck = s.lastAck /\ t.timeWait = s.timeWait
      /\ t.pending = s.pending
      /\ t.closeNotified = s.closeNotified /\ t.told = s.told
      /\ t.out = s.out
  BY DEF Sane, Core, Sockets, Same
<1> HIDE DEF t
<1>2. Sane(t)
  BY <1>1 DEF Sane, Core, End, Quiet, Informed, Same
<1>3. (Timed(s) => Timed(t)) /\ (Fresh(s) => Fresh(t))
  BY <1>1 DEF Timed, Fresh, Same
<1> QED
  BY <1>1, <1>2, <1>3 DEF t

\* t is s after a call that closes, or may close, the connection.
Closing(s, t) ==
  /\ Sane(t) /\ Timed(t) /\ Fresh(t) /\ Same(s, t)
  /\ s.state \notin Handshake => t.state \notin Handshake
  /\ s.state = "CLOSE_WAIT" =>
       \/ t.state = "CLOSE_WAIT"
       \/ t.state = "LAST_ACK" /\ (s.endPoint => t.endPoint)

\* A FIN goes out and the state says so.
LEMMA SendFinFacts ==
  ASSUME NEW s, Sane(s), Timed(s), s.state # "TIME_WAIT",
         NEW x \in {"FIN_WAIT_1", "LAST_ACK"},
         s.state = "CLOSE_WAIT" => x = "LAST_ACK"
  PROVE  Closing(s, [SendEmptyPacket(s, "FINACK") EXCEPT !.state = x])
<1> DEFINE e == SendEmptyPacket(s, "FINACK")
           t == [e EXCEPT !.state = x]
<1>1. /\ Sane(e) /\ Same(s, e) /\ Timed(e) /\ e.state = s.state
      /\ e.endPoint = s.endPoint
  BY SendEmptyPacketFacts DEF Flags
<1> HIDE DEF e
<1>2. x \in States \ {"CLOSED"}
  BY DEF States
<1>3. /\ Sane(t) /\ Same(e, t) /\ t.state = x /\ t.endPoint = e.endPoint
      /\ Timed(t)
  BY <1>1, <1>2, StateFacts
<1> HIDE DEF t
<1>4. x \notin Handshake
  BY DEF Handshake
<1>5. Same(s, t)
  BY <1>1, <1>3 DEF Same
<1> QED
  BY <1>1, <1>3, <1>4, <1>5 DEF Closing, Fresh, e, t

LEMMA DoCloseFacts ==
  ASSUME NEW s, Sane(s), Timed(s), Fresh(s)
  PROVE  Closing(s, DoClose(s))
<1>1. CASE s.state \in {"SYN_RCVD", "ESTABLISHED"}
  <2>1. DoClose(s) = [SendEmptyPacket(s, "FINACK") EXCEPT
                        !.state = "FIN_WAIT_1"]
    BY <1>1 DEF DoClose
  <2> QED
    BY <1>1, <2>1, SendFinFacts
<1>2. CASE s.state = "CLOSE_WAIT"
  <2>1. DoClose(s) = [SendEmptyPacket(s, "FINACK") EXCEPT
                        !.state = "LAST_ACK"]
    BY <1>2 DEF DoClose
  <2> QED
    BY <1>2, <2>1, SendFinFacts
<1>3. CASE s.state \in {"SYN_SENT", "CLOSING"}
  <2> DEFINE r == SendRST(s)
             t == CloseAndNotify(r)
  <2>1. DoClose(s) = t
    BY <1>3 DEF DoClose
  <2>2. Sane(r) /\ Same(s, r) /\ Core(r)
    BY SendRSTFacts DEF Sane
  <2> HIDE DEF r
  <2>3. Sane(t) /\ ~t.endPoint /\ Same(r, t) /\ t.state = "CLOSED"
    BY <2>2, CloseAndNotifyFacts
  <2> HIDE DEF t
  <2>4. Same(s, t) /\ Timed(t) /\ Fresh(t) /\ t.state \notin Handshake
    BY <2>2, <2>3 DEF Same, Timed, Fresh, Handshake
  <2> QED
    BY <1>3, <2>1, <2>3, <2>4 DEF Closing
<1>4. CASE s.state \notin {"SYN_RCVD", "ESTABLISHED", "CLOSE_WAIT",
                           "SYN_SENT", "CLOSING"}
  BY <1>4 DEF DoClose, Closing, Same
<1> QED
  BY <1>1, <1>2, <1>3, <1>4

LEMMA CloseFacts ==
  ASSUME NEW s, Sane(s), Timed(s), Fresh(s)
  PROVE  Closing(s, Close(s))
<1>1. CASE s.stored # {}
  <2> DEFINE t == SendRST(s)
  <2>1. /\ Sane(t) /\ ~t.endPoint /\ Same(s, t) /\ t.state = s.state
        /\ Fresh(t)
    BY SendRSTFacts
  <2> HIDE DEF t
  <2>2. Closing(s, t)
    BY <2>1 DEF Closing, Timed
  <2> QED
    BY <1>1, <2>2 DEF Close, t
<1>2. CASE s.stored = {} /\ SizeFrom(s, s.nextTx) > 0
  <2> DEFINE t == [s EXCEPT !.shutdownSend = s.shutdownSend,
                            !.closeOnEmpty = TRUE]
  <2>1. Close(s) = t
    BY <1>2 DEF Close, Sane, Core, Sockets
  <2>2. s.shutdownSend \in BOOLEAN
    BY DEF Sane, Core, Sockets
  <2>3. /\ Sane(t) /\ Same(s, t) /\ t.state = s.state
        /\ t.endPoint = s.endPoint /\ Timed(t) /\ Fresh(t)
    BY <2>2, FlagFacts
  <2> HIDE DEF t
  <2> QED
    BY <2>1, <2>3 DEF Closing
<1>3. CASE s.stored = {} /\ ~(SizeFrom(s, s.nextTx) > 0)
  BY <1>3, DoCloseFacts DEF Close
<1> QED
  BY <1>1, <1>2, <1>3

LEMMA ShutdownSendFacts ==
  ASSUME NEW s, Sane(s), Timed(s), Fresh(s)
  PROVE  Closing(s, ShutdownSend(s))
<1> DEFINE u == [s EXCEPT !.shutdownSend = TRUE, !.closeOnEmpty = TRUE]
           e == SendEmptyPacket(u, "FINACK")
           x == IF e.state = "ESTABLISHED" THEN "FIN_WAIT_1" ELSE "LAST_ACK"
           t == [e EXCEPT !.state = x]
<1>1. ShutdownSend(s) = IF /\ u.size = 0
                           /\ u.state \in {"ESTABLISHED", "CLOSE_WAIT"}
                        THEN t ELSE u
  BY DEF ShutdownSend
<1>2. /\ Sane(u) /\ Same(s, u) /\ u.state = s.state
      /\ u.endPoint = s.endPoint /\ Timed(u) /\ Fresh(u)
  BY FlagFacts
<1> HIDE DEF u
<1>3. CASE ~(u.size = 0 /\ u.state \in {"ESTABLISHED", "CLOSE_WAIT"})
  BY <1>1, <1>2, <1>3 DEF Closing
<1>4. CASE u.size = 0 /\ u.state \in {"ESTABLISHED", "CLOSE_WAIT"}
  <2>1. e.state = u.state
    BY <1>2, SendEmptyPacketFacts DEF Flags
  <2>2. x \in {"FIN_WAIT_1", "LAST_ACK"}
        /\ (u.state = "CLOSE_WAIT" => x = "LAST_ACK")
    BY <2>1
  <2> HIDE DEF x
  <2>3. Closing(u, t)
    BY <1>2, <1>4, <2>2, SendFinFacts
  <2> HIDE DEF t
  <2> QED
    BY <1>1, <1>2, <1>4, <2>3 DEF Closing, Same
<1> QED
  BY <1>3, <1>4

\* The answer to a FIN: an open socket ends in CLOSE_WAIT or LAST_ACK.
LEMMA DoPeerCloseFacts ==
  ASSUME NEW s, Sane(s), Timed(s), s.endPoint, s.state # "TIME_WAIT"
  PROVE  LET t == DoPeerClose(s)
         IN /\ Sane(t) /\ Timed(t) /\ Same(s, t)
            /\ t.state \in {"CLOSE_WAIT", "LAST_ACK"}
<1> DEFINE d == Told(s, "closed")
           c == [d EXCEPT !.state = "CLOSE_WAIT", !.closeNotified = TRUE]
           u == IF s.shutdownSend THEN Close(c) ELSE SendEmptyPacket(c, "ACK")
           t == [u EXCEPT !.dataRetrCount = DataRetries, !.lastAck = TRUE]
<1>1. DoPeerClose(s) = IF u.state = "LAST_ACK" THEN t ELSE u
  BY DEF DoPeerClose
<1>2. /\ Core(d) /\ Same(s, d) /\ d.state = s.state
      /\ d.endPoint = s.endPoint /\ d.retx = s.retx /\ Sane(d) /\ Timed(d)
      /\ "closed" \in d.told
  <2>1. "closed" \in Ends \cup {"connected", "accepted"} /\ Core(s)
    BY DEF Ends, Sane
  <2> QED
    BY <2>1, ToldFacts
<1> HIDE DEF d
<1>3. /\ Sane(c) /\ Same(s, c) /\ c.state = "CLOSE_WAIT" /\ c.endPoint
      /\ Timed(c) /\ Fresh(c)
  <2>1. /\ c \in Sockets /\ Same(d, c) /\ c.state = "CLOSE_WAIT"
        /\ c.endPoint = d.endPoint /\ c.retx = d.retx /\ c.told = d.told
        /\ c.out = d.out
    BY <1>2 DEF Core, Sockets, Same, States
  <2> HIDE DEF c
  <2>2. c.endPoint /\ Same(s, c)
    BY <1>2, <2>1 DEF Same
  <2> QED
    BY <1>2, <2>1, <2>2
       DEF Sane, Core, Same, End, Quiet, Timed, Fresh, Handshake
<1> HIDE DEF c
<1>4. /\ Sane(u) /\ Timed(u) /\ Same(c, u)
      /\ u.state = "CLOSE_WAIT" \/ (u.state = "LAST_ACK" /\ u.endPoint)
  <2>1. CASE s.shutdownSend
    BY <1>3, <2>1, CloseFacts DEF Closing
  <2>2. CASE ~s.shutdownSend
    BY <1>3, <2>2, SendEmptyPacketFacts DEF Flags
  <2> QED
    BY <2>1, <2>2
<1> HIDE DEF u
<1>5. Same(s, u)
  BY <1>3, <1>4 DEF Same
<1>6. CASE u.state = "LAST_ACK"
  <2>1. /\ t \in Sockets /\ Same(u, t) /\ t.state = u.state
        /\ t.endPoint = u.endPoint /\ t.retx = u.retx /\ t.told = u.told
        /\ t.out = u.out /\ t.closeNotified = u.closeNotified
    <3>1. u \in Sockets /\ DataRetries \in 0..DataRetries
      BY <1>4, Bounds DEF Sane, Core
    <3>2. t \in Sockets
      BY <3>1 DEF Sockets
    <3> QED
      BY <3>1, <3>2 DEF Sockets, Same
  <2> HIDE DEF t
  <2>2. t.endPoint /\ Same(s, t)
    BY <1>4, <1>5, <1>6, <2>1 DEF Same
  <2>3. Sane(t) /\ Timed(t)
    BY <1>4, <2>1, <2>2 DEF Sane, Core, Same, End, Timed
  <2> QED
    BY <1>1, <1>6, <2>1, <2>2, <2>3
<1>7. CASE u.state # "LAST_ACK"
  BY <1>1, <1>4, <1>5, <1>7
<1> QED
  BY <1>6, <1>7

LEMMA TimeWaitFacts ==
  ASSUME NEW s, Sane(s), s.endPoint
  PROVE  LET t == TimeWait(s)
         IN /\ Sane(t) /\ Timed(t) /\ Same(s, t) /\ t.endPoint
            /\ t.state = "TIME_WAIT"
<1> DEFINE d == Told(s, "closed")
           t == [d EXCEPT !.state = "TIME_WAIT", !.closeNotified = TRUE,
                          !.retx = "none", !.delAck = FALSE,
                          !.lastAck = FALSE, !.pending = FALSE,
                          !.timeWait = TRUE]
<1>1. TimeWait(s) = t
  BY DEF TimeWait
<1>2. /\ Core(d) /\ Same(s, d) /\ d.endPoint = s.endPoint
      /\ "closed" \in d.told
  <2>1. "closed" \in Ends \cup {"connected", "accepted"} /\ Core(s)
    BY DEF Ends, Sane
  <2> QED
    BY <2>1, ToldFacts
<1> HIDE DEF d
<1>3. /\ t \in Sockets /\ Same(d, t) /\ t.state = "TIME_WAIT"
      /\ t.endPoint = d.endPoint /\ t.told = d.told /\ t.out = d.out
  <2>1. t \in Sockets
    BY <1>2 DEF Core, Sockets, States, RetxEvents
  <2> QED
    BY <1>2, <2>1 DEF Core, Sockets, Same
<1> HIDE DEF t
<1>4. t.endPoint /\ Same(s, t)
  BY <1>2, <1>3 DEF Same
<1>5. Sane(t) /\ Timed(t)
  BY <1>2, <1>3, <1>4 DEF Sane, Core, Same, End, Timed
<1> QED
  BY <1>1, <1>3, <1>4, <1>5

-----------------------------------------------------------------------------
(* Receiving data.                                                         *)

\* Between s and t only the receive buffer changed, which lost nothing.
Got(s, t) ==
  /\ t.head = s.head /\ t.size = s.size /\ t.nextTx = s.nextTx
  /\ t.highTx = s.highTx /\ t.connected = s.connected
  /\ s.nextRx <= t.nextRx

LEMMA SameIsGot ==
  ASSUME NEW s, Core(s), NEW t, Same(s, t)
  PROVE  Got(s, t)
BY CoreTypes DEF Same, Got

LEMMA GotTransitive ==
  ASSUME NEW s, NEW t, NEW u, Core(s), Core(t), Core(u), Got(s, t), Got(t, u)
  PROVE  Got(s, u)
<1>1. s.nextRx \in Nat /\ t.nextRx \in Nat /\ u.nextRx \in Nat
  BY CoreTypes
<1>2. s.nextRx <= u.nextRx
  BY <1>1 DEF Got
<1> QED
  BY <1>2 DEF Got

\* t is s with another receive buffer.
Buffered(s, t, fin, next, kept) ==
  t = [s EXCEPT !.fin = fin, !.nextRx = next, !.stored = kept]

LEMMA BufferFacts ==
  ASSUME NEW s, Sane(s), NEW fin \in Nat, NEW next \in Nat,
         s.nextRx <= next, NEW kept \in SUBSET Nat, IsFiniteSet(kept),
         NEW t, Buffered(s, t, fin, next, kept)
  PROVE  /\ Sane(t) /\ Got(s, t) /\ t.state = s.state
         /\ t.endPoint = s.endPoint /\ (Timed(s) => Timed(t))
         /\ t.fin = fin /\ t.nextRx = next /\ t.stored = kept
         /\ t.delAck = s.delAck
<1>1. /\ t \in Sockets /\ t.head = s.head /\ t.size = s.size
      /\ t.nextTx = s.nextTx /\ t.highTx = s.highTx
      /\ t.connected = s.connected /\ t.state = s.state
      /\ t.endPoint = s.endPoint /\ t.retx = s.retx /\ t.delAck = s.delAck
      /\ t.lastAck = s.lastAck /\ t.timeWait = s.timeWait
      /\ t.closeNotified = s.closeNotified /\ t.told = s.told
      /\ t.out = s.out /\ t.fin = fin /\ t.nextRx = next /\ t.stored = kept
  BY DEF Sane, Core, Sockets, Buffered
<1>2. \A x \in t.out : x.flags \in Acking => x.ack <= t.nextRx
  <2> SUFFICES ASSUME NEW x \in t.out, x.flags \in Acking
               PROVE  x.ack <= t.nextRx
    OBVIOUS
  <2>1. x \in Sendings /\ x.ack <= s.nextRx /\ s.nextRx \in Nat
    BY <1>1, CoreTypes DEF Sane, Core
  <2>2. x.ack \in Nat
    BY <2>1 DEF Sendings
  <2> QED
    BY <1>1, <2>1, <2>2
<1>3. Sane(t)
  BY <1>1, <1>2 DEF Sane, Core, End, Quiet, Informed
<1>4. Got(s, t) /\ (Timed(s) => Timed(t))
  BY <1>1 DEF Got, Timed
<1> QED
  BY <1>1, <1>3, <1>4

LEMMA SetFinFacts ==
  ASSUME NEW s, Sane(s), NEW seq \in Nat
  PROVE  LET t == SetFin(s, seq)
         IN /\ Sane(t) /\ Got(s, t) /\ t.state = s.state
            /\ t.endPoint = s.endPoint /\ (Timed(s) => Timed(t))
            /\ t.fin = seq /\ t.stored = s.stored
            /\ t.nextRx = (IF s.nextRx = seq THEN seq + 1 ELSE s.nextRx)
            /\ t.delAck = s.delAck
<1> DEFINE n == IF s.nextRx = seq THEN seq + 1 ELSE s.nextRx
           k == s.stored
           t == [s EXCEPT !.fin = seq, !.nextRx = n, !.stored = k]
<1>1. /\ s \in Sockets /\ k \in SUBSET Nat /\ IsFiniteSet(k)
      /\ n \in Nat /\ s.nextRx <= n
  BY CoreTypes DEF Sane
<1>2. SetFin(s, seq) = t
  <2>1. SetFin(s, seq) = [s EXCEPT !.fin = seq, !.nextRx = n]
    BY DEF SetFin
  <2> HIDE DEF n
  <2>2. t = [s EXCEPT !.fin = seq, !.nextRx = n]
    BY <1>1 DEF Sockets
  <2> QED
    BY <2>1, <2>2
<1>6. Buffered(s, t, seq, n, k)
  BY DEF Buffered
<1> HIDE DEF n, k, t
<1>3. /\ Sane(t) /\ Got(s, t) /\ t.state = s.state
      /\ t.endPoint = s.endPoint /\ (Timed(s) => Timed(t))
      /\ t.fin = seq /\ t.nextRx = n /\ t.stored = k
      /\ t.delAck = s.delAck
  BY <1>1, <1>6, BufferFacts
<1>4. t.nextRx = (IF s.nextRx = seq THEN seq + 1 ELSE s.nextRx)
  BY <1>3 DEF n
<1>5. t.stored = s.stored
  BY <1>3 DEF k
<1> QED
  BY <1>2, <1>3, <1>4, <1>5

\* The first number from low on that is not in got, as AddRx looks for it.
Missing(n, low, got) ==
  /\ n >= low /\ n \notin got
  /\ \A i \in low .. n - 1 : i \in got

LEMMA MissingExists ==
  ASSUME NEW got \in SUBSET Nat, IsFiniteSet(got), NEW low \in Nat
  PROVE  \E n \in {low} \cup {i + 1 : i \in got} : Missing(n, low, got)
<1> DEFINE S == {n \in Nat : n >= low /\ n \notin got}
<1>1. S # {}
  <2> SUFFICES ASSUME S = {} PROVE FALSE
    OBVIOUS
  <2> DEFINE c == Cardinality(got)
             range == low .. low + c
  <2>1. c \in Nat
    BY FS_CardinalityType
  <2>2. range \subseteq got
    BY <2>1
  <2>3. Cardinality(range) = c + 1
    <3>1. low \in Int /\ low + c \in Int
      BY <2>1
    <3> HIDE DEF c
    <3>2. Cardinality(range) =
            IF low > low + c THEN 0 ELSE (low + c) - low + 1
      BY <3>1, FS_Interval
    <3> QED
      BY <2>1, <3>2
  <2>4. Cardinality(range) <= c
    BY <2>2, FS_Subset
  <2> QED
    BY <2>1, <2>3, <2>4
<1>2. S \in SUBSET Nat
  OBVIOUS
<1> HIDE DEF S
<1>3. PICK n \in S : \A k \in S : n <= k
  BY <1>1, <1>2, LeastExists
<1>4. n \in Nat /\ n >= low /\ n \notin got
  BY DEF S
<1>5. \A i \in low .. n - 1 : i \in got
  <2> SUFFICES ASSUME NEW i \in low .. n - 1, i \notin got PROVE FALSE
    OBVIOUS
  <2>1. i \in Nat /\ i >= low /\ i < n
    BY <1>4
  <2>2. i \in S
    BY <2>1 DEF S
  <2> QED
    BY <1>3, <1>4, <2>1, <2>2
<1>6. n \in {low} \cup {i + 1 : i \in got}
  <2>1. CASE n = low
    BY <2>1
  <2>2. CASE n # low
    <3>1. n - 1 \in got /\ n = (n - 1) + 1
      BY <1>4, <1>5, <2>2
    <3> QED
      BY <3>1
  <2> QED
    BY <2>1, <2>2
<1> QED
  BY <1>4, <1>5, <1>6 DEF Missing

LEMMA AddRxFacts ==
  ASSUME NEW s, Sane(s), NEW seq \in Nat
  PROVE  LET t == AddRx(s, seq)
         IN /\ Sane(t) /\ Got(s, t) /\ t.state = s.state
            /\ t.endPoint = s.endPoint /\ (Timed(s) => Timed(t))
            /\ t.fin = s.fin /\ t.delAck = s.delAck
            /\ (s.stored = {} /\ seq = s.nextRx /\ s.fin = seq + 1) =>
                 t.nextRx = s.fin + 1
<1> DEFINE got == s.stored \cup {seq}
           next == CHOOSE n \in {s.nextRx} \cup {i + 1 : i \in got} :
                     /\ n >= s.nextRx /\ n \notin got
                     /\ \A i \in s.nextRx .. n - 1 : i \in got
           f == s.fin
           m == IF s.fin # 0 /\ next = s.fin THEN next + 1 ELSE next
           k == {i \in got : i > next}
           t == [s EXCEPT !.fin = f, !.nextRx = m, !.stored = k]
<1>1. /\ s \in Sockets /\ s.stored \in SUBSET Nat /\ IsFiniteSet(s.stored)
      /\ s.nextRx \in Nat /\ s.fin \in Nat
  BY CoreTypes DEF Sane
<1>2. got \in SUBSET Nat /\ IsFiniteSet(got)
  BY <1>1, FS_AddElement
<1>3. next \in {s.nextRx} \cup {i + 1 : i \in got} /\ Missing(next, s.nextRx, got)
  <2>1. \E n \in {s.nextRx} \cup {i + 1 : i \in got} : Missing(n, s.nextRx, got)
    <3> HIDE DEF got
    <3> QED
      BY <1>1, <1>2, MissingExists
  <2> QED
    BY <2>1 DEF Missing
<1>4. AddRx(s, seq) = t
  <2>1. AddRx(s, seq) = [s EXCEPT !.nextRx = m, !.stored = k]
    BY DEF AddRx
  <2> HIDE DEF m, k
  <2>2. t = [s EXCEPT !.nextRx = m, !.stored = k]
    BY <1>1 DEF Sockets
  <2> QED
    BY <2>1, <2>2
<1>5. (s.stored = {} /\ seq = s.nextRx /\ s.fin = seq + 1) => next = seq + 1
  <2> SUFFICES ASSUME s.stored = {}, seq = s.nextRx PROVE next = seq + 1
    OBVIOUS
  <2>1. got = {seq}
    OBVIOUS
  <2> HIDE DEF got, next
  <2>2. next \notin {seq} /\ next \in {seq} \cup {i + 1 : i \in {seq}}
    BY <1>3, <2>1 DEF Missing
  <2> QED
    BY <2>2
<1> HIDE DEF next
<1>6. next \in Nat /\ s.nextRx <= next
  BY <1>1, <1>2, <1>3 DEF Missing
<1>7. k \in SUBSET Nat /\ IsFiniteSet(k)
  BY <1>2, FS_Subset
<1>8. m \in Nat /\ s.nextRx <= m /\ f \in Nat
  BY <1>1, <1>6
<1>9. (s.stored = {} /\ seq = s.nextRx /\ s.fin = seq + 1) => m = s.fin + 1
  BY <1>1, <1>5
<1>10. Buffered(s, t, f, m, k) /\ f = s.fin
  BY DEF Buffered
<1> HIDE DEF f, m, k, t
<1>11. /\ Sane(t) /\ Got(s, t) /\ t.state = s.state
       /\ t.endPoint = s.endPoint /\ (Timed(s) => Timed(t))
       /\ t.fin = f /\ t.nextRx = m /\ t.stored = k
       /\ t.delAck = s.delAck
  BY <1>7, <1>8, <1>10, BufferFacts
<1> QED
  BY <1>4, <1>9, <1>10, <1>11

\* t is s after it took a segment: it goes on in its state, or its peer has
\* closed.
Taken(s, t) ==
  /\ Sane(t) /\ Timed(t) /\ Got(s, t)
  /\ \/ t.state = s.state /\ t.endPoint
     \/ t.state \in {"CLOSE_WAIT", "LAST_ACK"}

LEMMA DelAckFacts ==
  ASSUME NEW s, Sane(s), Timed(s), s.endPoint
  PROVE  LET t == [s EXCEPT !.delAck = TRUE]
         IN /\ Sane(t) /\ Timed(t) /\ Same(s, t) /\ t.state = s.state
            /\ t.endPoint
<1> DEFINE t == [s EXCEPT !.delAck = TRUE]
<1>1. /\ t \in Sockets /\ Same(s, t) /\ t.state = s.state
      /\ t.endPoint = s.endPoint /\ t.retx = s.retx
      /\ t.closeNotified = s.closeNotified /\ t.told = s.told
      /\ t.out = s.out
  BY DEF Sane, Core, Sockets, Same
<1> HIDE DEF t
<1>2. t.endPoint
  BY <1>1
<1>3. Sane(t) /\ Timed(t)
  BY <1>1, <1>2 DEF Sane, Core, End, Same, Timed
<1> QED
  BY <1>1, <1>2, <1>3 DEF t

LEMMA ReceivedDataFacts ==
  ASSUME NEW s, Sane(s), Timed(s), s.endPoint, s.state # "TIME_WAIT",
         NEW m, m.seq \in Nat, NEW in
  PROVE  LET t == ReceivedData(s, m, in)
         IN /\ Taken(s, t)
            /\ m.flags = "FINACK" => t.state = s.state /\ t.endPoint
            /\ (/\ m.flags = "FINACK" /\ s.stored = {}
                /\ m.seq = s.nextRx /\ s.fin = m.seq + 1) => Finished(t)
<1> DEFINE t == AddRx(s, m.seq)
           new == m.seq >= s.nextRx /\ m.seq \notin s.stored
           gap == t.stored # {} \/ t.nextRx > s.nextRx + 1
           over == t.nextRx > s.nextRx /\ Finished(t) /\ m.flags # "FINACK"
           late == ~gap /\ in.delay /\ ~s.delAck
           a == SendEmptyPacket(s, "ACK")
           b == DoPeerClose(t)
           c == [t EXCEPT !.delAck = TRUE]
           d == SendEmptyPacket(t, "ACK")
           r == ReceivedData(s, m, in)
<1>1. /\ ~new => r = a
      /\ (new /\ over) => r = b
      /\ (new /\ ~over) => r = (IF late THEN c ELSE d)
  BY DEF ReceivedData
<1>2. Core(s) /\ s.nextRx \in Nat
  BY CoreTypes DEF Sane
<1>3. /\ Sane(t) /\ Got(s, t) /\ t.state = s.state
      /\ t.endPoint = s.endPoint /\ Timed(t) /\ t.fin = s.fin
      /\ (s.stored = {} /\ m.seq = s.nextRx /\ s.fin = m.seq + 1) =>
           t.nextRx = s.fin + 1
  BY AddRxFacts
<1> HIDE DEF t
<1>4. Core(t) /\ t.endPoint /\ t.state # "TIME_WAIT"
  BY <1>3 DEF Sane
<1>5. CASE ~new
  <2>1. /\ Sane(a) /\ Same(s, a) /\ Timed(a) /\ a.state = s.state
        /\ a.endPoint = s.endPoint
    BY SendEmptyPacketFacts DEF Flags
  <2>2. r = a
    BY <1>1, <1>5
  <2>3. (s.stored = {} /\ m.seq = s.nextRx) => new
    BY <1>2
  <2> HIDE DEF a, r, new
  <2>4. Taken(s, a) /\ a.state = s.state /\ a.endPoint
    BY <1>2, <2>1, SameIsGot DEF Taken
  <2> QED
    BY <1>5, <2>2, <2>3, <2>4 DEF r
<1>6. CASE new /\ over
  <2>1. /\ Sane(b) /\ Timed(b) /\ Same(t, b)
        /\ b.state \in {"CLOSE_WAIT", "LAST_ACK"}
    BY <1>3, <1>4, DoPeerCloseFacts
  <2>2. r = b /\ m.flags # "FINACK"
    BY <1>1, <1>6
  <2> HIDE DEF b, r, new, over
  <2>3. Got(s, b)
    <3>1. Core(b) /\ Got(t, b)
      BY <1>4, <2>1, SameIsGot DEF Sane
    <3> QED
      BY <1>2, <1>3, <1>4, <3>1, GotTransitive
  <2> QED
    BY <2>1, <2>2, <2>3 DEF Taken, r
<1>7. CASE new /\ ~over
  <2> DEFINE e == IF late THEN c ELSE d
  <2>1. /\ Sane(e) /\ Timed(e) /\ Same(t, e) /\ e.state = t.state
        /\ e.endPoint
    <3>1. CASE late
      <4>1. /\ Sane(c) /\ Timed(c) /\ Same(t, c) /\ c.state = t.state
            /\ c.endPoint
        BY <1>3, <1>4, DelAckFacts
      <4> QED
        BY <3>1, <4>1
    <3>2. CASE ~late
      <4>1. /\ Sane(d) /\ Timed(d) /\ Same(t, d) /\ d.state = t.state
            /\ d.endPoint = t.endPoint
        BY <1>3, SendEmptyPacketFacts DEF Flags
      <4> HIDE DEF d, c, late
      <4> QED
        BY <1>4, <3>2, <4>1
    <3> QED
      BY <3>1, <3>2
  <2>2. r = e
    BY <1>1, <1>7
  <2> HIDE DEF e, r, new, over
  <2>3. Got(s, e)
    <3>1. Core(e) /\ Got(t, e)
      BY <1>4, <2>1, SameIsGot DEF Sane
    <3> QED
      BY <1>2, <1>3, <1>4, <3>1, GotTransitive
  <2>4. (s.stored = {} /\ m.seq = s.nextRx /\ s.fin = m.seq + 1) =>
          Finished(e)
    BY <1>2, <1>3, <2>1 DEF Same, Finished
  <2>5. e.state = s.state
    BY <1>3, <2>1
  <2> QED
    BY <2>1, <2>2, <2>3, <2>4, <2>5 DEF Taken, r
<1> QED
  BY <1>5, <1>6, <1>7

LEMMA PeerCloseFacts ==
  ASSUME NEW s, Sane(s), Timed(s), s.endPoint, s.state # "TIME_WAIT",
         NEW m, m.seq \in Nat, m.len \in {0, 1}, m.flags = "FINACK", NEW in
  PROVE  LET t == PeerClose(s, m, in)
         IN /\ Taken(s, t)
            /\ (/\ s.stored = {} /\ s.fin = 0 /\ m.seq = s.nextRx
                /\ s.nextRx >= 1) => t.state \in {"CLOSE_WAIT", "LAST_ACK"}
<1> DEFINE f == SetFin(s, m.seq + m.len)
           u == IF m.len > 0 THEN ReceivedData(f, m, in) ELSE f
           old == m.seq < s.nextRx \/ (s.fin # 0 /\ m.seq > s.fin)
           first == /\ s.stored = {} /\ s.fin = 0 /\ m.seq = s.nextRx
                    /\ s.nextRx >= 1
<1>1. PeerClose(s, m, in) = IF old THEN s
                            ELSE IF Finished(u) THEN DoPeerClose(u) ELSE u
  BY DEF PeerClose
<1>2. Core(s) /\ m.seq + m.len \in Nat /\ s.nextRx \in Nat
  BY CoreTypes DEF Sane
<1>3. Got(s, s)
  BY <1>2, SameIsGot DEF Same
<1>4. /\ Sane(f) /\ Got(s, f) /\ f.state = s.state
      /\ f.endPoint = s.endPoint /\ Timed(f)
      /\ f.fin = m.seq + m.len /\ f.stored = s.stored
      /\ f.nextRx = (IF s.nextRx = m.seq + m.len THEN m.seq + m.len + 1
                     ELSE s.nextRx)
  BY <1>2, SetFinFacts
<1> HIDE DEF f
<1>5. Core(f) /\ f.endPoint /\ f.state # "TIME_WAIT"
  BY <1>4 DEF Sane
<1>6. /\ Sane(u) /\ Timed(u) /\ Got(f, u) /\ u.state = f.state /\ u.endPoint
      /\ first => Finished(u)
  <2>1. CASE m.len > 0
    <3> DEFINE r == ReceivedData(f, m, in)
    <3>1. /\ Taken(f, r) /\ r.state = f.state /\ r.endPoint
          /\ (/\ f.stored = {} /\ m.seq = f.nextRx
              /\ f.fin = m.seq + 1) => Finished(r)
      BY <1>4, <1>5, ReceivedDataFacts
    <3>2. u = r
      BY <2>1
    <3> HIDE DEF r, u
    <3>3. first => (f.stored = {} /\ m.seq = f.nextRx /\ f.fin = m.seq + 1)
      BY <1>2, <1>4, <2>1
    <3> QED
      BY <3>1, <3>2, <3>3 DEF Taken
  <2>2. CASE ~(m.len > 0)
    <3>1. m.len = 0 /\ u = f
      BY <2>2
    <3>2. first => Finished(f)
      BY <1>2, <1>4, <3>1 DEF Finished
    <3>3. Got(f, f)
      BY <1>5, SameIsGot DEF Same
    <3> HIDE DEF u
    <3> QED
      BY <1>4, <1>5, <3>1, <3>2, <3>3
  <2> QED
    BY <2>1, <2>2
<1> HIDE DEF u
<1>7. Core(u) /\ u.state = s.state /\ u.state # "TIME_WAIT"
  BY <1>4, <1>6 DEF Sane
<1>8. Got(s, u)
  BY <1>2, <1>4, <1>5, <1>6, <1>7, GotTransitive
<1>9. CASE old
  <2>1. ~first
    BY <1>2, <1>9
  <2> QED
    BY <1>1, <1>3, <1>9, <2>1 DEF Taken
<1>10. CASE ~old /\ Finished(u)
  <2> DEFINE t == DoPeerClose(u)
  <2>1. /\ Sane(t) /\ Timed(t) /\ Same(u, t)
        /\ t.state \in {"CLOSE_WAIT", "LAST_ACK"}
    BY <1>6, <1>7, DoPeerCloseFacts
  <2>2. PeerClose(s, m, in) = t
    BY <1>1, <1>10
  <2> HIDE DEF t, old
  <2>3. Core(t) /\ Got(u, t)
    BY <1>7, <2>1, SameIsGot DEF Sane
  <2>4. Got(s, t)
    BY <1>2, <1>7, <1>8, <2>3, GotTransitive
  <2> QED
    BY <2>1, <2>2, <2>4 DEF Taken
<1>11. CASE ~old /\ ~Finished(u)
  <2>1. PeerClose(s, m, in) = u /\ ~first
    BY <1>1, <1>6, <1>11
  <2> HIDE DEF old
  <2> QED
    BY <1>6, <1>7, <1>8, <2>1 DEF Taken
<1> QED
  BY <1>9, <1>10, <1>11

-----------------------------------------------------------------------------
(* Acknowledgements.                                                       *)

LEMMA NewAckFacts ==
  ASSUME NEW s, Sane(s), Timed(s), s.endPoint, NEW ack \in Nat,
         NEW reset \in BOOLEAN
  PROVE  LET t == NewAck(s, ack, reset)
         IN Sane(t) /\ Timed(t) /\ Sent(s, t)
<1> DEFINE r == IF s.state # "SYN_RCVD" /\ reset THEN "data" ELSE s.retx
           n == Larger(s.nextTx, ack)
           u == [s EXCEPT !.dataRetrCount = DataRetries, !.retx = r,
                          !.nextTx = n]
           done == s.size = 0 /\ s.state \notin {"FIN_WAIT_1", "CLOSING"}
           x == IF done THEN "none" ELSE r
           t == NewAck(s, ack, reset)
<1>1. t = IF done THEN [u EXCEPT !.retx = "none"] ELSE u
  BY DEF NewAck
<1>2. /\ s \in Sockets /\ Core(s) /\ n \in Nat /\ r \in RetxEvents
      /\ DataRetries \in 0..DataRetries /\ s.highTx \in Nat
      /\ s.head \in Nat /\ s.size \in Nat
  BY CoreTypes, Bounds DEF Sane, Larger, RetxEvents
<1>3. s.retx # "none" => r # "none"
  OBVIOUS
<1>4. done => s.highTx <= s.head
  BY <1>2 DEF Core, End
<1>5. ~done => x = r
  OBVIOUS
<1> HIDE DEF n, r, done
<1>6. /\ u \in Sockets /\ u.head = s.head /\ u.size = s.size
      /\ u.nextRx = s.nextRx /\ u.stored = s.stored /\ u.fin = s.fin
      /\ u.connected = s.connected /\ u.endPoint = s.endPoint
      /\ u.highTx = s.highTx /\ u.retx = r
      /\ u.closeNotified = s.closeNotified /\ u.told = s.told
      /\ u.out = s.out /\ u.state = s.state
  <2>1. u \in Sockets
    BY <1>2 DEF Sockets
  <2> QED
    BY <1>2, <2>1 DEF Sockets
<1> HIDE DEF u
<1>7. /\ t \in Sockets /\ t.head = s.head /\ t.size = s.size
      /\ t.nextRx = s.nextRx /\ t.stored = s.stored /\ t.fin = s.fin
      /\ t.connected = s.connected /\ t.endPoint = s.endPoint
      /\ t.highTx = s.highTx /\ t.retx = x
      /\ t.closeNotified = s.closeNotified /\ t.told = s.told
      /\ t.out = s.out /\ t.state = s.state
  <2>1. CASE done
    <3>1. t = [u EXCEPT !.retx = "none"] /\ x = "none"
      BY <1>1, <2>1
    <3> HIDE DEF t, x
    <3>2. t \in Sockets
      BY <1>6, <3>1 DEF Sockets, RetxEvents
    <3> QED
      BY <1>6, <3>1, <3>2 DEF Sockets
  <2>2. CASE ~done
    <3>1. t = u /\ x = r
      BY <1>1, <2>2
    <3> HIDE DEF t, x
    <3> QED
      BY <1>6, <3>1
  <2> QED
    BY <2>1, <2>2
<1> HIDE DEF t, x
<1>8. t.endPoint
  BY <1>7
<1>9. Sane(t)
  BY <1>2, <1>7, <1>8 DEF Sane, Core, End
<1>10. Timed(t)
  <2>1. CASE done
    BY <1>2, <1>4, <1>7, <2>1 DEF Timed
  <2>2. CASE ~done
    BY <1>3, <1>5, <1>7, <2>2 DEF Timed
  <2> QED
    BY <2>1, <2>2
<1>11. Sent(s, t)
  BY <1>2, <1>7 DEF Sent
<1> QED
  BY <1>9, <1>10, <1>11 DEF t

LEMMA DoRetransmitFacts ==
  ASSUME NEW s, Sane(s), s.endPoint, NEW seq \in Nat, seq < End(s)
  PROVE  LET t == DoRetransmit(s, seq)
         IN Sane(t) /\ Timed(t) /\ Sent(s, t)
<1> DEFINE a == [s EXCEPT !.nextTx = seq]
           t == SendDataPacket(a, seq)
<1>1. DoRetransmit(s, seq) = t
  BY DEF DoRetransmit
<1>2. Core(s)
  BY DEF Sane
<1>3. Sane(a) /\ Sent(s, a)
  BY <1>2, NextTxFacts
<1> HIDE DEF a
<1>4. Core(a) /\ a.endPoint /\ seq < End(a)
  BY <1>3 DEF Sane, Sent, End
<1>5. Sane(t) /\ Sent(a, t) /\ t.retx # "none"
  BY <1>3, <1>4, SendDataPacketFacts
<1> HIDE DEF t
<1>6. Core(t)
  BY <1>5 DEF Sane
<1>7. Sent(s, t)
  BY <1>2, <1>3, <1>4, <1>5, <1>6, SentTransitive
<1> QED
  BY <1>1, <1>5, <1>7 DEF Timed

LEMMA ProcessAckFacts ==
  ASSUME NEW s, Sane(s), Timed(s), s.endPoint, NEW ack \in Nat, NEW oldHead,
         NEW in
  PROVE  LET t == ProcessAck(s, ack, oldHead, in)
         IN Sane(t) /\ Timed(t) /\ Sent(s, t)
<1> DEFINE again == in.fast \in s.head .. s.highTx - 1
           d == DoRetransmit(s, in.fast)
           a == IF again THEN d ELSE s
           reset == in.kind # "partial" \/ s.size = 0
           b == [a EXCEPT !.nextTx = ack]
           c == NewAck(a, ack, reset)
           t == ProcessAck(s, ack, oldHead, in)
<1>1. t \in {a, b, c}
  BY DEF ProcessAck
<1>2. Core(s)
  BY DEF Sane
<1>3. Sane(a) /\ Timed(a) /\ Sent(s, a)
  <2>1. CASE again
    <3>1. in.fast \in Nat /\ in.fast < End(s)
      BY <1>2, <2>1, CoreTypes DEF Core, End
    <3>2. Sane(d) /\ Timed(d) /\ Sent(s, d)
      BY <3>1, DoRetransmitFacts
    <3>3. a = d
      BY <2>1
    <3> HIDE DEF a, d
    <3> QED
      BY <3>2, <3>3
  <2>2. CASE ~again
    BY <1>2, <2>2, SentReflexive
  <2> QED
    BY <2>1, <2>2
<1> HIDE DEF a
<1>4. Core(a) /\ a.endPoint /\ reset \in BOOLEAN
  BY <1>3 DEF Sane, Sent
<1> HIDE DEF reset
<1>5. Sane(b) /\ Timed(b) /\ Sent(s, b)
  <2>1. Sane(b) /\ Timed(b) /\ Sent(a, b)
    BY <1>3, <1>4, NextTxFacts
  <2> HIDE DEF b
  <2> QED
    BY <1>2, <1>3, <1>4, <2>1, SentTransitive DEF Sane
<1>6. Sane(c) /\ Timed(c) /\ Sent(s, c)
  <2>1. Sane(c) /\ Timed(c) /\ Sent(a, c)
    BY <1>3, <1>4, NewAckFacts
  <2> HIDE DEF c
  <2> QED
    BY <1>2, <1>3, <1>4, <2>1, SentTransitive DEF Sane
<1> HIDE DEF b, c, t
<1> QED
  BY <1>1, <1>3, <1>5, <1>6 DEF t

\* t is s after an acknowledgement: its marks are where they were, or further.
Advanced(s, t, m) ==
  /\ Sane(t) /\ Timed(t)
  /\ s.head <= t.head /\ t.head \in {s.head, m.ack}
  /\ s.highTx <= t.highTx /\ s.nextRx <= t.nextRx
  /\ t.connected = s.connected
  /\ \/ t.endPoint /\ (s.state \notin Handshake => t.state \notin Handshake)
     \/ t.state \in {"CLOSE_WAIT", "LAST_ACK"}

LEMMA ReceivedAckFacts ==
  ASSUME NEW s, Sane(s), Timed(s), s.endPoint, s.state # "TIME_WAIT",
         NEW m, m.ack \in Nat, m.seq \in Nat, NEW in, in.k \in Nat
  PROVE  Advanced(s, ReceivedAck(s, m, in), m)
<1> DEFINE size == IF m.ack >= End(s) THEN 0 ELSE End(s) - m.ack
           a == [s EXCEPT !.head = m.ack, !.size = size]
           u == ProcessAck(a, m.ack, s.head, in)
           v == IF m.len > 0 THEN ReceivedData(u, m, in) ELSE u
           w == SendPendingData(v, in.lost, in.k)
           r == ReceivedData(s, m, in)
           old == m.ack < s.head
           t == ReceivedAck(s, m, in)
<1>1. t = IF old THEN (IF m.len > 0 THEN r ELSE s) ELSE w
  BY DEF ReceivedAck
<1>2. /\ Core(s) /\ s \in Sockets /\ s.head \in Nat /\ s.size \in Nat
      /\ s.highTx \in Nat /\ s.nextRx \in Nat /\ s.highTx <= End(s)
  BY CoreTypes DEF Sane, Core
<1>3. CASE old
  <2>1. CASE m.len > 0
    <3>1. Taken(s, r)
      BY ReceivedDataFacts
    <3>2. t = r
      BY <1>1, <1>3, <2>1
    <3> HIDE DEF r, t
    <3> QED
      BY <1>2, <3>1, <3>2 DEF Taken, Got, Advanced, t
  <2>2. CASE ~(m.len > 0)
    <3>1. t = s
      BY <1>1, <1>3, <2>2
    <3> HIDE DEF t
    <3> QED
      BY <1>2, <3>1 DEF Advanced, t
  <2> QED
    BY <2>1, <2>2
<1>4. CASE ~old
  <2>1. size \in Nat /\ s.highTx <= m.ack + size /\ s.head <= m.ack
    BY <1>2, <1>4 DEF End
  <2> HIDE DEF size
  <2>2. /\ a \in Sockets /\ a.head = m.ack /\ a.size = size
        /\ a.nextRx = s.nextRx /\ a.stored = s.stored /\ a.fin = s.fin
        /\ a.connected = s.connected /\ a.endPoint = s.endPoint
        /\ a.highTx = s.highTx /\ a.retx = s.retx
        /\ a.closeNotified = s.closeNotified /\ a.told = s.told
        /\ a.out = s.out /\ a.state = s.state
    BY <1>2, <2>1 DEF Sockets
  <2> HIDE DEF a
  <2>3. a.endPoint
    BY <2>2
  <2>4. Sane(a)
    BY <1>2, <2>1, <2>2, <2>3 DEF Sane, Core, End
  <2>5. Timed(a)
    BY <1>2, <2>1, <2>2 DEF Timed
  <2>6. Sane(u) /\ Timed(u) /\ Sent(a, u)
    BY <2>3, <2>4, <2>5, ProcessAckFacts
  <2> HIDE DEF u
  <2>7. /\ u.endPoint /\ u.state # "TIME_WAIT" /\ Core(u)
        /\ u.state = s.state \/ u.state \notin Handshake
    BY <2>2, <2>3, <2>6 DEF Sent, Sane, Handshake
  <2>8. Taken(u, v)
    <3>1. CASE m.len > 0
      BY <2>6, <2>7, <3>1, ReceivedDataFacts
    <3>2. CASE ~(m.len > 0)
      <4>1. Got(u, u)
        BY <2>7, SameIsGot DEF Same
      <4> QED
        BY <2>6, <2>7, <3>2, <4>1 DEF Taken
    <3> QED
      BY <3>1, <3>2
  <2> HIDE DEF v
  <2>9. Core(v) /\ v.nextRx \in Nat /\ v.highTx \in Nat /\ v.head \in Nat
    BY <2>8, CoreTypes DEF Taken, Sane
  <2>10. Sane(w) /\ Timed(w) /\ Sent(v, w)
    BY <2>8, SendPendingDataFacts DEF Taken
  <2> HIDE DEF w
  <2>11. /\ Core(w) /\ w.nextRx \in Nat /\ w.highTx \in Nat
         /\ u.highTx \in Nat /\ u.nextRx \in Nat
    BY <2>7, <2>10, CoreTypes DEF Sane
  <2>12. w.head = m.ack /\ s.highTx <= w.highTx /\ s.nextRx <= w.nextRx
    BY <1>2, <2>2, <2>6, <2>8, <2>9, <2>10, <2>11 DEF Sent, Taken, Got
  <2>13. w.connected = s.connected
    BY <2>2, <2>6, <2>8, <2>10 DEF Sent, Taken, Got
  <2>14. \/ w.endPoint /\ (s.state \notin Handshake => w.state \notin Handshake)
         \/ w.state \in {"CLOSE_WAIT", "LAST_ACK"}
    <3>1. CASE v.state = u.state /\ v.endPoint
      BY <2>7, <2>10, <3>1 DEF Sent, Handshake
    <3>2. CASE v.state \in {"CLOSE_WAIT", "LAST_ACK"}
      BY <2>10, <3>2 DEF Sent
    <3> QED
      BY <2>8, <3>1, <3>2 DEF Taken
  <2>15. t = w
    BY <1>1, <1>4
  <2> HIDE DEF t
  <2> QED
    BY <2>1, <2>10, <2>12, <2>13, <2>14, <2>15 DEF Advanced, t
<1> QED
  BY <1>3, <1>4

-----------------------------------------------------------------------------
(* The handlers of a segment.                                              *)

\* t is s after a handler of m: the head is where it was, past the SYN, or
\* where an acknowledgement puts it, and after the handshake no mark goes back.
Outcome(s, t, m) ==
  /\ Sane(t) /\ Timed(t) /\ Fresh(t)
  /\ t.head \in {s.head, 1} \/ (m.flags \in Acking /\ t.head = m.ack)
  /\ s.state \notin Handshake =>
       /\ t.state \notin Handshake /\ s.nextRx <= t.nextRx
       /\ s.head <= t.head /\ s.highTx <= t.highTx

LEMMA SameOutcome ==
  ASSUME NEW s, Core(s), NEW t, NEW m, Sane(t), Timed(t), Fresh(t), Same(s, t),
         s.state \notin Handshake => t.state \notin Handshake
  PROVE  Outcome(s, t, m)
<1>1. s.nextRx <= s.nextRx /\ s.head <= s.head /\ s.highTx <= s.highTx
  BY CoreTypes
<1> QED
  BY <1>1 DEF Outcome, Same

LEMMA TakenOutcome ==
  ASSUME NEW s, Core(s), NEW t, NEW m, Taken(s, t), s.state \notin Handshake
  PROVE  Outcome(s, t, m)
<1>1. s.head <= s.head /\ s.highTx <= s.highTx
  BY CoreTypes
<1>2. t.state \notin Handshake
  BY DEF Taken, Handshake
<1> QED
  BY <1>1, <1>2 DEF Outcome, Taken, Got, Fresh

LEMMA AdvancedOutcome ==
  ASSUME NEW s, NEW t, NEW m, m.flags \in Acking, Advanced(s, t, m),
         s.state \notin Handshake
  PROVE  Outcome(s, t, m)
<1>1. t.state \notin Handshake
  BY DEF Advanced, Handshake
<1> QED
  BY <1>1 DEF Outcome, Advanced, Fresh

LEMMA IllegalFacts ==
  ASSUME NEW s, Sane(s), NEW m
  PROVE  Outcome(s, Illegal(s, m), m)
<1> DEFINE r == SendRST(s)
           a == IF m.flags = "RST" THEN s ELSE r
           t == CloseAndNotify(a)
<1>1. Illegal(s, m) = t
  BY DEF Illegal
<1>2. Core(a) /\ Same(s, a)
  <2>1. Sane(r) /\ Same(s, r)
    BY SendRSTFacts
  <2> HIDE DEF r
  <2> QED
    BY <2>1 DEF Sane, Same
<1> HIDE DEF a
<1>3. Sane(t) /\ ~t.endPoint /\ Same(a, t) /\ t.state = "CLOSED"
  BY <1>2, CloseAndNotifyFacts
<1> HIDE DEF t
<1>4. Same(s, t) /\ Timed(t) /\ Fresh(t) /\ t.state \notin Handshake /\ Core(s)
  BY <1>2, <1>3 DEF Same, Timed, Fresh, Handshake, Sane
<1> QED
  BY <1>1, <1>3, <1>4, SameOutcome

\* A socket that changes nothing, or only acknowledges.
LEMMA IdleOutcome ==
  ASSUME NEW s, Sane(s), Timed(s), Fresh(s), NEW m
  PROVE  Outcome(s, s, m)
<1>1. Core(s) /\ Same(s, s)
  BY DEF Sane, Same
<1> QED
  BY <1>1, SameOutcome

LEMMA AckOutcome ==
  ASSUME NEW s, Sane(s), Timed(s), s.state \notin Handshake, NEW m
  PROVE  Outcome(s, SendEmptyPacket(s, "ACK"), m)
<1> DEFINE t == SendEmptyPacket(s, "ACK")
<1>1. Sane(t) /\ Same(s, t) /\ Timed(t) /\ t.state = s.state
  BY SendEmptyPacketFacts DEF Flags
<1> HIDE DEF t
<1>2. Core(s) /\ Fresh(t)
  BY <1>1 DEF Sane, Fresh
<1> QED
  BY <1>1, <1>2, SameOutcome DEF t

LEMMA ProcessEstablishedFacts ==
  ASSUME NEW s, Sane(s), Timed(s), s.endPoint, s.state = "ESTABLISHED",
         NEW m \in Segments, NEW in, in.k \in Nat
  PROVE  Outcome(s, ProcessEstablished(s, m, in), m)
<1> DEFINE a == SendEmptyPacket(s, "ACK")
           b == ReceivedAck(s, m, in)
           c == PeerClose(s, m, in)
           d == Illegal(s, m)
           t == ProcessEstablished(s, m, in)
<1>1. /\ Core(s) /\ Fresh(s) /\ s.state \notin Handshake
      /\ s.state # "TIME_WAIT" /\ m.seq \in Nat /\ m.ack \in Nat
      /\ m.len \in {0, 1} /\ m.flags \in Flags
  BY DEF Sane, Fresh, Handshake, Segments
<1>2. Outcome(s, s, m) /\ Outcome(s, a, m) /\ Outcome(s, d, m)
  BY <1>1, IdleOutcome, AckOutcome, IllegalFacts
<1>3. CASE m.flags = "ACK"
  <2>1. Outcome(s, b, m)
    BY <1>1, <1>3, ReceivedAckFacts, AdvancedOutcome DEF Acking
  <2>2. t \in {s, a, b, d}
    BY <1>3 DEF ProcessEstablished
  <2> HIDE DEF a, b, d, t
  <2> QED
    BY <1>2, <2>1, <2>2 DEF t
<1>4. CASE m.flags = "FINACK"
  <2>1. t = c
    BY <1>4 DEF ProcessEstablished
  <2>2. Taken(s, c)
    BY <1>1, <1>4, PeerCloseFacts
  <2> HIDE DEF c, t
  <2>3. Outcome(s, c, m)
    BY <1>1, <2>2, TakenOutcome
  <2> QED
    BY <2>1, <2>3 DEF t
<1>5. CASE m.flags \notin Acking
  <2>1. t \in {s, d}
    BY <1>5 DEF ProcessEstablished, Acking
  <2> HIDE DEF a, d, t
  <2> QED
    BY <1>2, <2>1 DEF t
<1> QED
  BY <1>3, <1>4, <1>5 DEF Acking

\* A connection is established: both the SYN and its acknowledgement count.
LEMMA ConnectedFacts ==
  ASSUME NEW s, Sane(s), Fresh(s), s.endPoint, s.state \in Handshake
  PROVE  LET t == Connected(s)
         IN /\ Sane(t) /\ Timed(t) /\ t.head = 1 /\ t.highTx = 1
            /\ t.endPoint /\ t.state = "ESTABLISHED" /\ t.connected
            /\ t.nextRx = s.nextRx /\ t.stored = {} /\ t.fin = 0
            /\ t.size = s.size
            /\ \A x \in t.out : x.flags \notin Acking
<1> DEFINE one == s.nextTx + 1
           t == [s EXCEPT !.state = "ESTABLISHED", !.connected = TRUE,
                          !.retx = "none", !.highTx = one, !.nextTx = one,
                          !.head = one]
<1>1. Connected(s) = t
  BY DEF Connected
<1>2. one = 1
  BY DEF Fresh
<1> HIDE DEF one
<1>3. s \in Sockets /\ Core(s)
  BY DEF Sane, Core
<1>4. /\ t \in Sockets /\ t.head = 1 /\ t.size = s.size
      /\ t.nextRx = s.nextRx /\ t.stored = s.stored /\ t.fin = s.fin
      /\ t.connected = TRUE /\ t.endPoint = s.endPoint
      /\ t.highTx = 1 /\ t.retx = "none"
      /\ t.closeNotified = s.closeNotified /\ t.told = s.told
      /\ t.out = s.out /\ t.state = "ESTABLISHED"
  <2>1. t \in Sockets
    BY <1>2, <1>3 DEF Sockets, States, RetxEvents
  <2> QED
    BY <1>2, <1>3, <2>1 DEF Sockets
<1> HIDE DEF t
<1>5. t.endPoint /\ t.size \in Nat
  BY <1>3, <1>4, CoreTypes
<1>6. Sane(t) /\ Timed(t)
  BY <1>3, <1>4, <1>5 DEF Sane, Core, End, Timed
<1> QED
  BY <1>1, <1>4, <1>5, <1>6 DEF Fresh

\* Where nothing was acknowledged yet the expected number may be anything.
LEMMA NextRxFacts ==
  ASSUME NEW s, Sane(s), NEW n \in Nat, \A x \in s.out : x.flags \notin Acking
  PROVE  LET t == [s EXCEPT !.nextRx = n]
         IN /\ Sane(t) /\ (Timed(s) => Timed(t))
            /\ ((Fresh(s) /\ n >= 1) => Fresh(t))
            /\ t.head = s.head /\ t.highTx = s.highTx /\ t.state = s.state
            /\ t.endPoint = s.endPoint /\ t.nextRx = n
<1> DEFINE t == [s EXCEPT !.nextRx = n]
<1>1. /\ t \in Sockets /\ t.head = s.head /\ t.size = s.size
      /\ t.nextRx = n /\ t.stored = s.stored /\ t.fin = s.fin
      /\ t.connected = s.connected /\ t.endPoint = s.endPoint
      /\ t.highTx = s.highTx /\ t.nextTx = s.nextTx /\ t.retx = s.retx
      /\ t.delAck = s.delAck /\ t.lastAck = s.lastAck
      /\ t.timeWait = s.timeWait /\ t.pending = s.pending
      /\ t.closeNotified = s.closeNotified /\ t.told = s.told
      /\ t.out = s.out /\ t.state = s.state
  BY DEF Sane, Core, Sockets
<1> HIDE DEF t
<1>2. Sane(t)
  BY <1>1 DEF Sane, Core, End, Quiet, Informed
<1>3. (Timed(s) => Timed(t)) /\ ((Fresh(s) /\ n >= 1) => Fresh(t))
  BY <1>1 DEF Timed, Fresh
<1> QED
  BY <1>1, <1>2, <1>3 DEF t

LEMMA ProcessSynSentFacts ==
  ASSUME NEW s, Sane(s), Timed(s), Fresh(s), s.endPoint, s.state = "SYN_SENT",
         NEW m \in Segments, NEW in, in.k \in Nat
  PROVE  Outcome(s, ProcessSynSent(s, m, in), m)
<1> DEFINE t == ProcessSynSent(s, m, in)
<1>1. /\ Core(s) /\ s \in Sockets /\ s.state \in Handshake
      /\ m.seq + 1 \in Nat /\ m.seq + 1 >= 1 /\ m.flags \in Flags
      /\ s.head = 0
  BY DEF Sane, Core, Handshake, Segments, Fresh
<1>2. \A x \in s.out : x.flags \notin Acking
  BY <1>1 DEF Fresh
<1>3. CASE m.flags \in {"ACK", "FINACK", "RSTACK"}
  BY <1>3, IdleOutcome DEF ProcessSynSent
<1>4. CASE m.flags = "SYN"
  <2> DEFINE n == m.seq + 1
             a == [s EXCEPT !.state = "SYN_RCVD", !.nextRx = n,
                            !.synCount = SynRetries]
             e == SendEmptyPacket(a, "SYNACK")
  <2>1. t = e
    BY <1>4 DEF ProcessSynSent
  <2>2. n \in Nat /\ n >= 1
    BY <1>1
  <2> HIDE DEF n
  <2>3. /\ a \in Sockets /\ a.head = s.head /\ a.size = s.size
        /\ a.nextRx = n /\ a.stored = s.stored /\ a.fin = s.fin
        /\ a.connected = s.connected /\ a.endPoint = s.endPoint
        /\ a.highTx = s.highTx /\ a.nextTx = s.nextTx /\ a.retx = s.retx
        /\ a.delAck = s.delAck /\ a.pending = s.pending
        /\ a.closeNotified = s.closeNotified /\ a.told = s.told
        /\ a.out = s.out /\ a.state = "SYN_RCVD"
    <3>1. SynRetries \in 0..SynRetries
      BY Bounds
    <3>2. a \in Sockets
      BY <1>1, <2>2, <3>1 DEF Sockets, States
    <3> QED
      BY <1>1, <3>2 DEF Sockets
  <2> HIDE DEF a
  <2>4. a.endPoint
    BY <2>3
  <2>5. Sane(a)
    BY <1>1, <1>2, <2>2, <2>3, <2>4 DEF Sane, Core, End
  <2>6. Timed(a) /\ Fresh(a)
    BY <1>1, <1>2, <2>2, <2>3 DEF Timed, Fresh, Handshake
  <2>7. Sane(e) /\ Timed(e) /\ Fresh(e) /\ Same(a, e)
    BY <2>5, <2>6, SendEmptyPacketFacts DEF Flags, Acking
  <2> HIDE DEF e, t
  <2> QED
    BY <1>1, <2>1, <2>3, <2>7 DEF Outcome, Same, t
<1>5. CASE m.flags = "SYNACK" /\ m.ack = s.nextTx + 1
  <2> DEFINE c == Connected(s)
             n == m.seq + 1
             a == [c EXCEPT !.nextRx = n]
             e == SendEmptyPacket(a, "ACK")
             p == SendPendingData(e, in.lost, in.k)
             r == Told(p, "connected")
  <2>1. t = r
    BY <1>5 DEF ProcessSynSent
  <2>2. /\ Sane(c) /\ Timed(c) /\ c.head = 1
        /\ c.endPoint /\ c.state = "ESTABLISHED"
        /\ \A x \in c.out : x.flags \notin Acking
    BY <1>1, ConnectedFacts
  <2> HIDE DEF c
  <2>3. n \in Nat
    BY <1>1
  <2> HIDE DEF n
  <2>4. Sane(a) /\ Timed(a) /\ a.head = c.head /\ a.state = c.state
    BY <2>2, <2>3, NextRxFacts
  <2> HIDE DEF a
  <2>5. Sane(e) /\ Timed(e) /\ Same(a, e) /\ e.state = a.state
    BY <2>4, SendEmptyPacketFacts DEF Flags
  <2> HIDE DEF e
  <2>6. Sane(p) /\ Timed(p) /\ Sent(e, p)
    BY <2>5, SendPendingDataFacts
  <2> HIDE DEF p
  <2>7. Core(p) /\ "connected" \in Ends \cup {"connected", "accepted"}
    BY <2>6 DEF Sane
  <2>8. Sane(r) /\ Timed(r) /\ Same(p, r) /\ r.state = p.state
    BY <2>6, <2>7, ToldFacts
  <2> HIDE DEF r
  <2>9. r.head = 1 /\ r.state \notin Handshake
    BY <2>2, <2>4, <2>5, <2>6, <2>8 DEF Same, Sent, Handshake
  <2>10. Fresh(r)
    BY <2>9 DEF Fresh
  <2>11. r.head \in {s.head, 1}
    BY <2>9
  <2> HIDE DEF t
  <2>12. Outcome(s, r, m)
    BY <1>1, <2>8, <2>10, <2>11 DEF Outcome
  <2> QED
    BY <2>1, <2>12 DEF t
<1>6. CASE /\ m.flags \notin {"ACK", "FINACK", "RSTACK", "SYN"}
           /\ ~(m.flags = "SYNACK" /\ m.ack = s.nextTx + 1)
  <2>1. t = Illegal(s, m)
    BY <1>6 DEF ProcessSynSent
  <2> QED
    BY <2>1, IllegalFacts
<1> QED
  BY <1>3, <1>4, <1>5, <1>6

LEMMA ProcessSynRcvdFacts ==
  ASSUME NEW s, Sane(s), Timed(s), Fresh(s), s.endPoint, s.state = "SYN_RCVD",
         NEW m \in Segments, NEW in, in.k \in Nat
  PROVE  Outcome(s, ProcessSynRcvd(s, m, in), m)
<1> DEFINE c == Connected(s)
           k == Told(c, "accepted")
           t == ProcessSynRcvd(s, m, in)
<1>1. /\ Core(s) /\ s.state \in Handshake
      /\ m.seq \in Nat /\ m.ack \in Nat /\ m.len \in {0, 1}
      /\ m.flags \in Flags /\ s.head = 0 /\ s.nextRx >= 1
      /\ m.seq + 1 \in Nat /\ m.seq + 1 >= 1
  BY DEF Sane, Handshake, Segments, Fresh
<1>2. /\ Sane(c) /\ Timed(c) /\ c.head = 1 /\ c.highTx = 1
      /\ c.endPoint /\ c.state = "ESTABLISHED" /\ c.nextRx = s.nextRx
      /\ c.stored = {} /\ c.fin = 0
  BY <1>1, ConnectedFacts
<1> HIDE DEF c
<1>3. /\ Sane(k) /\ Timed(k) /\ Same(c, k) /\ k.state = c.state
      /\ k.endPoint = c.endPoint
  <2>1. Core(c) /\ "accepted" \in Ends \cup {"connected", "accepted"}
    BY <1>2 DEF Sane
  <2> QED
    BY <1>2, <2>1, ToldFacts
<1> HIDE DEF k
<1>4. /\ k.head = 1 /\ k.endPoint /\ k.state = "ESTABLISHED"
      /\ k.nextRx = s.nextRx /\ k.stored = {} /\ k.fin = 0
      /\ k.state \notin Handshake /\ k.state # "TIME_WAIT"
  BY <1>2, <1>3 DEF Same, Handshake
<1>5. CASE m.flags = "ACK" /\ m.ack = s.nextTx + 1
  <2> DEFINE a == ReceivedAck(k, m, in)
  <2>1. t = a
    BY <1>5 DEF ProcessSynRcvd, k, c
  <2>2. Advanced(k, a, m)
    BY <1>1, <1>3, <1>4, ReceivedAckFacts
  <2> HIDE DEF a, t
  <2>3. Outcome(k, a, m)
    BY <1>4, <1>5, <2>2, AdvancedOutcome DEF Acking
  <2> QED
    BY <1>1, <1>4, <1>5, <2>1, <2>3 DEF Outcome, Acking, t
<1>6. CASE m.flags = "SYN"
  <2> DEFINE n == m.seq + 1
             a == [s EXCEPT !.nextRx = n]
             e == SendEmptyPacket(a, "SYNACK")
  <2>1. t = e
    BY <1>6 DEF ProcessSynRcvd
  <2>2. n \in Nat /\ n >= 1 /\ \A x \in s.out : x.flags \notin Acking
    BY <1>1 DEF Fresh
  <2> HIDE DEF n
  <2>3. Sane(a) /\ Timed(a) /\ Fresh(a) /\ a.head = s.head
    BY <2>2, NextRxFacts
  <2> HIDE DEF a
  <2>4. Sane(e) /\ Timed(e) /\ Fresh(e) /\ Same(a, e)
    BY <2>3, SendEmptyPacketFacts DEF Flags, Acking
  <2> HIDE DEF e, t
  <2> QED
    BY <1>1, <2>1, <2>3, <2>4 DEF Outcome, Same, t
<1>7. CASE m.flags = "FINACK" /\ m.seq = s.nextRx
  <2> DEFINE a == [k EXCEPT !.state = "SYN_RCVD"]
             p == PeerClose(a, m, in)
  <2>1. t = p
    BY <1>7 DEF ProcessSynRcvd, k, c
  <2>2. "SYN_RCVD" \in States \ {"CLOSED"}
    BY DEF States
  <2>3. /\ Sane(a) /\ Timed(a) /\ Same(k, a) /\ a.state = "SYN_RCVD"
        /\ a.endPoint = k.endPoint
    BY <1>3, <1>4, <2>2, StateFacts
  <2> HIDE DEF a
  <2>4. /\ a.endPoint /\ a.state # "TIME_WAIT" /\ a.stored = {} /\ a.fin = 0
        /\ a.nextRx = s.nextRx /\ a.head = 1
    BY <1>4, <2>3 DEF Same
  <2>5. Taken(a, p) /\ p.state \in {"CLOSE_WAIT", "LAST_ACK"}
    BY <1>1, <1>7, <2>3, <2>4, PeerCloseFacts
  <2> HIDE DEF p, t
  <2>6. p.state \notin Handshake
    BY <2>5 DEF Handshake
  <2>7. Outcome(s, p, m)
    BY <1>1, <2>4, <2>5, <2>6 DEF Outcome, Taken, Got, Fresh
  <2> QED
    BY <2>1, <2>7 DEF t
<1>8. CASE m.flags = "FINACK" /\ m.seq # s.nextRx
  BY <1>8, IdleOutcome DEF ProcessSynRcvd
<1>9. CASE /\ ~(m.flags = "ACK" /\ m.ack = s.nextTx + 1)
           /\ m.flags \notin {"SYN", "FINACK"}
  <2>1. t = Illegal(s, m)
    BY <1>9 DEF ProcessSynRcvd
  <2> QED
    BY <2>1, IllegalFacts
<1> QED
  BY <1>5, <1>6, <1>7, <1>8, <1>9

\* The answer to a FIN leaves the data alone.
LEMMA AnswerFinFacts ==
  ASSUME NEW s, Sane(s), Timed(s), s.state \notin Handshake, NEW m,
         s.state \in {"FIN_WAIT_1", "FIN_WAIT_2"} => s.endPoint
  PROVE  LET t == AnswerFin(s, m)
         IN Sane(t) /\ Timed(t) /\ Same(s, t) /\ t.state \notin Handshake
<1> DEFINE w == TimeWait(s)
           c == [s EXCEPT !.state = "CLOSING"]
           t == AnswerFin(s, m)
<1>1. Core(s)
  BY DEF Sane
<1>2. CASE s.state \in {"FIN_WAIT_1", "FIN_WAIT_2"} /\ Finished(s)
  <2>1. "CLOSING" \in States \ {"CLOSED"}
    BY DEF States
  <2>2. Sane(c) /\ Timed(c) /\ Same(s, c) /\ c.state = "CLOSING"
    BY <1>2, <2>1, StateFacts
  <2>3. Sane(w) /\ Timed(w) /\ Same(s, w) /\ w.state = "TIME_WAIT"
    BY <1>2, TimeWaitFacts
  <2>4. t \in {SendEmptyPacket(w, "ACK"), SendEmptyPacket(c, "ACK")}
    BY <1>2 DEF AnswerFin
  <2> HIDE DEF w, c, t
  <2>5. \A x \in {w, c} :
          LET e == SendEmptyPacket(x, "ACK")
          IN Sane(e) /\ Timed(e) /\ Same(s, e) /\ e.state = x.state
    <3>1. TAKE x \in {w, c}
    <3> DEFINE e == SendEmptyPacket(x, "ACK")
    <3>2. Sane(x) /\ Timed(x) /\ Same(s, x)
      BY <2>2, <2>3, <3>1
    <3>3. Sane(e) /\ Timed(e) /\ Same(x, e) /\ e.state = x.state
      BY <3>2, SendEmptyPacketFacts DEF Flags
    <3> HIDE DEF e
    <3>4. Same(s, e)
      BY <3>2, <3>3 DEF Same
    <3> QED
      BY <3>3, <3>4 DEF e
  <2> QED
    BY <2>2, <2>3, <2>4, <2>5 DEF t, Handshake
<1>3. CASE ~(s.state \in {"FIN_WAIT_1", "FIN_WAIT_2"} /\ Finished(s))
  <2>1. t = s
    BY <1>3 DEF AnswerFin
  <2> HIDE DEF t
  <2> QED
    BY <2>1 DEF Same, t
<1> QED
  BY <1>2, <1>3

LEMMA ProcessWaitFacts ==
  ASSUME NEW s, Sane(s), Timed(s), Fresh(s), s.endPoint,
         s.state \in {"FIN_WAIT_1", "FIN_WAIT_2", "CLOSE_WAIT"},
         NEW m \in Segments, NEW in, in.k \in Nat
  PROVE  Outcome(s, ProcessWait(s, m, in), m)
<1> DEFINE a == ReceivedAck(s, m, in)
           t == ProcessWait(s, m, in)
<1>1. /\ Core(s) /\ s.state \notin Handshake /\ s.state # "TIME_WAIT"
      /\ m.seq \in Nat /\ m.ack \in Nat
  BY DEF Sane, Handshake, Segments
<1>2. /\ Advanced(s, a, m) /\ Sane(a) /\ Timed(a) /\ Core(a)
      /\ a.state \notin Handshake
      /\ a.state \in {"FIN_WAIT_1", "FIN_WAIT_2"} => a.endPoint
  <2>1. Advanced(s, a, m)
    BY <1>1, ReceivedAckFacts
  <2> HIDE DEF a
  <2> QED
    BY <1>1, <2>1 DEF Advanced, Sane, Handshake
<1> HIDE DEF a
<1>3. CASE m.flags = "ACK"
  <2> DEFINE u == IF /\ a.state = "FIN_WAIT_1" /\ a.size = 0
                     /\ m.ack = a.highTx + 1
                  THEN [a EXCEPT !.state = "FIN_WAIT_2"] ELSE a
             w == AnswerFin(u, m)
  <2>1. t = w
    BY <1>3 DEF ProcessWait, a
  <2>2. /\ Sane(u) /\ Timed(u) /\ Same(a, u) /\ u.state \notin Handshake
        /\ u.state \in {"FIN_WAIT_1", "FIN_WAIT_2"} => u.endPoint
    <3>1. "FIN_WAIT_2" \in States \ {"CLOSED"}
      BY DEF States
    <3> DEFINE x == [a EXCEPT !.state = "FIN_WAIT_2"]
    <3>2. a.state = "FIN_WAIT_1" =>
            /\ Sane(x) /\ Timed(x) /\ Same(a, x) /\ x.state = "FIN_WAIT_2"
            /\ x.endPoint
      BY <1>2, <3>1, StateFacts
    <3> HIDE DEF x
    <3>3. (u = x /\ a.state = "FIN_WAIT_1") \/ u = a
      BY DEF x
    <3> HIDE DEF u
    <3> QED
      BY <1>2, <3>2, <3>3 DEF Same, Handshake
  <2> HIDE DEF u
  <2>3. Sane(w) /\ Timed(w) /\ Same(u, w) /\ w.state \notin Handshake
    BY <2>2, AnswerFinFacts
  <2> HIDE DEF w, t
  <2>4. Fresh(w)
    BY <2>3 DEF Fresh
  <2>5. Outcome(s, w, m)
    BY <1>2, <1>3, <2>2, <2>3, <2>4 DEF Outcome, Advanced, Same, Acking
  <2> QED
    BY <2>1, <2>5 DEF t
<1>4. CASE m.flags = "FINACK"
  <2> DEFINE u == SetFin(a, m.seq)
             w == AnswerFin(u, m)
  <2>1. t = w
    BY <1>4 DEF ProcessWait, a
  <2>2. /\ Sane(u) /\ Timed(u) /\ Got(a, u) /\ u.state = a.state
        /\ u.endPoint = a.endPoint
    BY <1>1, <1>2, SetFinFacts
  <2> HIDE DEF u
  <2>3. Sane(w) /\ Timed(w) /\ Same(u, w) /\ w.state \notin Handshake
    BY <1>2, <2>2, AnswerFinFacts
  <2> HIDE DEF w, t
  <2>4. Fresh(w) /\ Core(w) /\ Core(u)
    BY <2>2, <2>3 DEF Fresh, Sane
  <2>5. /\ w.nextRx \in Nat /\ a.nextRx \in Nat /\ s.nextRx \in Nat
        /\ w.nextRx = u.nextRx
    BY <1>1, <1>2, <2>3, <2>4, CoreTypes DEF Same
  <2>6. s.nextRx <= w.nextRx
    BY <1>2, <2>2, <2>5 DEF Advanced, Got
  <2>7. Outcome(s, w, m)
    BY <1>2, <1>4, <2>2, <2>3, <2>4, <2>6
       DEF Outcome, Advanced, Got, Same, Acking
  <2> QED
    BY <2>1, <2>7 DEF t
<1>5. CASE m.flags \notin Acking
  <2>1. t \in {s, Illegal(s, m)}
    BY <1>5 DEF ProcessWait, Acking
  <2> QED
    BY <2>1, IdleOutcome, IllegalFacts
<1> QED
  BY <1>3, <1>4, <1>5 DEF Acking

\* The connection ends, at once or after the time in TIME_WAIT.
LEMMA CloseOutcome ==
  ASSUME NEW s, Core(s), NEW m
  PROVE  Outcome(s, CloseAndNotify(s), m)
<1> DEFINE t == CloseAndNotify(s)
<1>1. Sane(t) /\ ~t.endPoint /\ Same(s, t) /\ t.state = "CLOSED"
  BY CloseAndNotifyFacts
<1> HIDE DEF t
<1>2. Timed(t) /\ Fresh(t) /\ t.state \notin Handshake
  BY <1>1 DEF Timed, Fresh, Handshake
<1>3. Outcome(s, t, m)
  BY <1>1, <1>2, SameOutcome
<1> QED
  BY <1>3 DEF t

LEMMA ProcessClosingFacts ==
  ASSUME NEW s, Sane(s), Timed(s), s.endPoint, s.state = "CLOSING",
         NEW m \in Segments
  PROVE  Outcome(s, ProcessClosing(s, m), m)
<1>1. Core(s) /\ s.state \notin Handshake /\ Fresh(s)
  BY DEF Sane, Handshake, Fresh
<1>2. Outcome(s, TimeWait(s), m)
  <2> DEFINE t == TimeWait(s)
  <2>1. Sane(t) /\ Timed(t) /\ Same(s, t) /\ t.state = "TIME_WAIT"
    BY TimeWaitFacts
  <2> HIDE DEF t
  <2>2. Fresh(t) /\ t.state \notin Handshake
    BY <2>1 DEF Fresh, Handshake
  <2>3. Outcome(s, t, m)
    BY <1>1, <2>1, <2>2, SameOutcome
  <2> QED
    BY <2>3 DEF t
<1>3. Outcome(s, CloseAndNotify(SendEmptyPacket(s, "ACK")), m)
  <2> DEFINE e == SendEmptyPacket(s, "ACK")
             t == CloseAndNotify(e)
  <2>1. Core(e) /\ Same(s, e)
    BY SendEmptyPacketFacts DEF Flags, Sane
  <2> HIDE DEF e
  <2>2. Sane(t) /\ ~t.endPoint /\ Same(e, t) /\ t.state = "CLOSED"
    BY <2>1, CloseAndNotifyFacts
  <2> HIDE DEF t
  <2>3. Timed(t) /\ Fresh(t) /\ Same(s, t) /\ t.state \notin Handshake
    BY <2>1, <2>2 DEF Timed, Fresh, Same, Handshake
  <2>4. Outcome(s, t, m)
    BY <1>1, <2>2, <2>3, SameOutcome
  <2> QED
    BY <2>4 DEF t, e
<1>4. Outcome(s, s, m) /\ Outcome(s, Illegal(s, m), m)
  BY <1>1, IdleOutcome, IllegalFacts
<1> QED
  BY <1>2, <1>3, <1>4 DEF ProcessClosing

LEMMA ProcessLastAckFacts ==
  ASSUME NEW s, Sane(s), Timed(s), s.endPoint, s.state = "LAST_ACK",
         NEW m \in Segments
  PROVE  Outcome(s, ProcessLastAck(s, m), m)
<1>1. Core(s) /\ Fresh(s)
  BY DEF Sane, Handshake, Fresh
<1>2. Outcome(s, CloseAndNotify(s), m)
  BY <1>1, CloseOutcome
<1>3. Outcome(s, s, m) /\ Outcome(s, Illegal(s, m), m)
  BY <1>1, IdleOutcome, IllegalFacts
<1> QED
  BY <1>2, <1>3 DEF ProcessLastAck

\* Whatever a segment does to its socket.
LEMMA DoForwardUpFacts ==
  ASSUME NEW s, Sane(s), Timed(s), Fresh(s), s.endPoint,
         NEW m \in Segments, NEW in, in.k \in Nat
  PROVE  Outcome(s, DoForwardUp(s, m, in), m)
<1> DEFINE t == DoForwardUp(s, m, in)
<1>1. CASE m.len > 0 /\ OutOfRange(s, m)
  <2>1. s.state \notin Handshake
    BY <1>1 DEF OutOfRange, Handshake
  <2>2. t = SendEmptyPacket(s, "ACK")
    BY <1>1 DEF DoForwardUp
  <2> QED
    BY <2>1, <2>2, AckOutcome
<1>2. CASE ~(m.len > 0 /\ OutOfRange(s, m))
  <2>1. CASE s.state = "ESTABLISHED"
    <3>1. t = ProcessEstablished(s, m, in)
      BY <1>2, <2>1 DEF DoForwardUp
    <3> QED
      BY <2>1, <3>1, ProcessEstablishedFacts
  <2>2. CASE s.state = "SYN_SENT"
    <3>1. t = ProcessSynSent(s, m, in)
      BY <1>2, <2>2 DEF DoForwardUp
    <3> QED
      BY <2>2, <3>1, ProcessSynSentFacts
  <2>3. CASE s.state = "SYN_RCVD"
    <3>1. t = ProcessSynRcvd(s, m, in)
      BY <1>2, <2>3 DEF DoForwardUp
    <3> QED
      BY <2>3, <3>1, ProcessSynRcvdFacts
  <2>4. CASE s.state \in {"FIN_WAIT_1", "FIN_WAIT_2", "CLOSE_WAIT"}
    <3>1. t = ProcessWait(s, m, in)
      BY <1>2, <2>4 DEF DoForwardUp
    <3> QED
      BY <2>4, <3>1, ProcessWaitFacts
  <2>5. CASE s.state = "CLOSING"
    <3>1. t = ProcessClosing(s, m)
      BY <1>2, <2>5 DEF DoForwardUp
    <3> QED
      BY <2>5, <3>1, ProcessClosingFacts
  <2>6. CASE s.state = "LAST_ACK"
    <3>1. t = ProcessLastAck(s, m)
      BY <1>2, <2>6 DEF DoForwardUp
    <3> QED
      BY <2>6, <3>1, ProcessLastAckFacts
  <2>7. CASE s.state \in {"CLOSED", "TIME_WAIT"}
    <3>1. t = s
      BY <1>2, <2>7 DEF DoForwardUp
    <3> QED
      BY <3>1, IdleOutcome
  <2> QED
    BY <2>1, <2>2, <2>3, <2>4, <2>5, <2>6, <2>7, CoreTypes DEF Sane, States
<1> QED
  BY <1>1, <1>2

-----------------------------------------------------------------------------
(* The application and the events.                                         *)

\* t is s after a handler that no segment started.
Kept(s, t) ==
  /\ Sane(t) /\ Timed(t) /\ Fresh(t)
  /\ t.head = s.head /\ t.nextRx = s.nextRx /\ s.highTx <= t.highTx
  /\ s.state \notin Handshake => t.state \notin Handshake

LEMMA ClosingIsKept ==
  ASSUME NEW s, Core(s), NEW t, Closing(s, t)
  PROVE  Kept(s, t)
<1>1. t.highTx = s.highTx /\ s.highTx <= s.highTx
  BY CoreTypes DEF Closing, Same
<1> QED
  BY <1>1 DEF Kept, Closing, Same

LEMMA SentIsKept ==
  ASSUME NEW s, NEW t, Sane(t), Timed(t), Sent(s, t), s.state \notin Handshake
  PROVE  Kept(s, t)
<1>1. t.state \notin Handshake
  BY DEF Sent, Handshake
<1> QED
  BY <1>1 DEF Kept, Sent, Fresh

\* q is s without some of its events, and perhaps with another retry counter.
Cleared(s, q) ==
  /\ q \in Sockets /\ Same(s, q) /\ q.state = s.state
  /\ q.endPoint = s.endPoint /\ q.told = s.told /\ q.out = s.out
  /\ q.closeNotified = s.closeNotified
  /\ q.retx \in {"none", s.retx} /\ (q.delAck => s.delAck)
  /\ (q.lastAck => s.lastAck) /\ (q.timeWait => s.timeWait)
  /\ (q.pending => s.pending)

LEMMA ClearedFacts ==
  ASSUME NEW s, Sane(s), NEW q, Cleared(s, q)
  PROVE  /\ Sane(q) /\ (Fresh(s) => Fresh(q))
         /\ (q.retx = s.retx /\ Timed(s)) => Timed(q)
<1>1. Quiet(s) => Quiet(q)
  BY DEF Cleared, Quiet
<1>2. Core(q)
  BY <1>1 DEF Cleared, Sane, Core, Same, End
<1> QED
  BY <1>2 DEF Cleared, Sane, Same, Informed, Fresh, Timed

LEMMA ClosedIsKept ==
  ASSUME NEW s, Core(s), NEW t, Sane(t), ~t.endPoint, Same(s, t), Fresh(t),
         s.state \notin Handshake => t.state \notin Handshake
  PROVE  Kept(s, t)
<1>1. t.highTx = s.highTx /\ s.highTx <= s.highTx
  BY CoreTypes DEF Same
<1> QED
  BY <1>1 DEF Kept, Same, Timed

\* Data is stored, and perhaps the event is scheduled that sends it.
LEMMA SendFacts ==
  ASSUME NEW s, Sane(s), Timed(s), Fresh(s), NEW sends \in BOOLEAN,
         sends => s.state \notin Handshake
  PROVE  LET t == [s EXCEPT !.size = @ + 1]
         IN Kept(s, IF sends THEN [t EXCEPT !.pending = TRUE] ELSE t)
<1> DEFINE t == [s EXCEPT !.size = @ + 1]
           yes == TRUE
           p == [t EXCEPT !.pending = yes]
           u == IF sends THEN p ELSE t
<1>1. /\ Core(s) /\ s \in Sockets /\ s.size + 1 \in Nat /\ s.highTx \in Nat
      /\ s.head \in Nat /\ s.size \in Nat /\ s.highTx <= End(s)
      /\ s.highTx <= s.highTx
  BY CoreTypes DEF Sane, Core
<1>2. yes \in BOOLEAN
  OBVIOUS
<1> HIDE DEF yes
<1>3. t \in Sockets /\ p \in Sockets
  BY <1>1, <1>2 DEF Sockets
<1>4. u \in Sockets
  BY <1>3
<1>5. /\ u.head = s.head /\ u.size = s.size + 1 /\ u.nextTx = s.nextTx
      /\ u.highTx = s.highTx /\ u.nextRx = s.nextRx /\ u.stored = s.stored
      /\ u.fin = s.fin /\ u.connected = s.connected /\ u.retx = s.retx
      /\ u.delAck = s.delAck /\ u.lastAck = s.lastAck
      /\ u.timeWait = s.timeWait /\ u.told = s.told /\ u.out = s.out
      /\ u.closeNotified = s.closeNotified /\ u.state = s.state
      /\ u.endPoint = s.endPoint /\ (~sends => u.pending = s.pending)
  BY <1>1, <1>2 DEF Sockets
<1> HIDE DEF u
<1>6. u.highTx <= End(u)
  BY <1>1, <1>5 DEF End
<1>7. Sane(u)
  BY <1>1, <1>4, <1>5, <1>6 DEF Sane, Core, Quiet, Informed
<1>8. Timed(u) /\ Fresh(u)
  BY <1>5 DEF Timed, Fresh
<1>9. Kept(s, u)
  BY <1>1, <1>5, <1>7, <1>8 DEF Kept
<1> QED
  BY <1>9 DEF u, yes

LEMMA PendingFacts ==
  ASSUME NEW s, Sane(s), Timed(s), Fresh(s), s.pending, NEW k \in Nat
  PROVE  Kept(s, SendPendingData([s EXCEPT !.pending = FALSE], 0, k))
<1> DEFINE q == [s EXCEPT !.pending = FALSE]
           t == SendPendingData(q, 0, k)
<1>1. s \in Sockets /\ s.state \notin Handshake
  BY DEF Sane, Core, Fresh
<1>2. q \in Sockets
  BY <1>1 DEF Sockets
<1>3. Cleared(s, q) /\ q.retx = s.retx
  BY <1>1, <1>2 DEF Cleared, Same, Sockets
<1> HIDE DEF q
<1>4. Sane(q) /\ Timed(q)
  BY <1>3, ClearedFacts
<1>5. Sane(t) /\ Timed(t) /\ Sent(q, t)
  BY <1>4, SendPendingDataFacts
<1> HIDE DEF t
<1>6. Kept(q, t)
  BY <1>1, <1>3, <1>5, SentIsKept DEF Cleared
<1>7. Kept(s, t)
  BY <1>3, <1>6 DEF Kept, Cleared, Same
<1> QED
  BY <1>7 DEF t, q

\* What follows q follows s.
LEMMA KeptThrough ==
  ASSUME NEW s, NEW q, Cleared(s, q), NEW t, Kept(q, t)
  PROVE  Kept(s, t)
BY DEF Kept, Cleared, Same

LEMMA RetransmitEmptyFacts ==
  ASSUME NEW s, Sane(s), Timed(s), Fresh(s),
         s.retx \in {"SYN", "SYNACK", "FINACK"}
  PROVE  Kept(s, SendEmptyPacket([s EXCEPT !.retx = "none"], s.retx))
<1> DEFINE q == [s EXCEPT !.retx = "none"]
           f == s.retx
           t == SendEmptyPacket(q, f)
<1>1. s \in Sockets /\ f \in Flags /\ f \in RetxEvents
  BY DEF Sane, Core, Flags, RetxEvents
<1>2. q \in Sockets
  BY <1>1 DEF Sockets, RetxEvents
<1>3. Cleared(s, q)
  BY <1>1, <1>2 DEF Cleared, Same, Sockets
<1> HIDE DEF q
<1>4. Sane(q) /\ Fresh(q) /\ Core(q) /\ q.state = s.state
  BY <1>3, ClearedFacts DEF Sane, Cleared
<1> HIDE DEF f
<1>5. /\ Sane(t) /\ Same(q, t) /\ t.state \in {q.state, "CLOSED"}
      /\ (t.endPoint => t.retx # "none")
      /\ (Fresh(q) /\ f \notin Acking) => Fresh(t)
  BY <1>1, <1>4, SendEmptyPacketFacts
<1>6. s.state \in Handshake => f \notin Acking
  BY DEF Fresh, Acking, f
<1> HIDE DEF t
<1>7. Fresh(t) /\ Timed(t)
  BY <1>4, <1>5, <1>6 DEF Fresh, Timed, Handshake
<1>8. t.highTx = q.highTx /\ q.highTx <= q.highTx
  BY <1>4, <1>5, CoreTypes DEF Same
<1>9. Kept(q, t)
  BY <1>4, <1>5, <1>7, <1>8 DEF Kept, Same, Handshake
<1>10. Kept(s, t)
  BY <1>3, <1>9, KeptThrough
<1> QED
  BY <1>10 DEF t, f, q

LEMMA ReTxTimeoutFacts ==
  ASSUME NEW s, Sane(s), Timed(s), Fresh(s), s.retx = "data"
  PROVE  Kept(s, AfterReTxTimeout([s EXCEPT !.retx = "none"]))
<1> DEFINE q == [s EXCEPT !.retx = "none"]
           t == AfterReTxTimeout(q)
<1>1. s \in Sockets /\ s.endPoint /\ s.state \notin Handshake
  BY DEF Sane, Core, Quiet, Fresh
<1>2. q \in Sockets
  BY <1>1 DEF Sockets, RetxEvents
<1>3. Cleared(s, q) /\ q.endPoint
  BY <1>1, <1>2 DEF Cleared, Same, Sockets
<1> HIDE DEF q
<1>4. Sane(q) /\ Fresh(q) /\ Core(q) /\ q.state \notin Handshake
  BY <1>1, <1>3, ClearedFacts DEF Sane, Cleared
<1>5. /\ q \in Sockets /\ q.head \in Nat /\ q.size \in Nat /\ q.highTx \in Nat
      /\ q.highTx <= End(q) /\ q.dataRetrCount \in 0..DataRetries
      /\ DataRetries \in Nat
  BY <1>4, Bounds, CoreTypes DEF Core
<1>6. Kept(q, t)
  <2>1. CASE q.state \in {"CLOSED", "TIME_WAIT"} \/
             (q.size = 0 /\ q.state \notin {"FIN_WAIT_1", "CLOSING"})
    <3>1. t = q
      BY <2>1 DEF AfterReTxTimeout
    <3>2. Timed(q)
      BY <1>4, <1>5, <2>1 DEF Timed, Sane, End
    <3>3. q.highTx <= q.highTx
      BY <1>5
    <3> HIDE DEF t
    <3> QED
      BY <1>4, <3>1, <3>2, <3>3 DEF Kept
  <2>2. CASE q.size = 0 /\ q.state \in {"FIN_WAIT_1", "CLOSING"}
    <3> DEFINE e == SendEmptyPacket(q, "FINACK")
    <3>1. t = e
      BY <2>2 DEF AfterReTxTimeout
    <3>2. /\ Sane(e) /\ Same(q, e) /\ e.state = q.state
          /\ e.retx # "none"
      BY <1>3, <1>4, SendEmptyPacketFacts DEF Flags
    <3> HIDE DEF e
    <3>3. Timed(e) /\ Fresh(e) /\ q.highTx <= q.highTx
      BY <1>4, <1>5, <3>2 DEF Timed, Fresh
    <3> HIDE DEF t
    <3> QED
      BY <1>4, <3>1, <3>2, <3>3 DEF Kept, Same
  <2>3. CASE /\ q.state \notin {"CLOSED", "TIME_WAIT"}
             /\ q.size > 0 /\ q.dataRetrCount = 0
    <3> DEFINE k == Told(q, "error")
               d == DeallocateEndPoint(k)
    <3>1. t = d
      BY <1>5, <2>3 DEF AfterReTxTimeout
    <3>2. "error" \in Ends \cup {"connected", "accepted"} /\ "error" \in Ends
      BY DEF Ends
    <3>3. Core(k) /\ Same(q, k) /\ k.state = q.state /\ Informed(k)
      BY <1>4, <3>2, ToldFacts
    <3> HIDE DEF k
    <3>4. Sane(d) /\ ~d.endPoint /\ Same(k, d) /\ d.state = k.state
      BY <3>3, DeallocateEndPointFacts
    <3> HIDE DEF d
    <3>5. Same(q, d) /\ Fresh(d)
      BY <1>4, <3>3, <3>4 DEF Same, Fresh
    <3>6. Kept(q, d)
      BY <1>4, <3>3, <3>4, <3>5, ClosedIsKept
    <3> HIDE DEF t
    <3> QED
      BY <3>1, <3>6
  <2>4. CASE /\ q.state \notin {"CLOSED", "TIME_WAIT"}
             /\ q.size > 0 /\ q.dataRetrCount # 0
    <3> DEFINE n == q.dataRetrCount - 1
               c == [q EXCEPT !.dataRetrCount = n]
               h == q.head
               u == [SendDataPacket(c, h) EXCEPT !.nextTx = h + 1]
    <3>1. t = u
      BY <1>5, <2>4 DEF AfterReTxTimeout
    <3>2. n \in 0..DataRetries
      BY <1>5, <2>4
    <3> HIDE DEF n
    <3>3. c \in Sockets
      BY <1>5, <3>2 DEF Sockets
    <3>4. Cleared(q, c) /\ c.endPoint = q.endPoint /\ c.size = q.size
      BY <1>5, <3>3 DEF Cleared, Same, Sockets
    <3> HIDE DEF c
    <3>5. Sane(c) /\ c.endPoint /\ c.head = h
      BY <1>3, <1>4, <3>4, ClearedFacts DEF Cleared, Same
    <3>6. h \in Nat /\ h < End(c)
      BY <1>5, <2>4, <3>4, <3>5 DEF End
    <3> HIDE DEF h
    <3>7. Sane(u) /\ Timed(u) /\ Sent(c, u)
      BY <3>5, <3>6, SendStepFacts
    <3> HIDE DEF u
    <3>8. Kept(c, u)
      BY <1>4, <3>4, <3>7, SentIsKept DEF Cleared
    <3>9. Kept(q, u)
      BY <3>4, <3>8, KeptThrough
    <3> HIDE DEF t
    <3> QED
      BY <3>1, <3>9
  <2> QED
    BY <1>5, <2>1, <2>2, <2>3, <2>4
<1>7. Kept(s, t)
  <2> HIDE DEF t
  <2> QED
    BY <1>3, <1>6, KeptThrough
<1> QED
  BY <1>7 DEF q

LEMMA DelAckTimeoutFacts ==
  ASSUME NEW s, Sane(s), Timed(s), Fresh(s), s.delAck
  PROVE  Kept(s, SendEmptyPacket([s EXCEPT !.delAck = FALSE], "ACK"))
<1> DEFINE no == FALSE
           q == [s EXCEPT !.delAck = no]
           t == SendEmptyPacket(q, "ACK")
<1>1. s \in Sockets /\ s.state \notin Handshake /\ no \in BOOLEAN /\ ~no
  BY DEF Sane, Core, Fresh
<1> HIDE DEF no
<1>2. q \in Sockets
  BY <1>1 DEF Sockets
<1>3. Cleared(s, q) /\ q.retx = s.retx
  BY <1>1, <1>2 DEF Cleared, Same, Sockets
<1> HIDE DEF q
<1>4. Sane(q) /\ Timed(q) /\ Core(q) /\ q.state \notin Handshake
  BY <1>1, <1>3, ClearedFacts DEF Sane, Cleared
<1>5. Sane(t) /\ Timed(t) /\ Same(q, t) /\ t.state = q.state
  BY <1>4, SendEmptyPacketFacts DEF Flags
<1> HIDE DEF t
<1>6. t.highTx = q.highTx /\ q.highTx <= q.highTx /\ Fresh(t)
  BY <1>4, <1>5, CoreTypes DEF Same, Fresh
<1>7. Kept(q, t)
  BY <1>4, <1>5, <1>6 DEF Kept, Same
<1>8. Kept(s, t)
  BY <1>3, <1>7, KeptThrough
<1> QED
  BY <1>8 DEF t, q, no

LEMMA LastAckTimeoutFacts ==
  ASSUME NEW s, Sane(s), Timed(s), Fresh(s), s.lastAck
  PROVE  Kept(s, AfterLastAckTimeout([s EXCEPT !.lastAck = FALSE]))
<1> DEFINE no == FALSE
           q == [s EXCEPT !.lastAck = no]
           t == AfterLastAckTimeout(q)
<1>1. s \in Sockets /\ s.endPoint /\ no \in BOOLEAN /\ ~no
  BY DEF Sane, Core, Quiet
<1> HIDE DEF no
<1>2. q \in Sockets
  BY <1>1 DEF Sockets
<1>3. Cleared(s, q) /\ q.retx = s.retx /\ q.endPoint
  BY <1>1, <1>2 DEF Cleared, Same, Sockets
<1> HIDE DEF q
<1>4. /\ Sane(q) /\ Timed(q) /\ Fresh(q) /\ Core(q) /\ q \in Sockets
      /\ q.dataRetrCount \in 0..DataRetries /\ DataRetries \in Nat
      /\ q.highTx <= q.highTx
  BY <1>3, Bounds, CoreTypes, ClearedFacts DEF Sane
<1>5. Kept(q, t)
  <2>1. CASE q.state # "LAST_ACK"
    <3>1. t = q
      BY <2>1 DEF AfterLastAckTimeout
    <3> HIDE DEF t
    <3> QED
      BY <1>4, <3>1 DEF Kept
  <2>2. CASE q.state = "LAST_ACK" /\ q.dataRetrCount = 0
    <3> DEFINE k == Told(q, "error")
               d == DeallocateEndPoint(k)
    <3>1. t = d
      BY <2>2 DEF AfterLastAckTimeout
    <3>2. "error" \in Ends \cup {"connected", "accepted"} /\ "error" \in Ends
      BY DEF Ends
    <3>3. Core(k) /\ Same(q, k) /\ k.state = q.state /\ Informed(k)
      BY <1>4, <3>2, ToldFacts
    <3> HIDE DEF k
    <3>4. Sane(d) /\ ~d.endPoint /\ Same(k, d) /\ d.state = k.state
      BY <3>3, DeallocateEndPointFacts
    <3> HIDE DEF d
    <3>5. Same(q, d) /\ Fresh(d) /\ d.state \notin Handshake
      BY <2>2, <3>3, <3>4 DEF Same, Fresh, Handshake
    <3>6. Kept(q, d)
      BY <1>4, <3>4, <3>5, ClosedIsKept
    <3> HIDE DEF t
    <3> QED
      BY <3>1, <3>6
  <2>3. CASE q.state = "LAST_ACK" /\ q.dataRetrCount # 0
    <3> DEFINE n == q.dataRetrCount - 1
               c == [q EXCEPT !.dataRetrCount = n]
               e == SendEmptyPacket(c, "FINACK")
               yes == TRUE
               u == [e EXCEPT !.lastAck = yes]
    <3>1. t = u
      BY <2>3 DEF AfterLastAckTimeout
    <3>2. n \in 0..DataRetries /\ yes \in BOOLEAN
      BY <1>4, <2>3
    <3> HIDE DEF n, yes
    <3>3. c \in Sockets
      BY <1>4, <3>2 DEF Sockets
    <3>4. Cleared(q, c) /\ c.endPoint = q.endPoint /\ c.retx = q.retx
      BY <1>4, <3>3 DEF Cleared, Same, Sockets
    <3> HIDE DEF c
    <3>5. Sane(c) /\ Timed(c) /\ c.state = "LAST_ACK" /\ c.endPoint /\ Core(c)
      BY <1>3, <1>4, <2>3, <3>4, ClearedFacts DEF Cleared, Sane
    <3>6. /\ Sane(e) /\ Timed(e) /\ Same(c, e) /\ e.state = "LAST_ACK"
          /\ e.endPoint
      BY <3>5, SendEmptyPacketFacts DEF Flags
    <3> HIDE DEF e
    <3>7. e \in Sockets
      BY <3>6 DEF Sane, Core
    <3>8. u \in Sockets
      BY <3>2, <3>7 DEF Sockets
    <3>9. /\ Same(e, u) /\ u.state = e.state /\ u.endPoint = e.endPoint
          /\ u.told = e.told /\ u.out = e.out /\ u.retx = e.retx
          /\ u.closeNotified = e.closeNotified
      BY <3>7, <3>8 DEF Same, Sockets
    <3> HIDE DEF u
    <3>10. u.endPoint /\ u.state # "CLOSED" /\ u.state \notin Handshake
      BY <3>6, <3>9 DEF Handshake
    <3>11. Sane(u) /\ Timed(u) /\ Fresh(u)
      BY <3>6, <3>8, <3>9, <3>10 DEF Sane, Core, Same, End, Timed, Fresh
    <3>12. c.highTx = u.highTx /\ c.highTx <= c.highTx
      BY <3>5, <3>6, <3>9, CoreTypes DEF Same
    <3>13. Kept(c, u)
      BY <3>6, <3>9, <3>10, <3>11, <3>12 DEF Kept, Same
    <3>14. Kept(q, u)
      BY <3>4, <3>13, KeptThrough
    <3> HIDE DEF t
    <3> QED
      BY <3>1, <3>14
  <2> QED
    BY <2>1, <2>2, <2>3
<1>6. Kept(s, t)
  <2> HIDE DEF t
  <2> QED
    BY <1>3, <1>5, KeptThrough
<1> QED
  BY <1>6 DEF q, no

LEMMA TimeWaitExpiresFacts ==
  ASSUME NEW s, Sane(s), s.timeWait
  PROVE  Kept(s, CloseAndNotify([s EXCEPT !.timeWait = FALSE]))
<1> DEFINE no == FALSE
           q == [s EXCEPT !.timeWait = no]
           t == CloseAndNotify(q)
<1>1. s \in Sockets /\ no \in BOOLEAN /\ ~no
  BY DEF Sane, Core
<1> HIDE DEF no
<1>2. q \in Sockets
  BY <1>1 DEF Sockets
<1>3. Cleared(s, q)
  BY <1>1, <1>2 DEF Cleared, Same, Sockets
<1> HIDE DEF q
<1>4. Core(q)
  BY <1>3, ClearedFacts DEF Sane
<1>5. Sane(t) /\ ~t.endPoint /\ Same(q, t) /\ t.state = "CLOSED"
  BY <1>4, CloseAndNotifyFacts
<1> HIDE DEF t
<1>6. Fresh(t) /\ t.state \notin Handshake
  BY <1>5 DEF Fresh, Handshake
<1>7. Kept(q, t)
  BY <1>4, <1>5, <1>6, ClosedIsKept
<1>8. Kept(s, t)
  BY <1>3, <1>7, KeptThrough
<1> QED
  BY <1>8 DEF t, q, no

\* A call of Connect.
LEMMA ConnectFacts ==
  LET t == DoConnect([Closed EXCEPT !.endPoint = TRUE, !.synCount = SynRetries,
                                    !.dataRetrCount = DataRetries])
  IN Sane(t) /\ Timed(t) /\ Fresh(t) /\ t.head = 0 /\ t.nextRx = 0
<1> DEFINE yes == TRUE
           c == [Closed EXCEPT !.endPoint = yes, !.synCount = SynRetries,
                               !.dataRetrCount = DataRetries]
           r == Retry(c)
           e == Emit(r, "SYN", c.nextTx, 0)
           d == e.delAck /\ "SYN" \in {"SYN", "RST"}
           u == [e EXCEPT !.delAck = d, !.retx = "SYN"]
           t == [u EXCEPT !.state = "SYN_SENT"]
<1>1. /\ SynRetries \in 0..SynRetries /\ DataRetries \in 0..DataRetries
      /\ SynRetries - 1 \in 0..SynRetries /\ SynRetries # 0
  BY Bounds
<1>2. yes \in BOOLEAN /\ yes
  OBVIOUS
<1> HIDE DEF yes
<1>3. /\ c \in Sockets /\ c.state = "CLOSED" /\ c.endPoint
      /\ c.connected = FALSE /\ c.nextTx = 0 /\ c.highTx = 0 /\ c.head = 0
      /\ c.size = 0 /\ c.nextRx = 0 /\ c.stored = {} /\ c.fin = 0
      /\ c.closeNotified = FALSE /\ c.synCount = SynRetries
      /\ c.retx = "none" /\ c.delAck = FALSE /\ c.pending = FALSE
      /\ c.out = {}
  <2>1. c \in Sockets
    BY <1>1, <1>2 DEF Closed, Sockets, States, RetxEvents
  <2> QED
    BY <1>2, <2>1 DEF Closed
<1> HIDE DEF c
<1>4. /\ r \in Sockets /\ Same(c, r) /\ r.state = c.state
      /\ r.endPoint = c.endPoint /\ r.retx = c.retx
      /\ r.closeNotified = c.closeNotified
      /\ r.delAck = c.delAck /\ r.pending = c.pending /\ r.out = c.out
  BY <1>1, <1>3 DEF Retry, Sockets, Same
<1> HIDE DEF r
<1>5. Core(r)
  <2>1. r.endPoint /\ r.highTx <= End(r) /\ IsFiniteSet(r.stored)
    BY <1>3, <1>4, FS_EmptySet DEF End, Same
  <2> QED
    BY <1>3, <1>4, <2>1 DEF Core
<1>6. /\ Core(e) /\ Same(r, e) /\ e.retx = r.retx
      /\ e.endPoint = r.endPoint /\ e.out = r.out \cup {
           [flags |-> "SYN", seq |-> c.nextTx, ack |-> r.nextRx, len |-> 0]}
      /\ e.pending = r.pending /\ e.delAck = r.delAck
      /\ e.closeNotified = r.closeNotified
  <2>1. /\ Core(e) /\ Same(r, e) /\ e.retx = r.retx
        /\ e.endPoint = r.endPoint
    BY <1>3, <1>5, EmitFacts DEF Flags
  <2>2. r \in Sockets
    BY <1>4
  <2> QED
    BY <2>1, <2>2 DEF Emit, Sockets
<1>7. DoConnect(c) = t
  BY <1>1, <1>3 DEF DoConnect, SendEmptyPacket, r
<1>8. \A x \in e.out : x.flags \notin Acking
  BY <1>3, <1>4, <1>6 DEF Acking
<1> HIDE DEF e
<1>9. d \in BOOLEAN /\ t \in Sockets
  <2>1. d \in BOOLEAN /\ e \in Sockets
    BY <1>6 DEF Core
  <2> HIDE DEF d
  <2>2. u \in Sockets
    BY <2>1 DEF Sockets, RetxEvents
  <2> HIDE DEF u
  <2> QED
    BY <2>1, <2>2 DEF Sockets, States
<1>10. ~d
  BY <1>3, <1>4, <1>6
<1> HIDE DEF d
<1>11. /\ t.state = "SYN_SENT" /\ t.retx = "SYN" /\ t.delAck = d
       /\ Same(e, t) /\ t.endPoint = e.endPoint /\ t.out = e.out
       /\ t.pending = e.pending /\ t.closeNotified = e.closeNotified
  BY <1>6, <1>9 DEF Core, Sockets, Same
<1> HIDE DEF t
<1>12. /\ t.connected = FALSE /\ t.nextTx = 0 /\ t.highTx = 0 /\ t.head = 0
       /\ t.size = 0 /\ t.nextRx = 0 /\ t.stored = {} /\ t.fin = 0
       /\ t.closeNotified = FALSE /\ t.pending = FALSE /\ t.endPoint
  BY <1>3, <1>4, <1>6, <1>11 DEF Same
<1>13. t.highTx <= End(t) /\ IsFiniteSet(t.stored)
  BY <1>12, FS_EmptySet DEF End
<1>14. Sane(t) /\ Timed(t) /\ Fresh(t)
  BY <1>8, <1>9, <1>10, <1>11, <1>12, <1>13 DEF Sane, Core, Timed, Fresh
<1> QED
  BY <1>7, <1>12, <1>14 DEF c, yes

\* The socket that a listener forks.
LEMMA CompleteForkFacts ==
  ASSUME NEW m, m.seq \in Nat
  PROVE  LET t == CompleteFork(m)
         IN Sane(t) /\ Timed(t) /\ Fresh(t) /\ t.head = 0
<1> DEFINE yes == TRUE
           n == m.seq + 1
           c == [Closed EXCEPT !.state = "SYN_RCVD", !.endPoint = yes,
                               !.synCount = SynRetries,
                               !.dataRetrCount = DataRetries, !.nextRx = n]
           t == SendEmptyPacket(c, "SYNACK")
<1>1. SynRetries \in 0..SynRetries /\ DataRetries \in 0..DataRetries
  BY Bounds
<1>2. yes \in BOOLEAN /\ yes /\ n \in Nat /\ n >= 1
  OBVIOUS
<1>3. CompleteFork(m) = t
  BY DEF CompleteFork
<1> HIDE DEF yes, n
<1>4. /\ c \in Sockets /\ c.state = "SYN_RCVD" /\ c.endPoint
      /\ c.connected = FALSE /\ c.nextTx = 0 /\ c.highTx = 0 /\ c.head = 0
      /\ c.size = 0 /\ c.nextRx = n /\ c.stored = {} /\ c.fin = 0
      /\ c.closeNotified = FALSE /\ c.retx = "none"
      /\ c.delAck = FALSE /\ c.pending = FALSE /\ c.out = {}
  <2>1. c \in Sockets
    BY <1>1, <1>2 DEF Closed, Sockets, States, RetxEvents
  <2> QED
    BY <1>2, <2>1 DEF Closed
<1> HIDE DEF c
<1>5. c.highTx <= End(c) /\ IsFiniteSet(c.stored)
  BY <1>4, FS_EmptySet DEF End
<1>6. Sane(c) /\ Timed(c) /\ Fresh(c)
  BY <1>2, <1>4, <1>5 DEF Sane, Core, Timed, Fresh
<1>7. Sane(t) /\ Timed(t) /\ Fresh(t) /\ Same(c, t)
  BY <1>6, SendEmptyPacketFacts DEF Flags, Acking
<1> HIDE DEF t
<1>8. t.head = 0
  BY <1>4, <1>7 DEF Same
<1> QED
  BY <1>3, <1>7, <1>8 DEF c, n, yes

-----------------------------------------------------------------------------
(* The network and the two ends.                                           *)

LEMMA Peers ==
  ASSUME NEW h \in Hosts
  PROVE  /\ Peer(h) \in Hosts /\ Peer(h) # h /\ Peer(Peer(h)) = h
         /\ Hosts = {h, Peer(h)}
<1>1. IsFiniteSet(Hosts \ {h}) /\ Cardinality(Hosts \ {h}) = 1
  BY ConnectionAssumption, FS_RemoveElement
<1>2. PICK p : Hosts \ {h} = {p}
  BY <1>1, FS_Singleton
<1>3. p \in Hosts /\ p # h /\ Hosts = {h, p}
  BY <1>2
<1>4. Peer(h) = p
  BY <1>3 DEF Peer
<1>5. Peer(p) = h
  BY <1>3 DEF Peer
<1> QED
  BY <1>3, <1>4, <1>5

\* Taking from a bag and adding a set to one: a bag again, of no other
\* elements.
LEMMA BagMinusFacts ==
  ASSUME NEW B, IsABag(B), NEW C, IsABag(C)
  PROVE  IsABag(B (-) C) /\ BagToSet(B (-) C) \subseteq BagToSet(B)
BY DEF IsABag, BagToSet, (-)

LEMMA BagPlusFacts ==
  ASSUME NEW B, IsABag(B), NEW C, IsABag(C)
  PROVE  /\ IsABag(B (+) C)
         /\ BagToSet(B (+) C) \subseteq BagToSet(B) \cup BagToSet(C)
BY DEF IsABag, BagToSet, (+)

LEMMA SetToBagFacts ==
  ASSUME NEW S
  PROVE  IsABag(SetToBag(S)) /\ BagToSet(SetToBag(S)) = S
BY DEF IsABag, BagToSet, SetToBag

\* m was in flight before, or is one of those in out, on the way to p.
Carried(m, msgs, out, p) ==
  \/ m \in msgs
  \/ m.to = p /\ \E x \in out : /\ m.flags = x.flags /\ m.seq = x.seq
                                /\ m.ack = x.ack /\ m.len = x.len

\* What is in flight after h has sent out.
LEMMA SendFrom ==
  ASSUME NEW h \in Hosts, IsABag(net), BagToSet(net) \subseteq Segments,
         NEW out \in SUBSET Sendings, NEW rest, IsABag(rest),
         BagToSet(rest) \subseteq BagToSet(net), Send(h, out, rest)
  PROVE  /\ IsABag(net') /\ BagToSet(net') \subseteq Segments
         /\ \A m \in BagToSet(net') : Carried(m, BagToSet(net), out, Peer(h))
<1> DEFINE sent(kept) == {[to |-> Peer(h), flags |-> m.flags, seq |-> m.seq,
                           ack |-> m.ack, len |-> m.len] : m \in kept}
<1>1. PICK kept \in SUBSET out : net' = rest (+) SetToBag(sent(kept))
  BY DEF Send
<1>2. \A m \in sent(kept) :
        m \in Segments /\ Carried(m, BagToSet(net), out, Peer(h))
  <2>1. TAKE m \in sent(kept)
  <2>2. PICK x \in kept : m = [to |-> Peer(h), flags |-> x.flags,
                               seq |-> x.seq, ack |-> x.ack, len |-> x.len]
    BY <2>1
  <2>3. x \in out /\ x \in Sendings /\ Peer(h) \in Hosts
    BY <1>1, Peers
  <2> QED
    BY <2>2, <2>3 DEF Segments, Sendings, Carried
<1> HIDE DEF sent
<1>3. IsABag(SetToBag(sent(kept))) /\ BagToSet(SetToBag(sent(kept))) = sent(kept)
  BY SetToBagFacts
<1>4. /\ IsABag(rest (+) SetToBag(sent(kept)))
      /\ BagToSet(rest (+) SetToBag(sent(kept)))
           \subseteq BagToSet(rest) \cup BagToSet(SetToBag(sent(kept)))
  BY <1>3, BagPlusFacts
<1>5. IsABag(net') /\ BagToSet(net') \subseteq BagToSet(net) \cup sent(kept)
  BY <1>1, <1>3, <1>4
<1> QED
  BY <1>2, <1>5 DEF Carried

\* A socket whose handler has ended.
LEMMA EmptiedFacts ==
  ASSUME NEW s, Sane(s)
  PROVE  LET t == [s EXCEPT !.out = {}]
         IN /\ Sane(t) /\ (Timed(s) => Timed(t)) /\ (Fresh(s) => Fresh(t))
            /\ t.out = {} /\ Same(s, t) /\ t.state = s.state
            /\ t.retx = s.retx
<1> DEFINE t == [s EXCEPT !.out = {}]
<1>1. s \in Sockets
  BY DEF Sane, Core
<1>2. t \in Sockets
  BY <1>1 DEF Sockets
<1>3. /\ Same(s, t) /\ t.state = s.state /\ t.endPoint = s.endPoint
      /\ t.retx = s.retx /\ t.delAck = s.delAck /\ t.lastAck = s.lastAck
      /\ t.timeWait = s.timeWait /\ t.pending = s.pending
      /\ t.told = s.told /\ t.closeNotified = s.closeNotified /\ t.out = {}
  BY <1>1, <1>2 DEF Same, Sockets
<1> HIDE DEF t
<1>4. Sane(t)
  BY <1>2, <1>3 DEF Sane, Core, Same, End, Quiet, Informed
<1> QED
  BY <1>3, <1>4 DEF Timed, Fresh, Same, t

\* t is what the socket s of h becomes when msgs are in flight: its head is
\* where it was, past its SYN, or where an acknowledgement in flight puts it;
\* and unless it starts or is in the handshake no mark goes back.
Progress(h, s, t, msgs) ==
  /\ \/ t.head \in {s.head, 0, 1}
     \/ \E m \in msgs : m.to = h /\ m.flags \in Acking /\ t.head = m.ack
  /\ \/ s = Closed
     \/ s.state \in Handshake
     \/ /\ t.state \notin Handshake /\ s.nextRx <= t.nextRx
        /\ s.head <= t.head /\ s.highTx <= t.highTx

LEMMA KeptProgress ==
  ASSUME NEW h, NEW s, Core(s), NEW t, Kept(s, t), NEW msgs
  PROVE  Progress(h, s, t, msgs)
<1>1. s.nextRx <= s.nextRx /\ s.head <= s.head
  BY CoreTypes
<1> QED
  BY <1>1 DEF Kept, Progress

LEMMA OutcomeProgress ==
  ASSUME NEW h, NEW s, NEW t, NEW m, NEW msgs, m \in msgs, m.to = h,
         Outcome(s, t, m)
  PROVE  Progress(h, s, t, msgs)
BY DEF Outcome, Progress

\* Both ends stay consistent with what is in flight when h makes progress.
LEMMA HeardStays ==
  ASSUME NEW h \in Hosts, NEW s, NEW q, NEW msgs, NEW t, NEW after,
         Heard(h, s, q, msgs), Heard(Peer(h), q, s, msgs),
         s.nextRx \in Nat, q.nextRx \in Nat, q.head \in Nat,
         \A m \in msgs \cup after : m.ack \in Nat,
         Sane(t), Fresh(t), Progress(h, s, t, msgs),
         \A m \in after : Carried(m, msgs, t.out, Peer(h))
  PROVE  /\ Heard(h, t, q, after)
         /\ \A u : (/\ u # Closed /\ u.state = t.state /\ u.nextRx = t.nextRx)
                     => Heard(Peer(h), q, u, after)
<1> DEFINE p == Peer(h)
<1>1. p # h /\ t.nextRx \in Nat /\ t.head \in Nat
  BY Peers, CoreTypes DEF Sane
<1>2. Heard(h, t, q, after)
  <2>1. \A m \in after : m.to = h => m \in msgs
    BY <1>1 DEF Carried
  <2>2. t.head <= Larger(q.nextRx, 1)
    BY <1>1 DEF Heard, Progress, Larger
  <2>3. (q = Closed \/ q.state \in Handshake) => t.head <= 1
    BY <1>1 DEF Heard, Progress
  <2> QED
    BY <2>1, <2>2, <2>3 DEF Heard
<1>3. ASSUME NEW u, u # Closed, u.state = t.state, u.nextRx = t.nextRx
      PROVE  Heard(p, q, u, after)
  <2>1. CASE s = Closed \/ s.state \in Handshake
    <3>1. q.head <= 1 /\ \A m \in msgs : m.to = p => m.flags \notin Acking
      BY <2>1 DEF Heard
    <3>2. q.head <= Larger(u.nextRx, 1)
      BY <1>1, <1>3, <3>1 DEF Larger
    <3>3. ASSUME NEW m \in after, m.to = p, m.flags \in Acking
          PROVE  m.ack <= u.nextRx
      BY <1>3, <3>1, <3>3 DEF Carried, Sane, Core
    <3>4. ASSUME u.state \in Handshake, NEW m \in after, m.to = p
          PROVE  m.flags \notin Acking
      BY <1>3, <3>1, <3>4 DEF Carried, Fresh
    <3> QED
      BY <1>3, <3>1, <3>2, <3>3, <3>4 DEF Heard
  <2>2. CASE ~(s = Closed \/ s.state \in Handshake)
    <3>1. u.state \notin Handshake /\ s.nextRx <= u.nextRx
      BY <1>3, <2>2 DEF Progress
    <3>2. q.head <= Larger(u.nextRx, 1)
      BY <1>1, <1>3, <3>1 DEF Larger, Heard
    <3>3. ASSUME NEW m \in after, m.to = p, m.flags \in Acking
          PROVE  m.ack <= u.nextRx
      <4>1. CASE m \in msgs
        <5>1. m.ack <= s.nextRx /\ m.ack \in Nat
          BY <3>3, <4>1 DEF Heard
        <5> QED
          BY <1>1, <1>3, <3>1, <5>1
      <4>2. CASE \E x \in t.out : m.flags = x.flags /\ m.ack = x.ack
        BY <1>3, <3>3, <4>2 DEF Sane, Core
      <4> QED
        BY <3>3, <4>1, <4>2 DEF Carried
    <3> QED
      BY <1>3, <3>1, <3>2, <3>3 DEF Heard
  <2> QED
    BY <2>1, <2>2
<1> QED
  BY <1>2, <1>3

\* The marks of g do not go back within a connection.
Forth(g) ==
  (sock[g].connected /\ sock'[g].connected /\ forks'[g] = forks[g]) =>
    /\ sock'[g].nextRx >= sock[g].nextRx
    /\ sock'[g].head >= sock[g].head
    /\ sock'[g].highTx >= sock[g].highTx

\* The types of the marks.
LEMMA Marks ==
  ASSUME IInv, NEW g \in Hosts
  PROVE  sock[g].nextRx \in Nat /\ sock[g].head \in Nat /\ sock[g].highTx \in Nat
<1>1. CASE sock[g] = Closed
  BY <1>1 DEF Closed
<1>2. CASE Sane(sock[g])
  BY <1>2, CoreTypes DEF Sane
<1> QED
  BY <1>1, <1>2 DEF IInv

\* The invariant after h has become t, whatever its handler was.
LEMMA BecomeFacts ==
  ASSUME IInv, NEW h \in Hosts, NEW t, Sane(t), Timed(t), Fresh(t),
         NEW rest, IsABag(rest), BagToSet(rest) \subseteq BagToSet(net),
         Become(h, t, rest), forks' \in [Hosts -> Nat],
         \A g \in Hosts : forks[g] <= forks'[g],
         h \in Active \/ forks'[h] > 0 \/ sock[h] # Closed,
         (OneConnection' \/ forks'[h] = forks[h]) =>
           Progress(h, sock[h], t, BagToSet(net))
  PROVE  IInv' /\ \A g \in Hosts : Forth(g)
<1> DEFINE p == Peer(h)
           u == [t EXCEPT !.out = {}]
<1>1. p \in Hosts /\ p # h /\ Peer(p) = h /\ Hosts = {h, p}
  BY Peers
<1>2. /\ sock' = [sock EXCEPT ![h] = u] /\ Send(h, t.out, rest)
      /\ t.out \in SUBSET Sendings
  BY CoreTypes DEF Become, Sane
<1>3. /\ Sane(u) /\ Timed(u) /\ Fresh(u) /\ u.out = {} /\ Same(t, u)
      /\ u.state = t.state
  BY EmptiedFacts
<1> HIDE DEF u
<1>4. /\ sock' = [g \in Hosts |-> sock'[g]]
      /\ sock'[h] = u /\ sock'[p] = sock[p]
  BY <1>1, <1>2 DEF IInv
<1>5. IsABag(net) /\ BagToSet(net) \subseteq Segments
  BY DEF IInv
<1>6. /\ IsABag(net') /\ BagToSet(net') \subseteq Segments
      /\ \A m \in BagToSet(net') : Carried(m, BagToSet(net), t.out, p)
  BY <1>2, <1>5, SendFrom
<1>7. \A g \in Hosts :
        \/ sock'[g] = Closed
        \/ Sane(sock'[g]) /\ Timed(sock'[g]) /\ Fresh(sock'[g])
             /\ sock'[g].out = {}
  BY <1>1, <1>3, <1>4 DEF IInv
<1>8. \A g \in Hosts : (g \notin Active /\ forks'[g] = 0) => sock'[g] = Closed
  <2>1. ASSUME NEW g \in Hosts, g \notin Active, forks'[g] = 0
        PROVE  sock'[g] = Closed
    <3>1. forks[g] = 0
      BY <2>1 DEF IInv
    <3>2. sock[g] = Closed
      BY <2>1, <3>1 DEF IInv
    <3>3. g # h
      BY <2>1, <3>2
    <3> QED
      BY <1>1, <1>4, <3>2, <3>3
  <2> QED
    BY <2>1
<1>9. ASSUME OneConnection'
      PROVE  \A g \in Hosts :
               Heard(g, sock'[g], sock'[Peer(g)], BagToSet(net'))
  <2>1. OneConnection
    <3>1. ASSUME NEW g \in Hosts
          PROVE  forks[g] <= 1
      BY <1>9 DEF OneConnection, IInv
    <3> QED
      BY <3>1 DEF OneConnection
  <2>2. /\ Heard(h, sock[h], sock[p], BagToSet(net))
        /\ Heard(p, sock[p], sock[h], BagToSet(net))
    BY <1>1, <2>1 DEF IInv
  <2>3. sock[h].nextRx \in Nat /\ sock[p].nextRx \in Nat /\ sock[p].head \in Nat
    BY <1>1, Marks
  <2>4. \A m \in BagToSet(net) \cup BagToSet(net') : m.ack \in Nat
    BY <1>5, <1>6 DEF Segments
  <2>5. Progress(h, sock[h], t, BagToSet(net))
    BY <1>9
  <2>6. /\ Heard(h, t, sock[p], BagToSet(net'))
        /\ \A x : (/\ x # Closed /\ x.state = t.state /\ x.nextRx = t.nextRx)
                    => Heard(p, sock[p], x, BagToSet(net'))
    BY <1>1, <1>6, <2>2, <2>3, <2>4, <2>5, HeardStays
  <2>7. u # Closed
    BY <1>3 DEF Sane, Informed, Closed
  <2>8. Heard(h, u, sock[p], BagToSet(net'))
    BY <1>3, <2>6 DEF Heard, Same
  <2>9. Heard(p, sock[p], u, BagToSet(net'))
    BY <1>3, <2>6, <2>7 DEF Same
  <2> QED
    BY <1>1, <1>4, <2>8, <2>9
<1>10. IInv'
  BY <1>4, <1>6, <1>7, <1>8, <1>9 DEF IInv
<1>11. Forth(p)
  BY <1>1, <1>4, Marks DEF Forth
<1>12. Forth(h)
  <2>1. SUFFICES ASSUME sock[h].connected, forks'[h] = forks[h]
                 PROVE  /\ u.nextRx >= sock[h].nextRx
                        /\ u.head >= sock[h].head
                        /\ u.highTx >= sock[h].highTx
    BY <1>4 DEF Forth
  <2>2. sock[h] # Closed
    BY <2>1 DEF Closed
  <2>3. sock[h].state \notin Handshake
    BY <2>1, <2>2 DEF IInv, Fresh
  <2>4. Progress(h, sock[h], t, BagToSet(net))
    BY <2>1
  <2> QED
    BY <1>3, <2>2, <2>3, <2>4 DEF Progress, Same
<1> QED
  BY <1>1, <1>10, <1>11, <1>12

\* What a socket that has been used satisfies.
LEMMA UsedFacts ==
  ASSUME IInv, NEW h \in Hosts, sock[h] # Closed
  PROVE  /\ Sane(sock[h]) /\ Timed(sock[h]) /\ Fresh(sock[h])
         /\ Core(sock[h])
BY DEF IInv, Sane

\* What a handler that no segment started leaves behind.
LEMMA KeptStep ==
  ASSUME IInv, NEW h \in Hosts, sock[h] # Closed, NEW t, Kept(sock[h], t),
         Become(h, t, net), UNCHANGED forks
  PROVE  IInv' /\ \A g \in Hosts : Forth(g)
<1>1. IsABag(net) /\ BagToSet(net) \subseteq BagToSet(net)
  BY DEF IInv
<1>2. Progress(h, sock[h], t, BagToSet(net))
  BY UsedFacts, KeptProgress
<1>3. forks' \in [Hosts -> Nat] /\ \A g \in Hosts : forks[g] <= forks'[g]
  BY DEF IInv
<1>4. Sane(t) /\ Timed(t) /\ Fresh(t)
  BY DEF Kept
<1> QED
  BY <1>1, <1>2, <1>3, <1>4, BecomeFacts

\* m leaves the network, where nothing else is disturbed.
LEMMA TakenFrom ==
  ASSUME IInv, NEW m
  PROVE  /\ IsABag(net (-) SetToBag({m}))
         /\ BagToSet(net (-) SetToBag({m})) \subseteq BagToSet(net)
<1>1. IsABag(net)
  BY DEF IInv
<1>2. IsABag(SetToBag({m}))
  BY SetToBagFacts
<1> QED
  BY <1>1, <1>2, BagMinusFacts

-----------------------------------------------------------------------------
(* The steps.                                                              *)

Safe == IInv' /\ \A g \in Hosts : Forth(g)

LEMMA ConnectStep ==
  ASSUME IInv, NEW h \in Hosts, Connect(h)
  PROVE  Safe
<1> DEFINE t == DoConnect([Closed EXCEPT !.endPoint = TRUE,
                                         !.synCount = SynRetries,
                                         !.dataRetrCount = DataRetries])
<1>1. Become(h, t, net) /\ h \in Active /\ sock[h] = Closed /\ UNCHANGED forks
  BY DEF Connect
<1>2. Sane(t) /\ Timed(t) /\ Fresh(t) /\ t.head = 0
  BY ConnectFacts
<1> HIDE DEF t
<1>3. Progress(h, sock[h], t, BagToSet(net))
  BY <1>1, <1>2 DEF Progress
<1>4. forks' \in [Hosts -> Nat] /\ \A g \in Hosts : forks[g] <= forks'[g]
  BY <1>1 DEF IInv
<1>5. IsABag(net) /\ BagToSet(net) \subseteq BagToSet(net)
  BY DEF IInv
<1> QED
  BY <1>1, <1>2, <1>3, <1>4, <1>5, BecomeFacts DEF Safe

LEMMA ForkStep ==
  ASSUME IInv, NEW h \in Hosts, NEW m \in BagToSet(net), Fork(h, m)
  PROVE  Safe
<1> DEFINE t == CompleteFork(m)
           rest == net (-) SetToBag({m})
<1>1. /\ Become(h, t, rest) /\ h \notin Active
      /\ forks' = [forks EXCEPT ![h] = @ + 1]
  BY DEF Fork
<1>2. m.seq \in Nat
  BY DEF IInv, Segments
<1>3. Sane(t) /\ Timed(t) /\ Fresh(t) /\ t.head = 0
  BY <1>2, CompleteForkFacts
<1>4. IsABag(rest) /\ BagToSet(rest) \subseteq BagToSet(net)
  BY TakenFrom
<1> HIDE DEF t, rest
<1>5. /\ forks' \in [Hosts -> Nat] /\ \A g \in Hosts : forks[g] <= forks'[g]
      /\ forks'[h] = forks[h] + 1 /\ forks[h] \in Nat
  BY <1>1 DEF IInv
<1>6. ASSUME OneConnection' \/ forks'[h] = forks[h]
      PROVE  Progress(h, sock[h], t, BagToSet(net))
  <2>1. forks'[h] <= 1
    BY <1>5, <1>6 DEF OneConnection
  <2>2. forks[h] = 0
    BY <1>5, <2>1
  <2>3. sock[h] = Closed
    BY <1>1, <2>2 DEF IInv
  <2> QED
    BY <1>3, <2>3 DEF Progress
<1>7. forks'[h] > 0
  BY <1>5
<1> QED
  BY <1>1, <1>3, <1>4, <1>5, <1>6, <1>7, BecomeFacts DEF Safe

LEMMA ForwardUpStep ==
  ASSUME IInv, NEW h \in Hosts, NEW m \in BagToSet(net), ForwardUp(h, m)
  PROVE  Safe
<1> DEFINE s == sock[h]
           rest == net (-) SetToBag({m})
<1>1. PICK in \in Inputs(s) : Become(h, DoForwardUp(s, m, in), rest)
  BY DEF ForwardUp
<1>2. s.endPoint /\ m.to = h /\ UNCHANGED forks
  BY DEF ForwardUp
<1>3. s # Closed
  BY <1>2 DEF Closed
<1>4. Sane(s) /\ Timed(s) /\ Fresh(s) /\ m \in Segments /\ Core(s)
  BY <1>3, UsedFacts DEF IInv
<1> DEFINE t == DoForwardUp(s, m, in)
<1>5. in.k \in Nat
  <2>1. in.k \in 0 .. SizeFrom(s, s.highTx)
    BY <1>1 DEF Inputs
  <2>2. SizeFrom(s, s.highTx) \in Nat
    BY <1>4, CoreTypes DEF SizeFrom, End
  <2> QED
    BY <2>1, <2>2
<1>6. Outcome(s, t, m)
  BY <1>2, <1>4, <1>5, DoForwardUpFacts
<1>7. IsABag(rest) /\ BagToSet(rest) \subseteq BagToSet(net)
  BY TakenFrom
<1>8. Become(h, t, rest)
  BY <1>1
<1> HIDE DEF t, rest
<1>9. Progress(h, s, t, BagToSet(net)) /\ Sane(t) /\ Timed(t) /\ Fresh(t)
  BY <1>2, <1>6, OutcomeProgress DEF Outcome
<1>10. forks' \in [Hosts -> Nat] /\ \A g \in Hosts : forks[g] <= forks'[g]
  BY <1>2 DEF IInv
<1> QED
  BY <1>3, <1>7, <1>8, <1>9, <1>10, BecomeFacts DEF Safe

\* Resets acknowledge nothing.
LEMMA UnansweredStep ==
  ASSUME IInv, NEW h \in Hosts, NEW m \in BagToSet(net), Unanswered(h, m)
  PROVE  Safe
<1> DEFINE reset == [flags |-> IF m.flags = "SYN" THEN "RSTACK" ELSE "RST",
                     seq |-> IF m.flags = "SYN" THEN 0 ELSE m.ack,
                     ack |-> IF m.flags = "SYN" THEN m.seq + 1 ELSE 0,
                     len |-> 0]
           answer == h \in Active /\ m.flags \notin {"RST", "RSTACK"}
           out == IF answer THEN {reset} ELSE {}
           rest == net (-) SetToBag({m})
<1>1. Send(h, out, rest) /\ UNCHANGED <<sock, forks>>
  BY DEF Unanswered
<1>2. m \in Segments /\ IsABag(net) /\ BagToSet(net) \subseteq Segments
  BY DEF IInv
<1>3. reset \in Sendings /\ reset.flags \notin Acking
  BY <1>2 DEF Segments, Sendings, Flags, Acking
<1> HIDE DEF reset
<1>4. out \in SUBSET Sendings /\ \A x \in out : x.flags \notin Acking
  BY <1>3
<1>5. IsABag(rest) /\ BagToSet(rest) \subseteq BagToSet(net)
  BY TakenFrom
<1> HIDE DEF out, rest
<1>6. /\ IsABag(net') /\ BagToSet(net') \subseteq Segments
      /\ \A x \in BagToSet(net') : Carried(x, BagToSet(net), out, Peer(h))
  BY <1>1, <1>2, <1>4, <1>5, SendFrom
<1>7. \A x \in BagToSet(net') : x.flags \in Acking => x \in BagToSet(net)
  BY <1>4, <1>6 DEF Carried
<1>8. ASSUME OneConnection', NEW g \in Hosts
      PROVE  Heard(g, sock'[g], sock'[Peer(g)], BagToSet(net'))
  <2>1. Heard(g, sock[g], sock[Peer(g)], BagToSet(net))
    BY <1>1, <1>8 DEF IInv, OneConnection
  <2> QED
    BY <1>1, <1>7, <2>1 DEF Heard
<1>9. IInv'
  BY <1>1, <1>6, <1>8 DEF IInv
<1>10. \A g \in Hosts : Forth(g)
  BY <1>1, Marks DEF Forth
<1> QED
  BY <1>9, <1>10 DEF Safe

LEMMA AppSendStep ==
  ASSUME IInv, NEW h \in Hosts, AppSend(h)
  PROVE  Safe
<1> DEFINE s == sock[h]
           t(sends) == IF sends THEN [[s EXCEPT !.size = @ + 1] EXCEPT
                                        !.pending = TRUE]
                       ELSE [s EXCEPT !.size = @ + 1]
<1>1. /\ s.state \in {"ESTABLISHED", "SYN_SENT", "CLOSE_WAIT"}
      /\ Usable(h) /\ UNCHANGED forks
  BY DEF AppSend
<1>2. PICK window \in {TRUE, s.head = s.highTx} :
        Become(h, t(~s.shutdownSend /\ s.state # "SYN_SENT" /\ window), net)
  BY DEF AppSend
<1>3. s # Closed
  BY <1>1 DEF Closed
<1>4. Sane(s) /\ Timed(s) /\ Fresh(s)
  BY <1>3, UsedFacts
<1> DEFINE sends == ~s.shutdownSend /\ s.state # "SYN_SENT" /\ window
<1>5. sends \in BOOLEAN /\ (sends => s.state \notin Handshake)
  BY <1>1 DEF Handshake
<1>6. Become(h, t(sends), net)
  BY <1>2
<1> HIDE DEF sends
<1>7. Kept(s, t(sends))
  BY <1>4, <1>5, SendFacts
<1> HIDE DEF t
<1> QED
  BY <1>1, <1>3, <1>6, <1>7, KeptStep DEF Safe

LEMMA AppCloseStep ==
  ASSUME IInv, NEW h \in Hosts, AppClose(h)
  PROVE  Safe
<1> DEFINE t == Close(sock[h])
<1>1. Become(h, t, net) /\ sock[h].state # "CLOSED" /\ UNCHANGED forks
  BY DEF AppClose
<1>2. sock[h] # Closed
  BY <1>1 DEF Closed
<1>3. Kept(sock[h], t)
  BY <1>2, UsedFacts, CloseFacts, ClosingIsKept
<1> HIDE DEF t
<1> QED
  BY <1>1, <1>2, <1>3, KeptStep DEF Safe

LEMMA AppShutdownStep ==
  ASSUME IInv, NEW h \in Hosts, AppShutdown(h)
  PROVE  Safe
<1> DEFINE t == ShutdownSend(sock[h])
<1>1. Become(h, t, net) /\ sock[h].state # "CLOSED" /\ UNCHANGED forks
  BY DEF AppShutdown
<1>2. sock[h] # Closed
  BY <1>1 DEF Closed
<1>3. Kept(sock[h], t)
  BY <1>2, UsedFacts, ShutdownSendFacts, ClosingIsKept
<1> HIDE DEF t
<1> QED
  BY <1>1, <1>2, <1>3, KeptStep DEF Safe

LEMMA PendingEventStep ==
  ASSUME IInv, NEW h \in Hosts, PendingEvent(h)
  PROVE  Safe
<1> DEFINE s == sock[h]
           t(k) == SendPendingData([s EXCEPT !.pending = FALSE], 0, k)
<1>1. s.pending /\ UNCHANGED forks
  BY DEF PendingEvent
<1>2. PICK k \in 0 .. SizeFrom(s, s.highTx) : Become(h, t(k), net)
  BY DEF PendingEvent
<1>3. s # Closed
  BY <1>1 DEF Closed
<1>4. Sane(s) /\ Timed(s) /\ Fresh(s) /\ Core(s)
  BY <1>3, UsedFacts
<1>5. k \in Nat
  <2>1. SizeFrom(s, s.highTx) \in Nat
    BY <1>4, CoreTypes DEF SizeFrom, End
  <2> QED
    BY <2>1
<1>6. Kept(s, t(k))
  BY <1>1, <1>4, <1>5, PendingFacts
<1> HIDE DEF t
<1> QED
  BY <1>1, <1>2, <1>3, <1>6, KeptStep DEF Safe

LEMMA RetransmitEmptyStep ==
  ASSUME IInv, NEW h \in Hosts, RetransmitEmpty(h)
  PROVE  Safe
<1> DEFINE t == SendEmptyPacket([sock[h] EXCEPT !.retx = "none"], sock[h].retx)
<1>1. /\ Become(h, t, net) /\ UNCHANGED forks
      /\ sock[h].retx \in {"SYN", "SYNACK", "FINACK"}
  BY DEF RetransmitEmpty
<1>2. sock[h] # Closed
  BY <1>1 DEF Closed
<1>3. Kept(sock[h], t)
  BY <1>1, <1>2, UsedFacts, RetransmitEmptyFacts
<1> HIDE DEF t
<1> QED
  BY <1>1, <1>2, <1>3, KeptStep DEF Safe

LEMMA ReTxTimeoutStep ==
  ASSUME IInv, NEW h \in Hosts, ReTxTimeout(h)
  PROVE  Safe
<1> DEFINE t == AfterReTxTimeout([sock[h] EXCEPT !.retx = "none"])
<1>1. Become(h, t, net) /\ sock[h].retx = "data" /\ UNCHANGED forks
  BY DEF ReTxTimeout
<1>2. sock[h] # Closed
  BY <1>1 DEF Closed
<1>3. Kept(sock[h], t)
  BY <1>1, <1>2, UsedFacts, ReTxTimeoutFacts
<1> HIDE DEF t
<1> QED
  BY <1>1, <1>2, <1>3, KeptStep DEF Safe

LEMMA DelAckTimeoutStep ==
  ASSUME IInv, NEW h \in Hosts, DelAckTimeout(h)
  PROVE  Safe
<1> DEFINE t == SendEmptyPacket([sock[h] EXCEPT !.delAck = FALSE], "ACK")
<1>1. Become(h, t, net) /\ sock[h].delAck /\ UNCHANGED forks
  BY DEF DelAckTimeout
<1>2. sock[h] # Closed
  BY <1>1 DEF Closed
<1>3. Kept(sock[h], t)
  BY <1>1, <1>2, UsedFacts, DelAckTimeoutFacts
<1> HIDE DEF t
<1> QED
  BY <1>1, <1>2, <1>3, KeptStep DEF Safe

LEMMA LastAckTimeoutStep ==
  ASSUME IInv, NEW h \in Hosts, LastAckTimeout(h)
  PROVE  Safe
<1> DEFINE t == AfterLastAckTimeout([sock[h] EXCEPT !.lastAck = FALSE])
<1>1. Become(h, t, net) /\ sock[h].lastAck /\ UNCHANGED forks
  BY DEF LastAckTimeout
<1>2. sock[h] # Closed
  BY <1>1 DEF Closed
<1>3. Kept(sock[h], t)
  BY <1>1, <1>2, UsedFacts, LastAckTimeoutFacts
<1> HIDE DEF t
<1> QED
  BY <1>1, <1>2, <1>3, KeptStep DEF Safe

LEMMA TimeWaitExpiresStep ==
  ASSUME IInv, NEW h \in Hosts, TimeWaitExpires(h)
  PROVE  Safe
<1> DEFINE t == CloseAndNotify([sock[h] EXCEPT !.timeWait = FALSE])
<1>1. Become(h, t, net) /\ sock[h].timeWait /\ UNCHANGED forks
  BY DEF TimeWaitExpires
<1>2. sock[h] # Closed
  BY <1>1 DEF Closed
<1>3. Kept(sock[h], t)
  BY <1>1, <1>2, UsedFacts, TimeWaitExpiresFacts
<1> HIDE DEF t
<1> QED
  BY <1>1, <1>2, <1>3, KeptStep DEF Safe

LEMMA EventsStep ==
  ASSUME IInv, NEW h \in Hosts, Events(h)
  PROVE  Safe
BY PendingEventStep, RetransmitEmptyStep, ReTxTimeoutStep, DelAckTimeoutStep,
   LastAckTimeoutStep, TimeWaitExpiresStep DEF Events

LEMMA NextStep ==
  ASSUME IInv, Next
  PROVE  Safe
<1>1. PICK h \in Hosts :
        \/ Connect(h)
        \/ \E m \in BagToSet(net) :
             Fork(h, m) \/ ForwardUp(h, m) \/ Unanswered(h, m)
        \/ AppSend(h) \/ AppClose(h) \/ AppShutdown(h)
        \/ Events(h)
  BY DEF Next
<1>2. CASE Connect(h)
  BY <1>2, ConnectStep
<1>3. CASE \E m \in BagToSet(net) :
             Fork(h, m) \/ ForwardUp(h, m) \/ Unanswered(h, m)
  BY <1>3, ForkStep, ForwardUpStep, UnansweredStep
<1>4. CASE AppSend(h) \/ AppClose(h) \/ AppShutdown(h)
  BY <1>4, AppSendStep, AppCloseStep, AppShutdownStep
<1>5. CASE Events(h)
  BY <1>5, EventsStep
<1> QED
  BY <1>1, <1>2, <1>3, <1>4, <1>5

LEMMA StutterStep ==
  ASSUME IInv, UNCHANGED vars
  PROVE  Safe
<1>1. IInv'
  BY DEF IInv, vars, OneConnection
<1>2. \A g \in Hosts : Forth(g)
  BY Marks DEF Forth, vars
<1> QED
  BY <1>1, <1>2 DEF Safe

LEMMA InitHolds ==
  ASSUME Init
  PROVE  IInv
<1>1. IsABag(net) /\ BagToSet(net) = {}
  BY SetToBagFacts DEF Init, EmptyBag
<1>2. \A h \in Hosts : Peer(h) \in Hosts
  BY Peers
<1>3. \A h \in Hosts : Heard(h, sock[h], sock[Peer(h)], BagToSet(net))
  BY <1>1, <1>2 DEF Init, Heard, Closed, Larger
<1> QED
  BY <1>1, <1>3 DEF Init, IInv

-----------------------------------------------------------------------------
(* The theorems.                                                           *)

\* Of every socket, after every handler, and of both ends with what is in
\* flight: what the properties below follow from.
THEOREM Inductive == Spec => []IInv
<1>1. Init => IInv
  BY InitHolds
<1>2. IInv /\ [Next]_vars => IInv'
  BY NextStep, StutterStep DEF Safe
<1> QED
  BY <1>1, <1>2, PTL DEF Spec

\* Whatever releases the endpoint leaves no event behind that would run on the
\* socket and dereference it.
THEOREM DeadStaysQuiet == Spec => []DeadIsQuiet
<1>1. IInv => DeadIsQuiet
  <2>1. ASSUME IInv, NEW h \in Hosts, ~sock[h].endPoint
        PROVE  Quiet(sock[h])
    BY <2>1 DEF IInv, Sane, Core, Quiet, Closed
  <2> QED
    BY <2>1 DEF DeadIsQuiet, Quiet
<1> QED
  BY <1>1, Inductive, PTL

\* However a connection ends, by a reset, a timeout, spent retries or a close,
\* the application of the socket has been told.
THEOREM NoSilentDeath == Spec => []DeathIsTold
<1>1. IInv => DeathIsTold
  BY DEF IInv, Sane, Informed, Ends, DeathIsTold
<1> QED
  BY <1>1, Inductive, PTL

\* Unacknowledged data always has its retransmission event scheduled, so no
\* handler, in whatever order they run, leaves it to wait for ever.
THEOREM TimerCovers == Spec => []OutstandingIsTimed
<1>1. IInv => OutstandingIsTimed
  <2>1. ASSUME IInv, NEW h \in Hosts, sock[h].endPoint
        PROVE  Timed(sock[h])
    BY <2>1 DEF IInv, Closed
  <2> QED
    BY <2>1 DEF OutstandingIsTimed, Timed
<1> QED
  BY <1>1, Inductive, PTL

\* What a sender discards as acknowledged its peer has received, whatever the
\* network lost, reordered or duplicated: the code trusts m.ack.
THEOREM DiscardedWasReceived == Spec => []AckedWasReceived
<1>1. IInv => AckedWasReceived
  BY DEF IInv, AckedWasReceived, Heard
<1> QED
  BY <1>1, Inductive, PTL

\* Within a connection no handler moves the marks of what was delivered,
\* acknowledged or sent back.
THEOREM MarksOnlyGrow == Spec => NeverBackwards
<1>1. IInv /\ [Next]_vars =>
        [\A h \in Hosts :
           (sock[h].connected /\ sock'[h].connected /\ forks'[h] = forks[h]) =>
             /\ sock'[h].nextRx >= sock[h].nextRx
             /\ sock'[h].head >= sock[h].head
             /\ sock'[h].highTx >= sock[h].highTx]_vars
  BY NextStep DEF Safe, Forth
<1> QED
  BY <1>1, Inductive, PTL DEF Spec, NeverBackwards

-----------------------------------------------------------------------------
(* Types and bounds.                                                       *)

\* What the applications have done, and the bounds of the model.
Counts ==
  /\ app \in [Hosts -> [sends : Nat, closed : BOOLEAN, shut : BOOLEAN]]
  /\ \A h \in Hosts : app[h].sends <= Data[h] /\ forks[h] <= MaxForks
  /\ BagCardinality(net) <= Capacity

LEMMA EmptyBagCardinality == BagCardinality(EmptyBag) = 0
<1> DEFINE F(g) == [S \in SUBSET DOMAIN EmptyBag |->
                      LET elt == CHOOSE e \in S : TRUE
                      IN  IF S = {} THEN 0
                          ELSE EmptyBag[elt] + g[S \ {elt}]]
           sum == CHOOSE g : g = F(g)
<1>1. BagCardinality(EmptyBag) = sum[DOMAIN EmptyBag]
  BY DEF BagCardinality
<1>2. DOMAIN EmptyBag = {}
  BY DEF EmptyBag, SetToBag
<1>3. \A g : F(g) = [S \in {{}} |-> 0]
  BY <1>2
<1> HIDE DEF F
<1>4. sum = [S \in {{}} |-> 0]
  BY <1>3
<1> HIDE DEF sum
<1> QED
  BY <1>1, <1>2, <1>4

LEMMA SendBounded ==
  ASSUME NEW h, NEW out, NEW rest, Send(h, out, rest)
  PROVE  BagCardinality(net') <= Capacity
BY DEF Send

\* A step that leaves the application and its listener alone.
LEMMA CountsKept ==
  ASSUME Counts, NEW h, NEW t, NEW rest, Become(h, t, rest) \/ UNCHANGED net,
         UNCHANGED <<app, forks>>
  PROVE  Counts'
BY SendBounded DEF Counts, Become

\* A call of the application.
LEMMA CountsCalled ==
  ASSUME Counts, NEW h \in Hosts, NEW t, NEW rest, Become(h, t, rest),
         UNCHANGED forks,
         NEW call \in [sends : Nat, closed : BOOLEAN, shut : BOOLEAN],
         call.sends <= Data[h], app' = [app EXCEPT ![h] = call]
  PROVE  Counts'
BY SendBounded DEF Counts, Become

LEMMA CountsStep ==
  ASSUME IInv, Counts, [Next]_vars
  PROVE  Counts'
<1>1. CASE UNCHANGED vars
  BY <1>1, CountsKept DEF vars, Counts
<1>2. ASSUME NEW h \in Hosts, Connect(h)
      PROVE  Counts'
  BY <1>2, CountsKept DEF Connect
<1>3. ASSUME NEW h \in Hosts, NEW m \in BagToSet(net), Fork(h, m)
      PROVE  Counts'
  <2> DEFINE idle == [sends |-> 0, closed |-> FALSE, shut |-> FALSE]
  <2>1. /\ Become(h, CompleteFork(m), net (-) SetToBag({m}))
        /\ forks[h] < MaxForks /\ forks' = [forks EXCEPT ![h] = @ + 1]
        /\ app' = [app EXCEPT ![h] = idle]
    BY <1>3 DEF Fork
  <2>2. forks[h] \in Nat /\ MaxForks \in Nat /\ forks \in [Hosts -> Nat]
    BY ConnectionAssumption DEF IInv
  <2>3. \A g \in Hosts : forks'[g] <= MaxForks
    BY <2>1, <2>2 DEF Counts
  <2>4. idle \in [sends : Nat, closed : BOOLEAN, shut : BOOLEAN]
        /\ idle.sends <= Data[h]
    BY Bounds
  <2> HIDE DEF idle
  <2>5. BagCardinality(net') <= Capacity
    BY <2>1, SendBounded DEF Become
  <2> QED
    BY <2>1, <2>3, <2>4, <2>5 DEF Counts
<1>4. ASSUME NEW h \in Hosts, NEW m \in BagToSet(net), ForwardUp(h, m)
      PROVE  Counts'
  BY <1>4, CountsKept DEF ForwardUp
<1>5. ASSUME NEW h \in Hosts, NEW m \in BagToSet(net), Unanswered(h, m)
      PROVE  Counts'
  <2>1. BagCardinality(net') <= Capacity /\ UNCHANGED <<app, forks>>
    BY <1>5, SendBounded DEF Unanswered
  <2> QED
    BY <2>1 DEF Counts
<1>6. ASSUME NEW h \in Hosts, AppSend(h)
      PROVE  Counts'
  <2> DEFINE call == [app[h] EXCEPT !.sends = @ + 1]
  <2>1. /\ app[h].sends < Data[h] /\ app' = [app EXCEPT ![h] = call]
        /\ UNCHANGED forks
    BY <1>6 DEF AppSend
  <2>2. PICK t : Become(h, t, net)
    BY <1>6 DEF AppSend
  <2>3. app[h] \in [sends : Nat, closed : BOOLEAN, shut : BOOLEAN]
        /\ Data[h] \in Nat
    BY Bounds DEF Counts
  <2>4. call \in [sends : Nat, closed : BOOLEAN, shut : BOOLEAN]
        /\ call.sends <= Data[h]
    BY <2>1, <2>3
  <2> HIDE DEF call
  <2> QED
    BY <2>1, <2>2, <2>4, CountsCalled
<1>7. ASSUME NEW h \in Hosts, AppClose(h)
      PROVE  Counts'
  <2> DEFINE yes == TRUE
             call == [app[h] EXCEPT !.closed = yes]
  <2>1. /\ app' = [app EXCEPT ![h] = call] /\ UNCHANGED forks
        /\ Become(h, Close(sock[h]), net)
    BY <1>7 DEF AppClose
  <2>2. app[h] \in [sends : Nat, closed : BOOLEAN, shut : BOOLEAN]
        /\ app[h].sends <= Data[h] /\ yes \in BOOLEAN
    BY DEF Counts
  <2> HIDE DEF yes
  <2>3. call \in [sends : Nat, closed : BOOLEAN, shut : BOOLEAN]
        /\ call.sends <= Data[h]
    BY <2>2
  <2> HIDE DEF call
  <2> QED
    BY <2>1, <2>3, CountsCalled
<1>8. ASSUME NEW h \in Hosts, AppShutdown(h)
      PROVE  Counts'
  <2> DEFINE yes == TRUE
             call == [app[h] EXCEPT !.shut = yes]
  <2>1. /\ app' = [app EXCEPT ![h] = call] /\ UNCHANGED forks
        /\ Become(h, ShutdownSend(sock[h]), net)
    BY <1>8 DEF AppShutdown
  <2>2. app[h] \in [sends : Nat, closed : BOOLEAN, shut : BOOLEAN]
        /\ app[h].sends <= Data[h] /\ yes \in BOOLEAN
    BY DEF Counts
  <2> HIDE DEF yes
  <2>3. call \in [sends : Nat, closed : BOOLEAN, shut : BOOLEAN]
        /\ call.sends <= Data[h]
    BY <2>2
  <2> HIDE DEF call
  <2> QED
    BY <2>1, <2>3, CountsCalled
<1>9. ASSUME NEW h \in Hosts, Events(h)
      PROVE  Counts'
  <2>1. /\ \E t : Become(h, t, net)
        /\ UNCHANGED <<app, forks>>
    BY <1>9 DEF Events, PendingEvent, RetransmitEmpty, ReTxTimeout,
                DelAckTimeout, LastAckTimeout, TimeWaitExpires
  <2> QED
    BY <2>1, CountsKept
<1> QED
  BY <1>1, <1>2, <1>3, <1>4, <1>5, <1>6, <1>7, <1>8, <1>9 DEF Next

LEMMA CountsInit ==
  ASSUME Init
  PROVE  Counts
<1>1. BagCardinality(net) <= Capacity
  BY EmptyBagCardinality, ConnectionAssumption DEF Init
<1>2. \A h \in Hosts : 0 <= Data[h] /\ 0 <= MaxForks
  BY Bounds, ConnectionAssumption
<1> QED
  BY <1>1, <1>2 DEF Init, Counts

LEMMA SocketTypes ==
  ASSUME IInv, NEW h \in Hosts
  PROVE  /\ sock[h] \in Sockets /\ sock[h].highTx <= End(sock[h])
         /\ sock[h].out = {} /\ DOMAIN sock[h] = DOMAIN Closed
<1>1. SynRetries \in Nat /\ DataRetries \in Nat
  BY Bounds
<1>2. CASE sock[h] = Closed
  BY <1>1, <1>2 DEF Closed, Sockets, States, RetxEvents, End
<1>3. CASE sock[h] # Closed
  <2>1. Core(sock[h]) /\ sock[h].out = {}
    BY <1>3, UsedFacts DEF IInv
  <2>2. DOMAIN sock[h] = DOMAIN Closed
    BY <2>1 DEF Core, Sockets, Closed
  <2> QED
    BY <2>1, <2>2 DEF Core
<1> QED
  BY <1>2, <1>3

\* Every variable keeps its type, no retry counter leaves its range, a handler
\* sends nothing beyond the end of its buffer, and the bounds are kept.
THEOREM TypeCorrect == Spec => []TypeOK
<1>1. IInv /\ Counts => TypeOK
  <2> SUFFICES ASSUME IInv, Counts
               PROVE  TypeOK
    OBVIOUS
  <2>1. ASSUME NEW h \in Hosts
        PROVE  /\ DOMAIN sock[h] = DOMAIN Closed
               /\ sock[h].state \in States /\ sock[h].retx \in RetxEvents
               /\ \A f \in {"nextTx", "highTx", "head", "size", "nextRx",
                            "fin"} : sock[h][f] \in Nat
               /\ sock[h].stored \subseteq Nat
               /\ sock[h].highTx <= End(sock[h])
               /\ sock[h].synCount \in 0..SynRetries
               /\ sock[h].dataRetrCount \in 0..DataRetries
               /\ sock[h].out = {}
    BY SocketTypes DEF Sockets
  <2>2. ASSUME NEW h \in Hosts
        PROVE  app[h].sends \in 0..Data[h] /\ forks[h] \in 0..MaxForks
    <3>1. /\ app[h].sends \in Nat /\ app[h].sends <= Data[h]
          /\ forks[h] \in Nat /\ forks[h] <= MaxForks
      BY DEF IInv, Counts
    <3> QED
      BY <3>1, Bounds, ConnectionAssumption
  <2>3. /\ IsABag(net) /\ BagToSet(net) \subseteq Segments
        /\ BagCardinality(net) <= Capacity
    BY DEF IInv, Counts
  <2> QED
    BY <2>1, <2>2, <2>3 DEF TypeOK
<1>2. Init => Counts
  BY CountsInit
<1>3. IInv /\ Counts /\ [Next]_vars => Counts'
  BY CountsStep
<1> QED
  BY <1>1, <1>2, <1>3, Inductive, PTL DEF Spec

-----------------------------------------------------------------------------
(* The numbers of one opener.  What was sent, and what was received, is     *)
(* bounded by what the other end received and sent: B is the number the    *)
(* peer expects, H its highest mark.                                       *)

\* What h may send with its highest mark at high: data below the mark, a FIN at
\* the mark or where the peer expects it, a SYN before anything else.
Backed(h, x, high, B) ==
  /\ x.len = 1 => x.seq < high
  /\ x.flags = "FINACK" => x.seq >= 1 /\ x.seq + x.len <= Larger(high, B)
  /\ x.flags \in {"SYN", "SYNACK"} => x.seq = 0 /\ x.len = 0
  /\ x.flags = "SYN" => h \in Active

\* The sending half of a socket of h.
Numbered(h, s, B) ==
  /\ s.connected => s.head >= 1 /\ s.nextTx >= 1 /\ s.highTx >= 1
  /\ s.nextTx <= Larger(s.highTx, B)
  /\ s.retx = "SYN" => h \in Active
  /\ s.retx \in {"SYN", "SYNACK"} => ~s.connected
  /\ \A x \in s.out : Backed(h, x, s.highTx, B)

\* The receiving half.
Due(s, H) ==
  /\ \A i \in s.stored : i < H
  /\ Finished(s) \/ s.nextRx <= Larger(H, 1)

\* Both, within a handler.
Fit(h, s, B, H) == Numbered(h, s, B) /\ Due(s, H)

\* What the state says, between handlers: only a listener's socket is in
\* SYN_RCVD, only an opener's in SYN_SENT, and FIN_WAIT_2 was earned.
Placed(h, s, B) ==
  /\ s.state \in Handshake \cup {"CLOSED"} \/ s.connected
  /\ s.state = "SYN_RCVD" => h \notin Active
  /\ s.state = "SYN_SENT" => h \in Active
  /\ s.state = "FIN_WAIT_2" => s.highTx < B /\ s.size = 0

\* Nothing leads back into the handshake, nor to FIN_WAIT_2 but an
\* acknowledgement; and an empty buffer sends nothing.
Onward(s, t) ==
  /\ t.connected = s.connected
  /\ t.state = s.state \/ t.state \notin Handshake \cup {"FIN_WAIT_2"}
  /\ s.size = 0 => t.size = 0 /\ t.highTx = s.highTx

LEMMA OnwardReflexive ==
  ASSUME NEW s
  PROVE  Onward(s, s)
BY DEF Onward

LEMMA OnwardTransitive ==
  ASSUME NEW s, NEW t, NEW u, Onward(s, t), Onward(t, u)
  PROVE  Onward(s, u)
BY DEF Onward

\* More may be sent when both marks have moved on.
LEMMA BackedStays ==
  ASSUME NEW h, NEW x, x.seq \in Nat, x.len \in {0, 1},
         NEW low \in Nat, NEW high \in Nat, low <= high,
         NEW B \in Nat, NEW C \in Nat, B <= C, Backed(h, x, low, B)
  PROVE  Backed(h, x, high, C)
BY DEF Backed, Larger

\* What was not sent or received needs no second look.
Calm(s, t) == Same(s, t) /\ t.retx \in {s.retx, "none"} /\ t.out = s.out

LEMMA CalmFit ==
  ASSUME NEW h, NEW s, NEW t, NEW B, NEW H, Fit(h, s, B, H), Calm(s, t)
  PROVE  Fit(h, t, B, H)
<1>1. Numbered(h, t, B)
  BY DEF Fit, Numbered, Calm, Same
<1>2. Due(t, H)
  BY DEF Fit, Due, Finished, Calm, Same
<1> QED
  BY <1>1, <1>2 DEF Fit

LEMMA CalmTransitive ==
  ASSUME NEW s, NEW t, NEW u, Calm(s, t), Calm(t, u)
  PROVE  Calm(s, u)
BY DEF Calm, Same

LEMMA DeallocateIsCalm ==
  ASSUME NEW s \in Sockets
  PROVE  LET t == DeallocateEndPoint(s)
         IN Calm(s, t) /\ t.state = s.state
<1> DEFINE no == FALSE
           t == [s EXCEPT !.endPoint = no, !.retx = "none", !.delAck = no,
                          !.lastAck = no, !.timeWait = no, !.pending = no]
<1>1. CASE ~s.endPoint
  BY <1>1 DEF DeallocateEndPoint, Calm, Same
<1>2. CASE s.endPoint
  <2>1. DeallocateEndPoint(s) = t
    BY <1>2 DEF DeallocateEndPoint
  <2> HIDE DEF no
  <2>2. Calm(s, t) /\ t.state = s.state
    BY DEF Sockets, Calm, Same
  <2> QED
    BY <2>1, <2>2
<1> QED
  BY <1>1, <1>2

LEMMA ToldIsCalm ==
  ASSUME NEW s \in Sockets, NEW what
  PROVE  LET t == Told(s, what)
         IN Calm(s, t) /\ t.state = s.state
BY DEF Told, Sockets, Calm, Same

LEMMA CloseAndNotifyIsCalm ==
  ASSUME NEW s, Core(s)
  PROVE  Calm(s, CloseAndNotify(s)) /\ Onward(s, CloseAndNotify(s))
<1> DEFINE no == FALSE
           yes == TRUE
           u == Told(s, "closed")
           v == IF s.closeNotified THEN s ELSE [u EXCEPT !.closeNotified = yes]
           w == [v EXCEPT !.state = "CLOSED", !.lastAck = no]
           t == DeallocateEndPoint(w)
<1>1. CloseAndNotify(s) = t
  BY DEF CloseAndNotify
<1> HIDE DEF no, yes
<1>2. s \in Sockets /\ yes \in BOOLEAN /\ no \in BOOLEAN
  BY DEF Core, yes, no
<1>3. u \in Sockets /\ Calm(s, u)
  <2>1. "closed" \in Ends \cup {"connected", "accepted"}
    BY DEF Ends
  <2> QED
    BY <1>2, <2>1, ToldIsCalm, ToldFacts DEF Core
<1> HIDE DEF u
<1>4. v \in Sockets /\ Calm(s, v)
  <2>1. CASE s.closeNotified
    BY <1>2, <2>1 DEF Calm, Same
  <2>2. CASE ~s.closeNotified
    <3>1. v \in Sockets
      BY <1>2, <1>3, <2>2 DEF Sockets
    <3>2. Calm(u, v)
      BY <1>3, <2>2 DEF Sockets, Calm, Same
    <3> QED
      BY <1>3, <3>1, <3>2, CalmTransitive
  <2> QED
    BY <2>1, <2>2
<1> HIDE DEF v
<1>5. w \in Sockets /\ Calm(v, w) /\ w.state = "CLOSED"
  <2>1. w \in Sockets
    BY <1>2, <1>4 DEF Sockets, States
  <2> QED
    BY <1>4, <2>1 DEF Sockets, Calm, Same
<1> HIDE DEF w
<1>6. Calm(w, t) /\ t.state = "CLOSED"
  BY <1>5, DeallocateIsCalm
<1>7. Calm(s, t)
  BY <1>4, <1>5, <1>6, CalmTransitive
<1> QED
  BY <1>1, <1>6, <1>7 DEF Onward, Calm, Same, Handshake

LEMMA TimeWaitIsCalm ==
  ASSUME NEW s, Core(s)
  PROVE  Calm(s, TimeWait(s)) /\ Onward(s, TimeWait(s))
<1> DEFINE no == FALSE
           yes == TRUE
           u == Told(s, "closed")
           t == [u EXCEPT !.state = "TIME_WAIT", !.closeNotified = yes,
                          !.retx = "none", !.delAck = no, !.lastAck = no,
                          !.pending = no, !.timeWait = yes]
<1>1. TimeWait(s) = t
  BY DEF TimeWait
<1> HIDE DEF no, yes
<1>2. u \in Sockets /\ Calm(s, u)
  <2>1. "closed" \in Ends \cup {"connected", "accepted"} /\ s \in Sockets
    BY DEF Ends, Core
  <2> QED
    BY <2>1, ToldIsCalm, ToldFacts DEF Core
<1> HIDE DEF u
<1>3. Calm(u, t) /\ t.state = "TIME_WAIT"
  BY <1>2 DEF Sockets, Calm, Same
<1>4. Calm(s, t)
  BY <1>2, <1>3, CalmTransitive
<1> QED
  BY <1>1, <1>3, <1>4 DEF Onward, Calm, Same, Handshake

\* One more segment, that says no more than it may.
LEMMA EmitFit ==
  ASSUME NEW h, NEW s, Core(s), NEW B \in Nat, NEW H, Fit(h, s, B, H),
         NEW flags \in Flags, NEW seq \in Nat, NEW len \in {0, 1},
         \A x : (x.flags = flags /\ x.seq = seq /\ x.len = len) =>
                  Backed(h, x, s.highTx, B)
  PROVE  LET t == Emit(s, flags, seq, len)
         IN Fit(h, t, B, H)
<1> DEFINE x == [flags |-> flags, seq |-> seq, ack |-> s.nextRx, len |-> len]
           t == [s EXCEPT !.out = @ \cup {x}]
<1>1. Emit(s, flags, seq, len) = t
  BY DEF Emit
<1>2. x.flags = flags /\ x.seq = seq /\ x.len = len
  OBVIOUS
<1> HIDE DEF x
<1>3. Same(s, t) /\ t.retx = s.retx /\ t.out = s.out \cup {x}
  BY DEF Core, Sockets, Same
<1> HIDE DEF t
<1>4. Backed(h, x, s.highTx, B)
  BY <1>2
<1>5. Numbered(h, t, B)
  BY <1>3, <1>4 DEF Fit, Numbered, Same
<1>6. Due(t, H)
  BY <1>3 DEF Fit, Due, Finished, Same
<1> QED
  BY <1>1, <1>5, <1>6 DEF Fit

LEMMA SendEmptyPacketFit ==
  ASSUME NEW h, NEW s, Core(s), NEW B \in Nat, NEW H, Fit(h, s, B, H),
         NEW flags \in Flags, s.endPoint =>
           /\ flags = "FINACK" => s.connected
           /\ flags \in {"SYN", "SYNACK"} =>
                /\ ~s.connected /\ s.nextTx = 0
                /\ s.state \in Handshake \cup {"CLOSED"}
           /\ flags = "SYN" => h \in Active
  PROVE  LET t == SendEmptyPacket(s, flags)
         IN Fit(h, t, B, H) /\ Onward(s, t)
<1> DEFINE syn == flags \in {"SYN", "SYNACK"}
           seq == IF /\ flags # "FINACK"
                     /\ s.state \in {"FIN_WAIT_1", "LAST_ACK", "CLOSING"}
                  THEN s.nextTx + 1 ELSE s.nextTx
           r == IF syn THEN Retry(s) ELSE s
           e == Emit(r, flags, seq, 0)
           d == e.delAck /\ flags \in {"SYN", "RST"}
           sent == [e EXCEPT !.delAck = d]
           t == SendEmptyPacket(s, flags)
<1>0. /\ s \in Sockets /\ s.nextTx \in Nat /\ s.highTx \in Nat /\ seq \in Nat
      /\ flags = "FINACK" => seq = s.nextTx
      /\ (syn /\ s.state \in Handshake \cup {"CLOSED"}) => seq = s.nextTx
  BY CoreTypes DEF Core, Handshake
<1> HIDE DEF seq
<1>1. CASE ~s.endPoint
  BY <1>1 DEF SendEmptyPacket, Onward
<1>2. CASE s.endPoint /\ syn /\ s.synCount = 0
  <2> DEFINE k == [s EXCEPT !.state = "CLOSED"]
             c == Told(k, "failed")
  <2>1. t = DeallocateEndPoint(c)
    BY <1>2 DEF SendEmptyPacket
  <2>2. k \in Sockets /\ Calm(s, k) /\ k.state = "CLOSED"
    BY <1>0 DEF Sockets, States, Calm, Same
  <2> HIDE DEF k
  <2>3. Calm(k, c) /\ c.state = "CLOSED" /\ c \in Sockets
    <3>1. c = [k EXCEPT !.told = @ \cup {"failed"}]
      BY DEF Told
    <3>2. k.told \cup {"failed"} \in SUBSET (Ends \cup {"connected", "accepted"})
      BY <2>2 DEF Sockets, Ends
    <3>3. c \in Sockets
      BY <2>2, <3>1, <3>2 DEF Sockets
    <3> QED
      BY <2>2, <3>3, ToldIsCalm
  <2> HIDE DEF c
  <2>4. Calm(c, DeallocateEndPoint(c)) /\ DeallocateEndPoint(c).state = "CLOSED"
    BY <2>3, DeallocateIsCalm
  <2>5. Calm(s, t) /\ t.state = "CLOSED"
    BY <2>1, <2>2, <2>3, <2>4, CalmTransitive
  <2> HIDE DEF t
  <2>6. Fit(h, t, B, H)
    BY <2>5, CalmFit
  <2> QED
    BY <2>5, <2>6 DEF Onward, Calm, Same, Handshake, t
<1>3. CASE s.endPoint /\ ~(syn /\ s.synCount = 0)
  <2>1. t = IF (syn \/ flags = "FINACK") /\ s.retx = "none"
            THEN [sent EXCEPT !.retx = flags] ELSE sent
    BY <1>3 DEF SendEmptyPacket, seq
  <2>2. Core(r) /\ Calm(s, r) /\ r.state = s.state
    <3>1. CASE ~syn
      BY <3>1 DEF Calm, Same
    <3>2. CASE syn
      <4>1. s.synCount - 1 \in 0..SynRetries
        BY <1>3, <3>2, Bounds, CoreTypes
      <4>2. /\ r \in Sockets /\ Calm(s, r) /\ r.state = s.state
            /\ r.endPoint = s.endPoint /\ r.retx = s.retx /\ r.told = s.told
            /\ r.delAck = s.delAck /\ r.lastAck = s.lastAck
            /\ r.timeWait = s.timeWait /\ r.closeNotified = s.closeNotified
        BY <1>0, <3>2, <4>1 DEF Retry, Sockets, Same, Calm
      <4> HIDE DEF r
      <4> QED
        BY <4>2 DEF Core, Calm, Same, End, Quiet
    <3> QED
      BY <3>1, <3>2
  <2> HIDE DEF r
  <2>3. Fit(h, r, B, H)
    BY <2>2, CalmFit
  <2>4. Fit(h, e, B, H)
    <3>1. ASSUME NEW x, x.flags = flags, x.seq = seq, x.len = 0
          PROVE  Backed(h, x, s.highTx, B)
      <4>1. flags = "FINACK" => seq >= 1 /\ seq + 0 <= Larger(s.highTx, B)
        BY <1>0, <1>3 DEF Fit, Numbered
      <4>2. syn => seq = 0
        BY <1>0, <1>3
      <4> QED
        BY <1>3, <3>1, <4>1, <4>2 DEF Backed
    <3>2. r.highTx = s.highTx
      BY <2>2 DEF Calm, Same
    <3> QED
      BY <1>0, <2>2, <2>3, <3>1, <3>2, EmitFit
  <2>5. Core(e) /\ Same(r, e) /\ e.state = r.state /\ e.retx = r.retx
    BY <1>0, <2>2, EmitFacts
  <2> HIDE DEF e
  <2>6. /\ Same(e, t) /\ t.state = e.state /\ t.out = e.out
        /\ t.retx = IF (syn \/ flags = "FINACK") /\ s.retx = "none"
                    THEN flags ELSE e.retx
    BY <2>1, <2>5 DEF Core, Sockets, Same
  <2> HIDE DEF t
  <2>7. Same(s, e)
    BY <2>2, <2>5 DEF Calm, Same
  <2>8. Numbered(h, t, B)
    BY <1>3, <2>4, <2>6, <2>7 DEF Fit, Numbered, Same
  <2>9. Due(t, H)
    BY <2>4, <2>6 DEF Fit, Due, Finished, Same
  <2> QED
    BY <2>2, <2>5, <2>6, <2>7, <2>8, <2>9 DEF Fit, Onward, Same, Calm, t
<1> QED
  BY <1>1, <1>2, <1>3

\* An acknowledgement or a reset says nothing of numbers.
LEMMA SendPlainFit ==
  ASSUME NEW h, NEW s, Core(s), NEW B \in Nat, NEW H, Fit(h, s, B, H),
         NEW flags \in {"ACK", "RST"}
  PROVE  LET t == SendEmptyPacket(s, flags)
         IN Fit(h, t, B, H) /\ Onward(s, t)
BY SendEmptyPacketFit DEF Flags

LEMMA SendRSTFit ==
  ASSUME NEW h, NEW s, Sane(s), NEW B \in Nat, NEW H, Fit(h, s, B, H)
  PROVE  LET t == SendRST(s)
         IN Fit(h, t, B, H) /\ Onward(s, t)
<1> DEFINE e == SendEmptyPacket(s, "RST")
           d == Told(e, "error")
           t == DeallocateEndPoint(d)
<1>1. SendRST(s) = t
  BY DEF SendRST
<1>2. Core(s)
  BY DEF Sane
<1>3. Sane(e) /\ Fit(h, e, B, H) /\ Onward(s, e)
  BY <1>2, SendPlainFit, SendEmptyPacketFacts DEF Flags
<1> HIDE DEF e
<1>4. Core(e) /\ e \in Sockets
  BY <1>3 DEF Sane, Core
<1>5. Core(d) /\ Calm(e, d) /\ d.state = e.state
  <2>1. "error" \in Ends \cup {"connected", "accepted"}
    BY DEF Ends
  <2> QED
    BY <1>4, <2>1, ToldFacts, ToldIsCalm
<1> HIDE DEF d
<1>6. Calm(d, t) /\ t.state = d.state
  BY <1>5, DeallocateIsCalm DEF Core
<1>7. Calm(e, t) /\ t.state = e.state
  BY <1>5, <1>6, CalmTransitive
<1> HIDE DEF t
<1>8. Fit(h, t, B, H) /\ Onward(e, t)
  BY <1>3, <1>7, CalmFit DEF Onward, Calm, Same
<1> QED
  BY <1>1, <1>3, <1>8, OnwardTransitive

\* A segment of the buffer, perhaps with the FIN.
LEMMA SendDataPacketFit ==
  ASSUME NEW h, NEW s, Sane(s), s.endPoint, s.connected,
         NEW B \in Nat, NEW H, Fit(h, s, B, H),
         NEW seq \in Nat, seq >= 1, seq < End(s)
  PROVE  LET t == SendDataPacket(s, seq)
         IN /\ Fit(h, t, B, H) /\ t.connected = s.connected
            /\ \/ t.state = s.state
               \/ t.state \notin Handshake \cup {"FIN_WAIT_2"}
<1> DEFINE last == s.closeOnEmpty /\ SizeFrom(s, seq + 1) = 0
           flags == IF last THEN "FINACK" ELSE "ACK"
           e == Emit(s, flags, seq, 1)
           high == Larger(e.highTx, seq + 1)
           retx == IF e.retx = "none" THEN "data" ELSE e.retx
           no == FALSE
           u == [e EXCEPT !.delAck = no, !.retx = retx, !.highTx = high]
           t == SendDataPacket(s, seq)
           x == [flags |-> flags, seq |-> seq, ack |-> s.nextRx, len |-> 1]
<1>1. /\ t = CASE last /\ s.state = "ESTABLISHED" ->
                    [u EXCEPT !.state = "FIN_WAIT_1"]
               [] last /\ s.state = "CLOSE_WAIT" ->
                    [u EXCEPT !.state = "LAST_ACK"]
               [] OTHER -> u
  BY DEF SendDataPacket
<1>2. /\ Core(s) /\ flags \in {"ACK", "FINACK"} /\ flags \in Flags
      /\ s.highTx \in Nat
  BY CoreTypes DEF Sane, Flags
<1> HIDE DEF last, flags, no
<1>3. /\ Core(e) /\ Same(s, e) /\ e.state = s.state /\ e.retx = s.retx
  BY <1>2, EmitFacts
<1>4. e.out = s.out \cup {x}
  BY <1>2 DEF Emit, Core, Sockets
<1> HIDE DEF e
<1>5. /\ high \in Nat /\ s.highTx <= high /\ seq + 1 <= high
      /\ high = Larger(s.highTx, seq + 1)
  BY <1>2, <1>3 DEF Same, Larger
<1>6. Backed(h, x, high, B)
  BY <1>2, <1>5 DEF Backed, Larger
<1> HIDE DEF high, x
<1>7. \A y \in e.out : Backed(h, y, high, B)
  <2> SUFFICES ASSUME NEW y \in s.out
               PROVE  Backed(h, y, high, B)
    BY <1>4, <1>6
  <2>1. y.seq \in Nat /\ y.len \in {0, 1}
    BY <1>2 DEF Core, Sockets, Sendings
  <2>2. Backed(h, y, s.highTx, B) /\ B <= B
    BY DEF Fit, Numbered
  <2> QED
    BY <1>2, <1>5, <2>1, <2>2, BackedStays
<1>8. /\ u.head = e.head /\ u.nextRx = e.nextRx /\ u.stored = e.stored
      /\ u.fin = e.fin /\ u.connected = e.connected
      /\ u.nextTx = e.nextTx /\ u.highTx = high /\ u.retx = retx
      /\ u.out = e.out /\ u.state = e.state
  BY <1>3 DEF Core, Sockets
<1>10. /\ t.head = u.head /\ t.nextRx = u.nextRx /\ t.stored = u.stored
       /\ t.fin = u.fin /\ t.connected = u.connected
       /\ t.nextTx = u.nextTx /\ t.highTx = u.highTx /\ t.retx = u.retx
       /\ t.out = u.out
       /\ t.state \in {s.state, "FIN_WAIT_1", "LAST_ACK"}
  <2>1. "state" \in DOMAIN u
    BY <1>3 DEF Core, Sockets
  <2>2. CASE last /\ s.state = "ESTABLISHED"
    <3>1. t = [u EXCEPT !.state = "FIN_WAIT_1"]
      BY <1>1, <2>2
    <3> HIDE DEF u, t
    <3> QED
      BY <2>1, <3>1
  <2>3. CASE last /\ s.state = "CLOSE_WAIT"
    <3>1. t = [u EXCEPT !.state = "LAST_ACK"]
      BY <1>1, <2>3
    <3> HIDE DEF u, t
    <3> QED
      BY <2>1, <3>1
  <2>4. CASE ~(last /\ s.state \in {"ESTABLISHED", "CLOSE_WAIT"})
    <3>1. t = u
      BY <1>1, <2>4
    <3> QED
      BY <1>3, <1>8, <3>1
  <2> QED
    BY <2>2, <2>3, <2>4
<1> HIDE DEF u, t
<1>11. s.nextTx <= Larger(high, B)
  <2>1. s.nextTx <= Larger(s.highTx, B) /\ s.nextTx \in Nat
    BY <1>2, CoreTypes DEF Fit, Numbered
  <2> QED
    BY <1>2, <1>5, <2>1 DEF Larger
<1>12. s.head >= 1 /\ s.nextTx >= 1 /\ high >= 1
  BY <1>5 DEF Fit, Numbered
<1>13. /\ retx = "SYN" => h \in Active
       /\ retx \in {"SYN", "SYNACK"} => ~s.connected
  BY <1>3 DEF Fit, Numbered
<1>14. Numbered(h, t, B)
  BY <1>3, <1>7, <1>8, <1>10, <1>11, <1>12, <1>13 DEF Numbered, Same
<1>15. Due(t, H)
  BY <1>3, <1>8, <1>10 DEF Fit, Due, Finished, Same
<1>16. t.connected = s.connected
  BY <1>3, <1>8, <1>10 DEF Same
<1> QED
  BY <1>10, <1>14, <1>15, <1>16 DEF Fit, t, Handshake

LEMMA NextTxFit ==
  ASSUME NEW h, NEW s, Core(s), NEW B, NEW H, Fit(h, s, B, H),
         NEW n \in Nat, n >= 1, n <= Larger(s.highTx, B)
  PROVE  LET t == [s EXCEPT !.nextTx = n]
         IN Fit(h, t, B, H)
<1> DEFINE t == [s EXCEPT !.nextTx = n]
<1>1. /\ t.head = s.head /\ t.nextRx = s.nextRx /\ t.stored = s.stored
      /\ t.fin = s.fin /\ t.connected = s.connected /\ t.nextTx = n
      /\ t.highTx = s.highTx /\ t.retx = s.retx /\ t.out = s.out
      /\ t.state = s.state
  BY DEF Core, Sockets
<1> HIDE DEF t
<1>2. Numbered(h, t, B) /\ Due(t, H)
  BY <1>1 DEF Fit, Numbered, Due, Finished
<1> QED
  BY <1>1, <1>2 DEF Fit, t

LEMMA SendStepFit ==
  ASSUME NEW h, NEW s, Sane(s), s.endPoint, s.connected,
         NEW B \in Nat, NEW H, Fit(h, s, B, H),
         NEW seq \in Nat, seq >= 1, seq < End(s), s.size # 0
  PROVE  LET t == [SendDataPacket(s, seq) EXCEPT !.nextTx = seq + 1]
         IN Fit(h, t, B, H) /\ Onward(s, t)
<1> DEFINE u == SendDataPacket(s, seq)
           n == seq + 1
           t == [u EXCEPT !.nextTx = n]
<1>1. /\ Sane(u) /\ u.highTx = Larger(s.highTx, seq + 1) /\ Core(s)
      /\ s.highTx \in Nat
  BY SendDataPacketFacts, CoreTypes DEF Sane
<1>2. /\ Fit(h, u, B, H) /\ u.connected = s.connected
      /\ u.state = s.state \/ u.state \notin Handshake \cup {"FIN_WAIT_2"}
  BY SendDataPacketFit
<1> HIDE DEF u
<1>3. n \in Nat /\ n >= 1 /\ n <= Larger(u.highTx, B)
  BY <1>1 DEF Larger
<1> HIDE DEF n
<1>4. Fit(h, t, B, H)
  BY <1>1, <1>2, <1>3, NextTxFit DEF Sane
<1>5. t.state = u.state /\ t.connected = u.connected
  BY <1>1 DEF Sane, Core, Sockets
<1> QED
  BY <1>2, <1>4, <1>5 DEF Onward, u, n

\* The sockets that a handler may reach from s by sending.
FitReach(h, s, B, H) ==
  {t \in Reach(s) : Fit(h, t, B, H) /\ Onward(s, t)}

LEMMA SendNextFit ==
  ASSUME NEW h, NEW s, Sane(s), s.endPoint, s.connected, s.size # 0,
         NEW B \in Nat, NEW H, NEW t \in FitReach(h, s, B, H)
  PROVE  SendNext(t) \in FitReach(h, s, B, H)
<1>1. /\ t \in Reach(s) /\ Fit(h, t, B, H) /\ Onward(s, t) /\ Core(s)
      /\ SendNext(t) \in Reach(s)
  BY SendNextFacts DEF FitReach, Sane
<1>2. /\ Sane(t) /\ Core(t) /\ t.endPoint /\ t.connected /\ t.size # 0
  BY <1>1 DEF Reach, Sane, Sent
<1>3. CASE SizeFrom(t, t.highTx) = 0
  BY <1>3 DEF SendNext
<1>4. CASE SizeFrom(t, t.highTx) # 0
  <2> DEFINE q == t.highTx
             u == [SendDataPacket(t, q) EXCEPT !.nextTx = q + 1]
  <2>1. SendNext(t) = u
    BY <1>4 DEF SendNext
  <2>2. q \in Nat /\ q < End(t) /\ q >= 1
    BY <1>1, <1>2, <1>4, CoreTypes DEF SizeFrom, End, Fit, Numbered
  <2> HIDE DEF q
  <2>3. Fit(h, u, B, H) /\ Onward(t, u)
    BY <1>1, <1>2, <2>2, SendStepFit
  <2> HIDE DEF u
  <2> QED
    BY <1>1, <2>1, <2>3, OnwardTransitive DEF FitReach
<1> QED
  BY <1>3, <1>4

LEMMA SendPendingDataFit ==
  ASSUME NEW h, NEW s, Sane(s), Timed(s), s.endPoint => s.connected,
         NEW B \in Nat, NEW H, Fit(h, s, B, H), NEW lost, NEW k \in Nat
  PROVE  LET t == SendPendingData(s, lost, k)
         IN Fit(h, t, B, H) /\ Onward(s, t)
<1> DEFINE a == IF lost \in s.head .. s.highTx - 1
                THEN [SendDataPacket(s, lost) EXCEPT !.nextTx = lost + 1]
                ELSE s
           n == IF s.head = s.highTx THEN Larger(k, 1) ELSE k
           loop == LET round[i \in 0 .. n] ==
                         IF i = 0 THEN a ELSE SendNext(round[i - 1])
                   IN round[n]
<1>1. Core(s)
  BY DEF Sane
<1>2. SendPendingData(s, lost, k) = IF s.size = 0 \/ ~s.endPoint THEN s
                                    ELSE loop
  BY DEF SendPendingData
<1>3. CASE s.size = 0 \/ ~s.endPoint
  BY <1>2, <1>3, OnwardReflexive
<1>4. CASE ~(s.size = 0 \/ ~s.endPoint)
  <2>1. a \in FitReach(h, s, B, H)
    <3>1. CASE lost \in s.head .. s.highTx - 1
      <4> DEFINE b == [SendDataPacket(s, lost) EXCEPT !.nextTx = lost + 1]
      <4>1. /\ lost \in Nat /\ lost < End(s) /\ lost >= 1
        BY <1>1, <1>4, <3>1, CoreTypes DEF Core, End, Fit, Numbered
      <4>2. Sane(b) /\ Timed(b) /\ Sent(s, b)
        BY <1>4, <4>1, SendStepFacts
      <4>3. Fit(h, b, B, H) /\ Onward(s, b)
        BY <1>4, <4>1, SendStepFit
      <4>4. a = b
        BY <3>1
      <4> HIDE DEF a, b
      <4> QED
        BY <4>2, <4>3, <4>4 DEF FitReach, Reach, Sane, Core
    <3>2. CASE lost \notin s.head .. s.highTx - 1
      BY <1>1, <3>2, SentReflexive, OnwardReflexive DEF FitReach, Reach, Core
    <3> QED
      BY <3>1, <3>2
  <2>2. n \in Nat
    BY DEF Larger
  <2> HIDE DEF a, n
  <2>3. \A t \in FitReach(h, s, B, H) : SendNext(t) \in FitReach(h, s, B, H)
    BY <1>4, SendNextFit
  <2> DEFINE S == FitReach(h, s, B, H)
  <2>4. a \in S /\ \A t \in S : SendNext(t) \in S
    BY <2>1, <2>3
  <2> HIDE DEF S
  <2>5. loop \in S
    BY <2>2, <2>4, LoopStays
  <2> HIDE DEF loop
  <2> QED
    BY <1>2, <1>4, <2>5 DEF FitReach, S
<1> QED
  BY <1>3, <1>4

\* Another state, to which no way leads that needs more.
LEMMA StateFit ==
  ASSUME NEW h, NEW s \in Sockets, NEW B, NEW H, Fit(h, s, B, H),
         NEW x, x \notin Handshake \cup {"FIN_WAIT_2"}
  PROVE  LET t == [s EXCEPT !.state = x]
         IN Fit(h, t, B, H) /\ Onward(s, t)
<1> DEFINE t == [s EXCEPT !.state = x]
<1>1. Calm(s, t) /\ t.state = x
  BY DEF Sockets, Calm, Same
<1> HIDE DEF t
<1>2. Fit(h, t, B, H) /\ Onward(s, t)
  BY <1>1, CalmFit DEF Onward, Calm, Same
<1> QED
  BY <1>2 DEF t

LEMMA SendFinFit ==
  ASSUME NEW h, NEW s, Sane(s), s.endPoint => s.connected,
         NEW B \in Nat, NEW H, Fit(h, s, B, H),
         NEW x \in {"FIN_WAIT_1", "LAST_ACK"}
  PROVE  LET t == [SendEmptyPacket(s, "FINACK") EXCEPT !.state = x]
         IN Fit(h, t, B, H) /\ Onward(s, t)
<1> DEFINE e == SendEmptyPacket(s, "FINACK")
           t == [e EXCEPT !.state = x]
<1>1. Core(s) /\ x \notin Handshake \cup {"FIN_WAIT_2"}
  BY DEF Sane, Handshake
<1>2. Sane(e) /\ Fit(h, e, B, H) /\ Onward(s, e)
  BY <1>1, SendEmptyPacketFit, SendEmptyPacketFacts DEF Flags
<1> HIDE DEF e
<1>3. Fit(h, t, B, H) /\ Onward(e, t)
  BY <1>1, <1>2, StateFit DEF Sane, Core
<1> HIDE DEF t
<1>4. Onward(s, t)
  BY <1>2, <1>3, OnwardTransitive
<1> QED
  BY <1>3, <1>4 DEF t, e

\* A socket that may be closed: it belongs to the application.
Open(s) == s.state \in {"SYN_SENT", "CLOSED"} \/ s.connected

LEMMA DoCloseFit ==
  ASSUME NEW h, NEW s, Sane(s), s.state # "SYN_RCVD", Open(s),
         NEW B \in Nat, NEW H, Fit(h, s, B, H)
  PROVE  LET t == DoClose(s)
         IN Fit(h, t, B, H) /\ Onward(s, t)
<1>1. CASE s.state = "ESTABLISHED"
  <2>1. DoClose(s) = [SendEmptyPacket(s, "FINACK") EXCEPT
                        !.state = "FIN_WAIT_1"]
    BY <1>1 DEF DoClose
  <2>2. s.connected
    BY <1>1 DEF Open
  <2> DEFINE t == [SendEmptyPacket(s, "FINACK") EXCEPT !.state = "FIN_WAIT_1"]
  <2>3. Fit(h, t, B, H) /\ Onward(s, t)
    BY <2>2, SendFinFit
  <2> HIDE DEF t
  <2>4. DoClose(s) = t
    BY <2>1 DEF t
  <2> QED
    BY <2>3, <2>4
<1>2. CASE s.state = "CLOSE_WAIT"
  <2>1. DoClose(s) = [SendEmptyPacket(s, "FINACK") EXCEPT
                        !.state = "LAST_ACK"]
    BY <1>2 DEF DoClose
  <2>2. s.connected
    BY <1>2 DEF Open
  <2> DEFINE t == [SendEmptyPacket(s, "FINACK") EXCEPT !.state = "LAST_ACK"]
  <2>3. Fit(h, t, B, H) /\ Onward(s, t)
    BY <2>2, SendFinFit
  <2> HIDE DEF t
  <2>4. DoClose(s) = t
    BY <2>1 DEF t
  <2> QED
    BY <2>3, <2>4
<1>3. CASE s.state \in {"SYN_SENT", "CLOSING"}
  <2> DEFINE r == SendRST(s)
             t == CloseAndNotify(r)
  <2>1. DoClose(s) = t
    BY <1>3 DEF DoClose
  <2>2. Core(r) /\ Fit(h, r, B, H) /\ Onward(s, r)
    BY SendRSTFacts, SendRSTFit DEF Sane
  <2> HIDE DEF r
  <2>3. Fit(h, t, B, H) /\ Onward(r, t)
    BY <2>2, CloseAndNotifyIsCalm, CalmFit
  <2> QED
    BY <2>1, <2>2, <2>3, OnwardTransitive
<1>4. CASE s.state \notin {"ESTABLISHED", "CLOSE_WAIT", "SYN_SENT", "CLOSING"}
  BY <1>4, OnwardReflexive DEF DoClose
<1> QED
  BY <1>1, <1>2, <1>3, <1>4

LEMMA FlagsCalm ==
  ASSUME NEW s \in Sockets, NEW empty \in BOOLEAN, NEW shut \in BOOLEAN
  PROVE  LET t == [s EXCEPT !.shutdownSend = shut, !.closeOnEmpty = empty]
         IN Calm(s, t) /\ t.state = s.state
BY DEF Sockets, Calm, Same

LEMMA CloseFit ==
  ASSUME NEW h, NEW s, Sane(s), s.state # "SYN_RCVD", Open(s),
         NEW B \in Nat, NEW H, Fit(h, s, B, H)
  PROVE  LET t == Close(s)
         IN Fit(h, t, B, H) /\ Onward(s, t)
<1>1. CASE s.stored # {}
  BY <1>1, SendRSTFit DEF Close
<1>2. CASE s.stored = {} /\ SizeFrom(s, s.nextTx) > 0
  <2> DEFINE yes == TRUE
             t == [s EXCEPT !.shutdownSend = s.shutdownSend,
                            !.closeOnEmpty = yes]
  <2>1. s \in Sockets
    BY DEF Sane, Core
  <2>2. Close(s) = t
    BY <1>2, <2>1 DEF Close, Sockets
  <2>3. s.shutdownSend \in BOOLEAN /\ yes \in BOOLEAN
    BY <2>1 DEF Sockets
  <2> HIDE DEF yes
  <2>4. Calm(s, t) /\ t.state = s.state
    BY <2>1, <2>3, FlagsCalm
  <2> HIDE DEF t
  <2> QED
    BY <2>2, <2>4, CalmFit DEF Onward, Calm, Same
<1>3. CASE s.stored = {} /\ ~(SizeFrom(s, s.nextTx) > 0)
  BY <1>3, DoCloseFit DEF Close
<1> QED
  BY <1>1, <1>2, <1>3

LEMMA ShutdownSendFit ==
  ASSUME NEW h, NEW s, Sane(s), s.state # "SYN_RCVD", Open(s),
         NEW B \in Nat, NEW H, Fit(h, s, B, H)
  PROVE  LET t == ShutdownSend(s)
         IN Fit(h, t, B, H) /\ Onward(s, t)
<1> DEFINE yes == TRUE
           u == [s EXCEPT !.shutdownSend = yes, !.closeOnEmpty = yes]
           e == SendEmptyPacket(u, "FINACK")
           x == IF e.state = "ESTABLISHED" THEN "FIN_WAIT_1" ELSE "LAST_ACK"
           t == [e EXCEPT !.state = x]
<1>1. ShutdownSend(s) = IF /\ u.size = 0
                           /\ u.state \in {"ESTABLISHED", "CLOSE_WAIT"}
                        THEN t ELSE u
  BY DEF ShutdownSend
<1>2. yes \in BOOLEAN /\ s \in Sockets
  BY DEF Sane, Core
<1>3. Sane(u)
  BY <1>2, FlagFacts
<1>4. Calm(s, u) /\ u.state = s.state
  BY <1>2, FlagsCalm
<1> HIDE DEF u, yes
<1>5. Fit(h, u, B, H) /\ Onward(s, u)
  BY <1>4, CalmFit DEF Onward, Calm, Same
<1>6. CASE ~(u.size = 0 /\ u.state \in {"ESTABLISHED", "CLOSE_WAIT"})
  BY <1>1, <1>5, <1>6
<1>7. CASE u.size = 0 /\ u.state \in {"ESTABLISHED", "CLOSE_WAIT"}
  <2>1. x \in {"FIN_WAIT_1", "LAST_ACK"} /\ u.connected
    BY <1>4, <1>7 DEF Open, Calm, Same
  <2> HIDE DEF x
  <2>2. Fit(h, t, B, H) /\ Onward(u, t)
    BY <1>3, <1>5, <2>1, SendFinFit
  <2> HIDE DEF t
  <2> QED
    BY <1>1, <1>5, <1>7, <2>2, OnwardTransitive
<1> QED
  BY <1>6, <1>7

LEMMA DoPeerCloseFit ==
  ASSUME NEW h, NEW s, Sane(s), Timed(s), s.endPoint, s.connected,
         s.state # "TIME_WAIT", NEW B \in Nat, NEW H, Fit(h, s, B, H)
  PROVE  LET t == DoPeerClose(s)
         IN Fit(h, t, B, H) /\ Onward(s, t)
<1> DEFINE yes == TRUE
           d == Told(s, "closed")
           c == [d EXCEPT !.state = "CLOSE_WAIT", !.closeNotified = yes]
           u == IF s.shutdownSend THEN Close(c) ELSE SendEmptyPacket(c, "ACK")
           t == [u EXCEPT !.dataRetrCount = DataRetries, !.lastAck = yes]
<1>1. DoPeerClose(s) = IF u.state = "LAST_ACK" THEN t ELSE u
  BY DEF DoPeerClose
<1>2. s \in Sockets /\ Core(s) /\ yes \in BOOLEAN /\ yes
  BY DEF Sane, Core
<1> HIDE DEF yes
<1>3. /\ Core(d) /\ d.endPoint /\ d.retx = s.retx /\ Sane(d)
      /\ "closed" \in d.told
  <2>1. "closed" \in Ends \cup {"connected", "accepted"}
    BY DEF Ends
  <2> QED
    BY <1>2, <2>1, ToldFacts
<1>4. Calm(s, d)
  BY <1>2, ToldIsCalm
<1> HIDE DEF d
<1>5. /\ c \in Sockets /\ Calm(d, c) /\ c.state = "CLOSE_WAIT" /\ c.endPoint
      /\ c.retx = d.retx /\ c.told = d.told
  <2>1. c \in Sockets
    BY <1>2, <1>3 DEF Core, Sockets, States
  <2> QED
    BY <1>3, <2>1 DEF Core, Sockets, Calm, Same
<1> HIDE DEF c
<1>6. Sane(c)
  BY <1>3, <1>5 DEF Sane, Core, Calm, Same, End, Quiet
<1>7. Calm(s, c) /\ c.connected
  BY <1>4, <1>5, CalmTransitive DEF Calm, Same
<1>8. Fit(h, c, B, H) /\ Onward(s, c)
  BY <1>5, <1>7, CalmFit DEF Onward, Calm, Same, Handshake
<1>9. Fit(h, u, B, H) /\ Onward(c, u)
  <2>1. CASE s.shutdownSend
    BY <1>5, <1>6, <1>7, <1>8, <2>1, CloseFit DEF Open
  <2>2. CASE ~s.shutdownSend
    BY <1>6, <1>8, <2>2, SendPlainFit DEF Sane
  <2> QED
    BY <2>1, <2>2
<1>10. u \in Sockets
  <2>1. Timed(c) /\ Fresh(c)
    <3>1. Timed(c)
      BY <1>3, <1>5, <1>7 DEF Timed, Calm, Same
    <3> QED
      BY <1>5, <3>1 DEF Fresh, Handshake
  <2>2. CASE s.shutdownSend
    BY <1>6, <2>1, <2>2, CloseFacts DEF Closing, Sane, Core
  <2>3. CASE ~s.shutdownSend
    BY <1>6, <2>3, SendEmptyPacketFacts DEF Flags, Sane, Core
  <2> QED
    BY <2>2, <2>3
<1> HIDE DEF u
<1>11. Calm(u, t) /\ t.state = u.state
  BY <1>10 DEF Sockets, Calm, Same
<1> HIDE DEF t
<1>12. Fit(h, t, B, H) /\ Onward(u, t)
  BY <1>9, <1>11, CalmFit DEF Onward, Calm, Same
<1> QED
  BY <1>1, <1>8, <1>9, <1>12, OnwardTransitive

\* Only the receive buffer differs.
Filled(s, t) ==
  /\ t.head = s.head /\ t.size = s.size /\ t.nextTx = s.nextTx
  /\ t.highTx = s.highTx /\ t.connected = s.connected /\ t.retx = s.retx
  /\ t.out = s.out /\ t.state = s.state

LEMMA FilledFit ==
  ASSUME NEW h, NEW s, NEW t, NEW B, NEW H, Fit(h, s, B, H), Filled(s, t),
         Due(t, H)
  PROVE  Fit(h, t, B, H) /\ Onward(s, t)
<1>1. Numbered(h, t, B)
  BY DEF Fit, Numbered, Filled
<1> QED
  BY <1>1 DEF Fit, Onward, Filled

LEMMA SetFinFit ==
  ASSUME NEW h, NEW s, Core(s), NEW B, NEW H \in Nat, Fit(h, s, B, H),
         NEW seq \in Nat, seq >= 1, seq <= Larger(H, s.nextRx)
  PROVE  LET t == SetFin(s, seq)
         IN Fit(h, t, B, H) /\ Onward(s, t)
<1> DEFINE n == IF s.nextRx = seq THEN seq + 1 ELSE s.nextRx
           t == [s EXCEPT !.fin = seq, !.nextRx = n]
<1>1. s \in Sockets /\ s.nextRx \in Nat
  BY CoreTypes
<1>2. SetFin(s, seq) = t
  BY DEF SetFin
<1>3. /\ Filled(s, t) /\ t.fin = seq /\ t.nextRx = n /\ t.stored = s.stored
  BY <1>1 DEF Sockets, Filled
<1> HIDE DEF t
<1>4. seq < n \/ n <= Larger(H, 1)
  BY <1>1 DEF Larger
<1>5. Due(t, H)
  BY <1>3, <1>4 DEF Fit, Due, Finished
<1> QED
  BY <1>2, <1>3, <1>5, FilledFit

LEMMA AddRxFit ==
  ASSUME NEW h, NEW s, Core(s), NEW B, NEW H \in Nat, Fit(h, s, B, H),
         NEW seq \in Nat, seq < H
  PROVE  LET t == AddRx(s, seq)
         IN Fit(h, t, B, H) /\ Onward(s, t)
<1> DEFINE got == s.stored \cup {seq}
           next == CHOOSE n \in {s.nextRx} \cup {i + 1 : i \in got} :
                     /\ n >= s.nextRx /\ n \notin got
                     /\ \A i \in s.nextRx .. n - 1 : i \in got
           m == IF s.fin # 0 /\ next = s.fin THEN next + 1 ELSE next
           k == {i \in got : i > next}
           t == [s EXCEPT !.nextRx = m, !.stored = k]
<1>1. /\ s \in Sockets /\ s.stored \in SUBSET Nat /\ IsFiniteSet(s.stored)
      /\ s.nextRx \in Nat /\ s.fin \in Nat
  BY CoreTypes
<1>2. /\ got \in SUBSET Nat /\ IsFiniteSet(got)
      /\ \A i \in got : i < H
  BY <1>1, FS_AddElement DEF Fit, Due
<1>3. next \in {s.nextRx} \cup {i + 1 : i \in got} /\ Missing(next, s.nextRx, got)
  <2>1. \E n \in {s.nextRx} \cup {i + 1 : i \in got} : Missing(n, s.nextRx, got)
    <3> HIDE DEF got
    <3> QED
      BY <1>1, <1>2, MissingExists
  <2> QED
    BY <2>1 DEF Missing
<1>4. AddRx(s, seq) = t
  BY DEF AddRx
<1>5. \A i \in k : i < H
  BY <1>2
<1> HIDE DEF next
<1>6. next \in Nat /\ (next = s.nextRx \/ next <= H)
  <2> HIDE DEF got
  <2> QED
    BY <1>1, <1>2, <1>3
<1>7. /\ Filled(s, t) /\ t.fin = s.fin /\ t.nextRx = m /\ t.stored = k
  <2> HIDE DEF m, k
  <2> QED
    BY <1>1 DEF Sockets, Filled
<1> HIDE DEF t, k
<1>8. (s.fin # 0 /\ s.fin < m) \/ m <= Larger(H, 1)
  <2>1. Finished(s) \/ s.nextRx <= Larger(H, 1)
    BY DEF Fit, Due
  <2> QED
    BY <1>1, <1>6, <2>1 DEF Larger, Finished
<1>9. Due(t, H)
  <2> HIDE DEF m
  <2> QED
    BY <1>5, <1>7, <1>8 DEF Due, Finished
<1> QED
  BY <1>4, <1>7, <1>9, FilledFit

LEMMA ReceivedDataFit ==
  ASSUME NEW h, NEW s, Sane(s), Timed(s), s.endPoint, s.connected,
         s.state # "TIME_WAIT",
         NEW B \in Nat, NEW H \in Nat, Fit(h, s, B, H),
         NEW m, m.seq \in Nat, m.seq < H, NEW in
  PROVE  LET t == ReceivedData(s, m, in)
         IN Fit(h, t, B, H) /\ Onward(s, t)
<1> DEFINE t == AddRx(s, m.seq)
           yes == TRUE
           a == SendEmptyPacket(s, "ACK")
           b == DoPeerClose(t)
           c == [t EXCEPT !.delAck = yes]
           d == SendEmptyPacket(t, "ACK")
           r == ReceivedData(s, m, in)
<1>1. r \in {a, b, c, d}
  BY DEF ReceivedData
<1>2. Core(s)
  BY DEF Sane
<1>3. /\ Sane(t) /\ Got(s, t) /\ t.state = s.state
      /\ t.endPoint = s.endPoint /\ Timed(t)
  BY AddRxFacts
<1>4. Fit(h, t, B, H) /\ Onward(s, t)
  BY <1>2, AddRxFit
<1> HIDE DEF t, yes
<1>5. /\ Core(t) /\ t.endPoint /\ t.state # "TIME_WAIT" /\ t.connected
      /\ t \in Sockets
  BY <1>3 DEF Sane, Got, Core
<1>6. Fit(h, a, B, H) /\ Onward(s, a)
  BY <1>2, SendPlainFit
<1>7. Fit(h, b, B, H) /\ Onward(t, b)
  BY <1>3, <1>4, <1>5, DoPeerCloseFit
<1>8. Fit(h, c, B, H) /\ Onward(t, c)
  <2>1. Calm(t, c) /\ c.state = t.state
    BY <1>5 DEF Sockets, Calm, Same
  <2> HIDE DEF c
  <2> QED
    BY <1>4, <2>1, CalmFit DEF Onward, Calm, Same
<1>9. Fit(h, d, B, H) /\ Onward(t, d)
  BY <1>4, <1>5, SendPlainFit
<1> HIDE DEF a, b, c, d, r
<1>10. /\ Fit(h, r, B, H) /\ Onward(s, r)
  BY <1>1, <1>4, <1>6, <1>7, <1>8, <1>9, OnwardTransitive
<1> QED
  BY <1>10 DEF r

\* What a segment says of its data and of a FIN.
Says(m, H, n) ==
  /\ m.len = 1 => m.seq < H
  /\ m.flags = "FINACK" => m.seq >= 1 /\ m.seq + m.len <= Larger(H, n)

LEMMA PeerCloseFit ==
  ASSUME NEW h, NEW s, Sane(s), Timed(s), s.endPoint, s.connected,
         s.state # "TIME_WAIT",
         NEW B \in Nat, NEW H \in Nat, Fit(h, s, B, H),
         NEW m, m.seq \in Nat, m.len \in {0, 1}, m.flags = "FINACK",
         Says(m, H, s.nextRx), NEW in
  PROVE  LET t == PeerClose(s, m, in)
         IN Fit(h, t, B, H) /\ Onward(s, t)
<1> DEFINE q == m.seq + m.len
           f == SetFin(s, q)
           r == ReceivedData(f, m, in)
           u == IF m.len > 0 THEN r ELSE f
           t == DoPeerClose(u)
           p == PeerClose(s, m, in)
<1>1. p \in {s, t, u}
  BY DEF PeerClose
<1>2. /\ Core(s) /\ q \in Nat /\ q >= 1 /\ q <= Larger(H, s.nextRx)
  BY DEF Sane, Says
<1> HIDE DEF q
<1>3. /\ Sane(f) /\ Got(s, f) /\ f.state = s.state
      /\ f.endPoint = s.endPoint /\ Timed(f)
  BY <1>2, SetFinFacts
<1>4. Fit(h, f, B, H) /\ Onward(s, f)
  BY <1>2, SetFinFit
<1> HIDE DEF f
<1>5. /\ Core(f) /\ f.endPoint /\ f.state # "TIME_WAIT" /\ f.connected
  BY <1>3 DEF Sane, Got
<1>6. /\ Sane(u) /\ Timed(u) /\ u.endPoint /\ u.connected
      /\ u.state # "TIME_WAIT" /\ Fit(h, u, B, H) /\ Onward(f, u)
  <2>1. CASE m.len > 0
    <3>1. u = r /\ m.seq < H
      BY <2>1 DEF Says
    <3>2. Taken(f, r) /\ r.state = f.state /\ r.endPoint
      BY <1>3, <1>5, ReceivedDataFacts
    <3>3. Fit(h, r, B, H) /\ Onward(f, r)
      BY <1>3, <1>4, <1>5, <3>1, ReceivedDataFit
    <3> HIDE DEF r, u
    <3> QED
      BY <1>5, <3>1, <3>2, <3>3 DEF Taken, Got
  <2>2. CASE ~(m.len > 0)
    BY <1>3, <1>4, <1>5, <2>2, OnwardReflexive
  <2> QED
    BY <2>1, <2>2
<1> HIDE DEF u
<1>7. Fit(h, t, B, H) /\ Onward(u, t)
  BY <1>6, DoPeerCloseFit
<1> HIDE DEF t, p
<1>8. Fit(h, p, B, H) /\ Onward(s, p)
  BY <1>1, <1>4, <1>6, <1>7, OnwardTransitive, OnwardReflexive
<1> QED
  BY <1>8 DEF p

LEMMA NewAckFit ==
  ASSUME NEW h, NEW s, Sane(s), NEW B \in Nat, NEW H, Fit(h, s, B, H),
         NEW ack \in Nat, ack >= 1, ack <= B, NEW reset \in BOOLEAN
  PROVE  LET t == NewAck(s, ack, reset)
         IN Fit(h, t, B, H) /\ Onward(s, t)
<1> DEFINE r == IF s.state # "SYN_RCVD" /\ reset THEN "data" ELSE s.retx
           n == Larger(s.nextTx, ack)
           u == [s EXCEPT !.dataRetrCount = DataRetries, !.retx = r,
                          !.nextTx = n]
           done == s.size = 0 /\ s.state \notin {"FIN_WAIT_1", "CLOSING"}
           t == NewAck(s, ack, reset)
<1>1. t = IF done THEN [u EXCEPT !.retx = "none"] ELSE u
  BY DEF NewAck
<1>2. /\ s \in Sockets /\ s.nextTx \in Nat /\ s.highTx \in Nat
  BY CoreTypes DEF Sane
<1>3. /\ n >= 1 /\ n <= Larger(s.highTx, B) /\ r \in {s.retx, "data"}
  BY <1>2 DEF Larger, Fit, Numbered
<1> HIDE DEF n, r, done
<1>4. /\ u.head = s.head /\ u.size = s.size /\ u.nextTx = n
      /\ u.highTx = s.highTx /\ u.nextRx = s.nextRx /\ u.stored = s.stored
      /\ u.fin = s.fin /\ u.connected = s.connected /\ u.retx = r
      /\ u.out = s.out /\ u.state = s.state
      /\ DOMAIN u = DOMAIN s /\ "retx" \in DOMAIN s
      /\ u = [x \in DOMAIN s |-> u[x]]
  BY <1>2 DEF Sockets
<1> HIDE DEF u
<1>5. /\ t.head = s.head /\ t.size = s.size /\ t.nextTx = n
      /\ t.highTx = s.highTx /\ t.nextRx = s.nextRx /\ t.stored = s.stored
      /\ t.fin = s.fin /\ t.connected = s.connected
      /\ t.retx \in {r, "none"} /\ t.out = s.out /\ t.state = s.state
  <2>1. CASE done
    <3>1. t = [u EXCEPT !.retx = "none"]
      BY <1>1, <2>1
    <3> HIDE DEF t
    <3> QED
      BY <1>2, <1>4, <3>1 DEF Sockets
  <2>2. CASE ~done
    BY <1>1, <1>4, <2>2
  <2> QED
    BY <2>1, <2>2
<1> HIDE DEF t
<1>6. Numbered(h, t, B)
  BY <1>3, <1>5 DEF Fit, Numbered
<1>7. Due(t, H)
  BY <1>5 DEF Fit, Due, Finished
<1> QED
  BY <1>5, <1>6, <1>7 DEF Fit, Onward, t

LEMMA DoRetransmitFit ==
  ASSUME NEW h, NEW s, Sane(s), s.endPoint, s.connected,
         NEW B \in Nat, NEW H, Fit(h, s, B, H),
         NEW seq \in Nat, seq >= s.head, seq < s.highTx
  PROVE  LET t == DoRetransmit(s, seq)
         IN Fit(h, t, B, H) /\ Onward(s, t)
<1> DEFINE a == [s EXCEPT !.nextTx = seq]
           t == SendDataPacket(a, seq)
<1>1. DoRetransmit(s, seq) = t
  BY DEF DoRetransmit
<1>2. /\ Core(s) /\ s.head >= 1 /\ s.head \in Nat /\ s.size \in Nat
      /\ s.highTx \in Nat /\ s.highTx <= s.head + s.size
  BY CoreTypes DEF Sane, Core, End, Fit, Numbered
<1>3. seq >= 1 /\ seq <= Larger(s.highTx, B) /\ seq < End(s) /\ s.size # 0
  BY <1>2 DEF Larger, End
<1>4. Sane(a) /\ Sent(s, a)
  BY <1>2, NextTxFacts
<1>5. Fit(h, a, B, H)
  BY <1>2, <1>3, NextTxFit
<1>8. a.state = s.state /\ a.connected = s.connected
  BY <1>2 DEF Core, Sockets
<1> HIDE DEF a
<1>6. a.endPoint /\ a.connected /\ seq < End(a)
  BY <1>3, <1>4 DEF Sent, End
<1>7. /\ Fit(h, t, B, H) /\ t.connected = a.connected
      /\ t.state = a.state \/ t.state \notin Handshake \cup {"FIN_WAIT_2"}
  BY <1>3, <1>4, <1>5, <1>6, SendDataPacketFit
<1> HIDE DEF t
<1> QED
  BY <1>1, <1>3, <1>7, <1>8 DEF Onward

LEMMA ProcessAckFit ==
  ASSUME NEW h, NEW s, Sane(s), Timed(s), s.endPoint, s.connected,
         NEW B \in Nat, NEW H, Fit(h, s, B, H),
         NEW ack \in Nat, ack >= 1, ack <= B, NEW oldHead, NEW in
  PROVE  LET t == ProcessAck(s, ack, oldHead, in)
         IN Fit(h, t, B, H) /\ Onward(s, t)
<1> DEFINE again == in.fast \in s.head .. s.highTx - 1
           d == DoRetransmit(s, in.fast)
           a == IF again THEN d ELSE s
           reset == in.kind # "partial" \/ s.size = 0
           b == [a EXCEPT !.nextTx = ack]
           c == NewAck(a, ack, reset)
           t == ProcessAck(s, ack, oldHead, in)
<1>1. t \in {a, b, c}
  BY DEF ProcessAck
<1>2. Core(s)
  BY DEF Sane
<1>3. Sane(a) /\ Fit(h, a, B, H) /\ Onward(s, a)
  <2>1. CASE again
    <3>1. /\ in.fast \in Nat /\ in.fast < s.highTx /\ in.fast >= s.head
          /\ in.fast < End(s)
      BY <1>2, <2>1, CoreTypes DEF Core, End
    <3>2. Sane(d) /\ Fit(h, d, B, H) /\ Onward(s, d)
      BY <3>1, DoRetransmitFacts, DoRetransmitFit
    <3> HIDE DEF d
    <3> QED
      BY <2>1, <3>2
  <2>2. CASE ~again
    BY <2>2, OnwardReflexive
  <2> QED
    BY <2>1, <2>2
<1> HIDE DEF a
<1>4. /\ Core(a) /\ a.highTx \in Nat /\ reset \in BOOLEAN
      /\ ack <= Larger(a.highTx, B)
  BY <1>3, CoreTypes DEF Sane, Larger
<1> HIDE DEF reset
<1>5. Fit(h, b, B, H) /\ Onward(s, b)
  <2>1. Fit(h, b, B, H)
    BY <1>3, <1>4, NextTxFit
  <2>2. /\ b.state = a.state /\ b.size = a.size /\ b.highTx = a.highTx
        /\ b.connected = a.connected
    BY <1>4 DEF Core, Sockets
  <2> HIDE DEF b
  <2> QED
    BY <1>3, <2>1, <2>2 DEF Onward
<1>6. Fit(h, c, B, H) /\ Onward(s, c)
  <2>1. Fit(h, c, B, H) /\ Onward(a, c)
    BY <1>3, <1>4, NewAckFit
  <2> HIDE DEF c
  <2> QED
    BY <1>3, <2>1, OnwardTransitive
<1> HIDE DEF b, c, t
<1> QED
  BY <1>1, <1>3, <1>5, <1>6 DEF t

LEMMA ReceivedAckFit ==
  ASSUME NEW h, NEW s, Sane(s), Timed(s), s.endPoint, s.connected,
         s.state # "TIME_WAIT",
         NEW B \in Nat, NEW H \in Nat, Fit(h, s, B, H),
         NEW m, m.ack \in Nat, m.ack <= B, m.seq \in Nat, m.len \in {0, 1},
         Says(m, H, s.nextRx), NEW in, in.k \in Nat
  PROVE  LET t == ReceivedAck(s, m, in)
         IN Fit(h, t, B, H) /\ Onward(s, t)
<1> DEFINE size == IF m.ack >= End(s) THEN 0 ELSE End(s) - m.ack
           a == [s EXCEPT !.head = m.ack, !.size = size]
           u == ProcessAck(a, m.ack, s.head, in)
           x == ReceivedData(u, m, in)
           v == IF m.len > 0 THEN x ELSE u
           w == SendPendingData(v, in.lost, in.k)
           r == ReceivedData(s, m, in)
           old == m.ack < s.head
           t == ReceivedAck(s, m, in)
<1>1. t = IF old THEN (IF m.len > 0 THEN r ELSE s) ELSE w
  BY DEF ReceivedAck
<1>2. /\ Core(s) /\ s \in Sockets /\ s.head \in Nat /\ s.size \in Nat
      /\ s.highTx \in Nat /\ s.nextRx \in Nat /\ s.highTx <= End(s)
  BY CoreTypes DEF Sane, Core
<1>3. CASE old
  <2>1. CASE m.len > 0
    <3>1. Fit(h, r, B, H) /\ Onward(s, r)
      BY <2>1, ReceivedDataFit DEF Says
    <3>2. t = r
      BY <1>1, <1>3, <2>1
    <3> QED
      BY <3>1, <3>2
  <2>2. CASE ~(m.len > 0)
    BY <1>1, <1>3, <2>2, OnwardReflexive
  <2> QED
    BY <2>1, <2>2
<1>4. CASE ~old
  <2>1. /\ size \in Nat /\ s.highTx <= m.ack + size /\ s.head <= m.ack
        /\ (s.size = 0 => size = 0) /\ m.ack >= 1
    BY <1>2, <1>4 DEF End, Fit, Numbered
  <2> HIDE DEF size
  <2>2. /\ a \in Sockets /\ a.head = m.ack /\ a.size = size
        /\ a.nextTx = s.nextTx
        /\ a.nextRx = s.nextRx /\ a.stored = s.stored /\ a.fin = s.fin
        /\ a.connected = s.connected /\ a.endPoint = s.endPoint
        /\ a.highTx = s.highTx /\ a.retx = s.retx
        /\ a.closeNotified = s.closeNotified /\ a.told = s.told
        /\ a.out = s.out /\ a.state = s.state
    BY <1>2, <2>1 DEF Sockets
  <2> HIDE DEF a
  <2>3. a.endPoint /\ a.connected
    BY <2>2
  <2>4. Sane(a)
    BY <1>2, <2>1, <2>2, <2>3 DEF Sane, Core, End
  <2>5. Timed(a)
    BY <1>2, <2>1, <2>2 DEF Timed
  <2>6. Fit(h, a, B, H)
    <3>1. Numbered(h, a, B)
      BY <2>1, <2>2 DEF Fit, Numbered
    <3>2. Due(a, H)
      BY <2>2 DEF Fit, Due, Finished
    <3> QED
      BY <3>1, <3>2 DEF Fit
  <2>7. Onward(s, a)
    BY <2>1, <2>2 DEF Onward
  <2>8. Sane(u) /\ Timed(u) /\ Sent(a, u)
    BY <2>3, <2>4, <2>5, ProcessAckFacts
  <2>9. Fit(h, u, B, H) /\ Onward(a, u)
    BY <2>1, <2>3, <2>4, <2>5, <2>6, ProcessAckFit
  <2> HIDE DEF u
  <2>10. u.endPoint /\ u.connected /\ u.state # "TIME_WAIT"
    BY <2>2, <2>3, <2>8 DEF Sent
  <2>11. /\ Sane(v) /\ Timed(v) /\ v.connected
         /\ Fit(h, v, B, H) /\ Onward(u, v)
    <3>1. CASE m.len > 0
      <4>1. Taken(u, x) /\ Fit(h, x, B, H) /\ Onward(u, x)
        BY <2>8, <2>9, <2>10, <3>1, ReceivedDataFacts, ReceivedDataFit DEF Says
      <4>2. v = x
        BY <3>1
      <4> HIDE DEF v, x
      <4> QED
        BY <2>10, <4>1, <4>2 DEF Taken, Got
    <3>2. CASE ~(m.len > 0)
      BY <2>8, <2>9, <2>10, <3>2, OnwardReflexive
    <3> QED
      BY <3>1, <3>2
  <2> HIDE DEF v
  <2>12. Fit(h, w, B, H) /\ Onward(v, w)
    BY <2>11, SendPendingDataFit
  <2> HIDE DEF w
  <2>13. Onward(s, w)
    BY <2>7, <2>9, <2>11, <2>12, OnwardTransitive
  <2> QED
    BY <1>1, <1>4, <2>12, <2>13
<1> QED
  BY <1>3, <1>4

-----------------------------------------------------------------------------
(* The handlers of a segment, for one opener.                              *)

Early(s) == s.state \in Handshake => s.nextRx <= 1

\* What a segment m on the way to h, which expects n, may say.
Truth(h, m, n, B, H) ==
  /\ m.flags \in Acking => m.ack <= B
  /\ Says(m, H, n)
  /\ m.flags \in {"SYN", "SYNACK"} => m.seq = 0
  /\ m.flags = "SYN" => h \notin Active

\* t is where a handler leaves the socket s of h.
Lands(h, s, t, B, H) ==
  /\ Fit(h, t, B, H) /\ Placed(h, t, B) /\ Early(t)
  /\ s.nextRx <= t.nextRx /\ s.highTx <= t.highTx

LEMMA OnwardPlaced ==
  ASSUME NEW h, NEW s, NEW t, NEW B, Placed(h, s, B), Onward(s, t),
         s.connected \/ t.state \in {s.state, "CLOSED"}
  PROVE  Placed(h, t, B)
<1>1. CASE t.state = "CLOSED"
  BY <1>1 DEF Placed
<1>2. CASE t.state # "CLOSED" /\ t.state = s.state
  BY <1>2 DEF Placed, Onward
<1>3. CASE t.state # s.state /\ s.connected
  BY <1>3 DEF Placed, Onward, Handshake
<1> QED
  BY <1>1, <1>2, <1>3

LEMMA OnwardLands ==
  ASSUME NEW h, NEW s, s.connected, s.state \notin Handshake, NEW B, NEW H,
         NEW t, NEW m, Outcome(s, t, m), Placed(h, s, B), Fit(h, t, B, H),
         Onward(s, t)
  PROVE  Lands(h, s, t, B, H)
<1>1. Placed(h, t, B)
  BY OnwardPlaced
<1> QED
  BY <1>1 DEF Lands, Outcome, Early

LEMMA IdleLands ==
  ASSUME NEW h, NEW s, Core(s), NEW B, NEW H, Fit(h, s, B, H),
         Placed(h, s, B), Early(s)
  PROVE  Lands(h, s, s, B, H)
BY CoreTypes DEF Lands

LEMMA IllegalLands ==
  ASSUME NEW h, NEW s, Sane(s), NEW B \in Nat, NEW H, Fit(h, s, B, H), NEW m
  PROVE  Lands(h, s, Illegal(s, m), B, H)
<1> DEFINE r == SendRST(s)
           a == IF m.flags = "RST" THEN s ELSE r
           t == CloseAndNotify(a)
<1>1. Illegal(s, m) = t
  BY DEF Illegal
<1>2. Core(a) /\ Same(s, a) /\ Fit(h, a, B, H)
  <2>1. Sane(r) /\ Same(s, r) /\ Fit(h, r, B, H)
    BY SendRSTFacts, SendRSTFit
  <2> HIDE DEF r
  <2> QED
    BY <2>1 DEF Sane, Same
<1> HIDE DEF a
<1>3. Same(a, t) /\ t.state = "CLOSED" /\ Fit(h, t, B, H)
  BY <1>2, CloseAndNotifyFacts, CloseAndNotifyIsCalm, CalmFit
<1> HIDE DEF t
<1>4. s.nextRx <= t.nextRx /\ s.highTx <= t.highTx
  BY <1>2, <1>3, CoreTypes DEF Same, Sane
<1>5. Placed(h, t, B) /\ Early(t)
  BY <1>3 DEF Placed, Early, Handshake
<1> QED
  BY <1>1, <1>3, <1>4, <1>5 DEF Lands

LEMMA AckLands ==
  ASSUME NEW h, NEW s, Sane(s), Timed(s), s.connected, s.state \notin Handshake,
         NEW B \in Nat, NEW H, Fit(h, s, B, H), Placed(h, s, B), NEW m
  PROVE  Lands(h, s, SendEmptyPacket(s, "ACK"), B, H)
<1> DEFINE t == SendEmptyPacket(s, "ACK")
<1>1. Outcome(s, t, m)
  BY AckOutcome
<1>2. Fit(h, t, B, H) /\ Onward(s, t)
  BY SendPlainFit DEF Sane
<1> HIDE DEF t
<1>3. Lands(h, s, t, B, H)
  BY <1>1, <1>2, OnwardLands
<1> QED
  BY <1>3 DEF t

LEMMA ReceivedAckLands ==
  ASSUME NEW h, NEW s, Sane(s), Timed(s), s.endPoint, s.connected,
         s.state # "TIME_WAIT", s.state \notin Handshake,
         NEW B \in Nat, NEW H \in Nat, Fit(h, s, B, H), Placed(h, s, B),
         NEW m \in Segments, m.flags \in Acking, Truth(h, m, s.nextRx, B, H),
         NEW in, in.k \in Nat
  PROVE  LET t == ReceivedAck(s, m, in)
         IN Lands(h, s, t, B, H) /\ Onward(s, t)
<1> DEFINE t == ReceivedAck(s, m, in)
<1>1. /\ m.seq \in Nat /\ m.ack \in Nat /\ m.len \in {0, 1} /\ m.ack <= B
      /\ Says(m, H, s.nextRx)
  BY DEF Segments, Truth
<1>2. Outcome(s, t, m)
  BY <1>1, ReceivedAckFacts, AdvancedOutcome
<1>3. Fit(h, t, B, H) /\ Onward(s, t)
  BY <1>1, ReceivedAckFit
<1> HIDE DEF t
<1>4. Lands(h, s, t, B, H)
  BY <1>2, <1>3, OnwardLands
<1> QED
  BY <1>3, <1>4 DEF t

LEMMA ProcessEstablishedLands ==
  ASSUME NEW h, NEW s, Sane(s), Timed(s), s.endPoint, s.state = "ESTABLISHED",
         NEW B \in Nat, NEW H \in Nat, Fit(h, s, B, H), Placed(h, s, B),
         NEW m \in Segments, Truth(h, m, s.nextRx, B, H),
         NEW in, in.k \in Nat
  PROVE  Lands(h, s, ProcessEstablished(s, m, in), B, H)
<1> DEFINE a == SendEmptyPacket(s, "ACK")
           b == ReceivedAck(s, m, in)
           c == PeerClose(s, m, in)
           d == Illegal(s, m)
           t == ProcessEstablished(s, m, in)
<1>1. /\ Core(s) /\ Early(s) /\ s.state \notin Handshake /\ s.connected
      /\ s.state # "TIME_WAIT" /\ m.seq \in Nat /\ m.ack \in Nat
      /\ m.len \in {0, 1} /\ m.flags \in Flags
  BY DEF Sane, Early, Handshake, Segments, Placed
<1>2. Lands(h, s, s, B, H) /\ Lands(h, s, a, B, H) /\ Lands(h, s, d, B, H)
  BY <1>1, IdleLands, AckLands, IllegalLands
<1>3. CASE m.flags = "ACK"
  <2>1. Lands(h, s, b, B, H)
    BY <1>1, <1>3, ReceivedAckLands DEF Acking
  <2>2. t \in {s, a, b, d}
    BY <1>3 DEF ProcessEstablished
  <2> HIDE DEF a, b, d, t
  <2> QED
    BY <1>2, <2>1, <2>2 DEF t
<1>4. CASE m.flags = "FINACK"
  <2>1. t = c
    BY <1>4 DEF ProcessEstablished
  <2>2. Taken(s, c)
    BY <1>1, <1>4, PeerCloseFacts
  <2>3. Fit(h, c, B, H) /\ Onward(s, c)
    BY <1>1, <1>4, PeerCloseFit DEF Truth
  <2> HIDE DEF c, t
  <2>4. Outcome(s, c, m)
    BY <1>1, <2>2, TakenOutcome
  <2>5. Lands(h, s, c, B, H)
    BY <1>1, <2>3, <2>4, OnwardLands
  <2> QED
    BY <2>1, <2>5 DEF t
<1>5. CASE m.flags \notin Acking
  <2>1. t \in {s, d}
    BY <1>5 DEF ProcessEstablished, Acking
  <2> HIDE DEF a, d, t
  <2> QED
    BY <1>2, <2>1 DEF t
<1> QED
  BY <1>3, <1>4, <1>5 DEF Acking

LEMMA ConnectedFit ==
  ASSUME NEW h, NEW s, Sane(s), Fresh(s), s.endPoint, s.state \in Handshake,
         NEW B \in Nat, NEW H, Fit(h, s, B, H)
  PROVE  LET t == Connected(s)
         IN Fit(h, t, B, H)
<1> DEFINE one == s.nextTx + 1
           yes == TRUE
           t == [s EXCEPT !.state = "ESTABLISHED", !.connected = yes,
                          !.retx = "none", !.highTx = one, !.nextTx = one,
                          !.head = one]
<1>1. Connected(s) = t
  BY DEF Connected
<1>2. one = 1 /\ s.highTx = 0
  BY DEF Fresh
<1> HIDE DEF one, yes
<1>3. s \in Sockets /\ Core(s)
  BY DEF Sane, Core
<1>4. /\ t.head = 1 /\ t.nextTx = 1 /\ t.highTx = 1 /\ t.retx = "none"
      /\ t.nextRx = s.nextRx /\ t.stored = s.stored /\ t.fin = s.fin
      /\ t.out = s.out
  BY <1>2, <1>3 DEF Sockets
<1> HIDE DEF t
<1>5. \A y \in s.out : Backed(h, y, 1, B)
  <2> SUFFICES ASSUME NEW y \in s.out
               PROVE  Backed(h, y, 1, B)
    OBVIOUS
  <2>1. y.seq \in Nat /\ y.len \in {0, 1}
    BY <1>3 DEF Core, Sockets, Sendings
  <2>2. Backed(h, y, 0, B)
    BY <1>2 DEF Fit, Numbered
  <2> QED
    BY <2>1, <2>2, BackedStays
<1>6. Numbered(h, t, B)
  BY <1>4, <1>5 DEF Numbered, Larger
<1>7. Due(t, H)
  BY <1>4 DEF Fit, Due, Finished
<1> QED
  BY <1>1, <1>6, <1>7 DEF Fit

\* The first number expected is the one after the SYN.
LEMMA FirstFit ==
  ASSUME NEW h, NEW s \in Sockets, NEW B, NEW H \in Nat, Fit(h, s, B, H)
  PROVE  LET t == [s EXCEPT !.nextRx = 1]
         IN /\ Fit(h, t, B, H) /\ t.state = s.state
            /\ t.connected = s.connected
<1> DEFINE t == [s EXCEPT !.nextRx = 1]
<1>1. /\ t.head = s.head /\ t.nextRx = 1 /\ t.stored = s.stored
      /\ t.fin = s.fin /\ t.connected = s.connected /\ t.nextTx = s.nextTx
      /\ t.highTx = s.highTx /\ t.retx = s.retx /\ t.out = s.out
      /\ t.state = s.state
  BY DEF Sockets
<1> HIDE DEF t
<1>2. Numbered(h, t, B) /\ Due(t, H)
  BY <1>1 DEF Fit, Numbered, Due, Larger
<1> QED
  BY <1>1, <1>2 DEF Fit, t

LEMMA ProcessSynSentLands ==
  ASSUME NEW h, NEW s, Sane(s), Timed(s), Fresh(s), s.endPoint,
         s.state = "SYN_SENT",
         NEW B \in Nat, NEW H \in Nat, Fit(h, s, B, H), Placed(h, s, B),
         Early(s), NEW m \in Segments, Truth(h, m, s.nextRx, B, H),
         NEW in, in.k \in Nat
  PROVE  Lands(h, s, ProcessSynSent(s, m, in), B, H)
<1> DEFINE t == ProcessSynSent(s, m, in)
<1>1. /\ Core(s) /\ s.state \in Handshake /\ m.flags # "SYN"
      /\ s.highTx = 0 /\ s.nextRx <= 1 /\ s.nextRx \in Nat
  BY CoreTypes DEF Sane, Handshake, Truth, Placed, Fresh, Early
<1>2. CASE m.flags \in {"ACK", "FINACK", "RSTACK"}
  <2>1. t = s
    BY <1>2 DEF ProcessSynSent
  <2> QED
    BY <1>1, <2>1, IdleLands
<1>3. CASE m.flags = "SYNACK" /\ m.ack = s.nextTx + 1
  <2> DEFINE c == Connected(s)
             n == m.seq + 1
             a == [c EXCEPT !.nextRx = n]
             e == SendEmptyPacket(a, "ACK")
             p == SendPendingData(e, in.lost, in.k)
             r == Told(p, "connected")
  <2>1. t = r
    BY <1>3 DEF ProcessSynSent
  <2>2. /\ Sane(c) /\ Timed(c) /\ c.head = 1 /\ c.connected
        /\ c.endPoint /\ c.state = "ESTABLISHED" /\ c \in Sockets
        /\ \A x \in c.out : x.flags \notin Acking
    BY <1>1, ConnectedFacts DEF Sane, Core
  <2>3. Fit(h, c, B, H)
    BY <1>1, ConnectedFit
  <2> HIDE DEF c
  <2>4. n = 1
    BY <1>3 DEF Truth
  <2> HIDE DEF n
  <2>5. Sane(a) /\ Timed(a) /\ a.state = c.state /\ a.nextRx = 1
    BY <2>2, <2>4, NextRxFacts
  <2>6. Fit(h, a, B, H) /\ a.connected = c.connected
    BY <2>2, <2>3, <2>4, FirstFit
  <2> HIDE DEF a
  <2>7. Placed(h, a, B)
    BY <2>2, <2>5, <2>6 DEF Placed
  <2>8. /\ Sane(e) /\ Timed(e) /\ Same(a, e) /\ e.state = a.state
        /\ Fit(h, e, B, H) /\ Onward(a, e)
    BY <2>5, <2>6, SendEmptyPacketFacts, SendPlainFit DEF Flags, Sane
  <2> HIDE DEF e
  <2>9. e.connected /\ e.nextRx = 1
    BY <2>2, <2>5, <2>6, <2>8 DEF Same
  <2>10. /\ Sane(p) /\ Timed(p) /\ Sent(e, p)
         /\ Fit(h, p, B, H) /\ Onward(e, p)
    BY <2>8, <2>9, SendPendingDataFacts, SendPendingDataFit
  <2> HIDE DEF p
  <2>11. p \in Sockets /\ p.highTx \in Nat /\ p.nextRx = 1
    BY <2>9, <2>10, CoreTypes DEF Sane, Core, Sent
  <2>12. Calm(p, r) /\ r.state = p.state
    BY <2>11, ToldIsCalm
  <2> HIDE DEF r
  <2>13. Fit(h, r, B, H) /\ Onward(p, r)
    BY <2>10, <2>12, CalmFit DEF Onward, Calm, Same
  <2>14. Onward(a, r)
    BY <2>8, <2>10, <2>13, OnwardTransitive
  <2>15. Placed(h, r, B)
    BY <2>2, <2>6, <2>7, <2>14, OnwardPlaced
  <2>16. Early(r)
    BY <2>11, <2>12 DEF Early, Calm, Same
  <2>17. s.nextRx <= r.nextRx /\ s.highTx <= r.highTx
    BY <1>1, <2>11, <2>12 DEF Calm, Same
  <2> HIDE DEF t
  <2> QED
    BY <2>1, <2>13, <2>15, <2>16, <2>17 DEF Lands, t
<1>4. CASE /\ m.flags \notin {"ACK", "FINACK", "RSTACK", "SYN"}
           /\ ~(m.flags = "SYNACK" /\ m.ack = s.nextTx + 1)
  <2>1. t = Illegal(s, m)
    BY <1>4 DEF ProcessSynSent
  <2> QED
    BY <2>1, IllegalLands
<1> QED
  BY <1>1, <1>2, <1>3, <1>4

LEMMA ProcessSynRcvdLands ==
  ASSUME NEW h, NEW s, Sane(s), Timed(s), Fresh(s), s.endPoint,
         s.state = "SYN_RCVD",
         NEW B \in Nat, NEW H \in Nat, Fit(h, s, B, H), Placed(h, s, B),
         Early(s), NEW m \in Segments, Truth(h, m, s.nextRx, B, H),
         NEW in, in.k \in Nat
  PROVE  Lands(h, s, ProcessSynRcvd(s, m, in), B, H)
<1> DEFINE c == Connected(s)
           k == Told(c, "accepted")
           t == ProcessSynRcvd(s, m, in)
<1>1. /\ Core(s) /\ s.state \in Handshake /\ s \in Sockets
      /\ m.seq \in Nat /\ m.ack \in Nat /\ m.len \in {0, 1}
      /\ m.flags \in Flags /\ s.nextRx = 1 /\ s.highTx = 0 /\ s.nextTx = 0
      /\ ~s.connected
  <2>1. s.nextRx >= 1 /\ s.nextRx <= 1 /\ s.nextRx \in Nat
    BY CoreTypes DEF Sane, Handshake, Fresh, Early
  <2> QED
    BY <2>1 DEF Sane, Core, Handshake, Segments, Fresh
<1>2. /\ Sane(c) /\ Timed(c) /\ c.head = 1 /\ c.highTx = 1
      /\ c.endPoint /\ c.state = "ESTABLISHED" /\ c.nextRx = s.nextRx
      /\ c.stored = {} /\ c.fin = 0 /\ c.connected /\ c \in Sockets
      /\ Core(c)
  BY <1>1, ConnectedFacts DEF Sane, Core
<1>3. Fit(h, c, B, H)
  BY <1>1, ConnectedFit
<1> HIDE DEF c
<1>4. /\ Sane(k) /\ Timed(k) /\ Same(c, k) /\ k.state = c.state
      /\ k.endPoint = c.endPoint /\ Fit(h, k, B, H)
  <2>1. "accepted" \in Ends \cup {"connected", "accepted"}
    OBVIOUS
  <2>2. Calm(c, k)
    BY <1>2, ToldIsCalm
  <2>3. Fit(h, k, B, H)
    BY <1>3, <2>2, CalmFit
  <2> QED
    BY <1>2, <2>1, <2>3, ToldFacts
<1> HIDE DEF k
<1>5. /\ k.endPoint /\ k.state = "ESTABLISHED" /\ k.connected
      /\ k.nextRx = 1 /\ k.stored = {} /\ k.fin = 0 /\ k.highTx = 1
      /\ k.state \notin Handshake /\ k.state # "TIME_WAIT"
      /\ Placed(h, k, B)
  BY <1>1, <1>2, <1>4 DEF Same, Handshake, Placed
<1>6. CASE m.flags = "ACK" /\ m.ack = s.nextTx + 1
  <2> DEFINE a == ReceivedAck(k, m, in)
  <2>1. t = a
    BY <1>6 DEF ProcessSynRcvd, k, c
  <2>2. Truth(h, m, k.nextRx, B, H) /\ m.flags \in Acking
    BY <1>1, <1>5, <1>6 DEF Acking
  <2>3. Advanced(k, a, m) /\ Lands(h, k, a, B, H)
    BY <1>1, <1>4, <1>5, <2>2, ReceivedAckFacts, ReceivedAckLands
  <2> HIDE DEF a, t
  <2>4. s.nextRx <= a.nextRx /\ s.highTx <= a.highTx
    <3>1. a.highTx \in Nat
      BY <2>3, CoreTypes DEF Advanced, Sane
    <3> QED
      BY <1>1, <1>5, <2>3, <3>1 DEF Lands
  <2> QED
    BY <2>1, <2>3, <2>4 DEF Lands, t
<1>7. CASE m.flags = "SYN"
  <2> DEFINE n == m.seq + 1
             a == [s EXCEPT !.nextRx = n]
             e == SendEmptyPacket(a, "SYNACK")
  <2>1. t = e
    BY <1>7 DEF ProcessSynRcvd
  <2>2. n = 1 /\ \A x \in s.out : x.flags \notin Acking
    BY <1>1, <1>7 DEF Fresh, Truth
  <2> HIDE DEF n
  <2>3. /\ Sane(a) /\ Fresh(a) /\ a.state = s.state /\ a.nextRx = 1
        /\ a.highTx = s.highTx
    BY <2>2, NextRxFacts
  <2>4. Fit(h, a, B, H) /\ a.connected = s.connected
    BY <1>1, <2>2, FirstFit
  <2>5. a.nextTx = 0 /\ ~a.connected /\ a.state = "SYN_RCVD"
    BY <1>1, <2>3, <2>4 DEF Fresh
  <2> HIDE DEF a
  <2>6. /\ Sane(e) /\ Same(a, e) /\ e.state \in {a.state, "CLOSED"}
        /\ Fit(h, e, B, H)
    BY <2>3, <2>4, <2>5, SendEmptyPacketFacts, SendEmptyPacketFit
       DEF Flags, Sane, Handshake
  <2> HIDE DEF e, t
  <2>7. Placed(h, e, B)
    BY <2>5, <2>6 DEF Placed, Handshake
  <2>8. Early(e) /\ s.nextRx <= e.nextRx /\ s.highTx <= e.highTx
    BY <1>1, <2>3, <2>6 DEF Early, Same
  <2> QED
    BY <2>1, <2>6, <2>7, <2>8 DEF Lands, t
<1>8. CASE m.flags = "FINACK" /\ m.seq = s.nextRx
  <2> DEFINE a == [k EXCEPT !.state = "SYN_RCVD"]
             p == PeerClose(a, m, in)
  <2>1. t = p
    BY <1>8 DEF ProcessSynRcvd, k, c
  <2>2. "SYN_RCVD" \in States \ {"CLOSED"}
    BY DEF States
  <2>3. /\ Sane(a) /\ Timed(a) /\ Same(k, a) /\ a.state = "SYN_RCVD"
        /\ a.endPoint = k.endPoint
    BY <1>4, <1>5, <2>2, StateFacts
  <2>4. Fit(h, a, B, H)
    <3>1. Calm(k, a)
      BY <1>4 DEF Sane, Core, Sockets, Calm, Same
    <3> QED
      BY <1>4, <3>1, CalmFit
  <2> HIDE DEF a
  <2>5. /\ a.endPoint /\ a.state # "TIME_WAIT" /\ a.stored = {} /\ a.fin = 0
        /\ a.nextRx = s.nextRx /\ a.connected /\ a.nextRx >= 1
        /\ a.highTx = 1
    BY <1>1, <1>5, <2>3 DEF Same
  <2>6. Taken(a, p) /\ p.state \in {"CLOSE_WAIT", "LAST_ACK"}
    BY <1>1, <1>8, <2>3, <2>5, PeerCloseFacts
  <2>7. Fit(h, p, B, H)
    BY <1>1, <1>8, <2>3, <2>4, <2>5, PeerCloseFit DEF Truth
  <2> HIDE DEF p, t
  <2>8. Placed(h, p, B) /\ Early(p)
    BY <2>5, <2>6 DEF Taken, Got, Placed, Early, Handshake
  <2>9. s.nextRx <= p.nextRx /\ s.highTx <= p.highTx
    BY <1>1, <2>5, <2>6 DEF Taken, Got
  <2> QED
    BY <2>1, <2>7, <2>8, <2>9 DEF Lands, t
<1>9. CASE m.flags = "FINACK" /\ m.seq # s.nextRx
  <2>1. t = s
    BY <1>9 DEF ProcessSynRcvd
  <2> QED
    BY <1>1, <2>1, IdleLands
<1>10. CASE /\ ~(m.flags = "ACK" /\ m.ack = s.nextTx + 1)
            /\ m.flags \notin {"SYN", "FINACK"}
  <2>1. t = Illegal(s, m)
    BY <1>10 DEF ProcessSynRcvd
  <2> QED
    BY <2>1, IllegalLands
<1> QED
  BY <1>6, <1>7, <1>8, <1>9, <1>10

LEMMA AnswerFinFit ==
  ASSUME NEW h, NEW s, Sane(s), s.endPoint \/ s.state \notin
           {"FIN_WAIT_1", "FIN_WAIT_2"},
         NEW B \in Nat, NEW H, Fit(h, s, B, H), NEW m
  PROVE  LET t == AnswerFin(s, m)
         IN Fit(h, t, B, H) /\ Onward(s, t)
<1> DEFINE w == TimeWait(s)
           c == [s EXCEPT !.state = "CLOSING"]
           t == AnswerFin(s, m)
<1>1. Core(s) /\ s \in Sockets
  BY DEF Sane, Core
<1>2. CASE s.state \in {"FIN_WAIT_1", "FIN_WAIT_2"} /\ Finished(s)
  <2>1. "CLOSING" \in States \ {"CLOSED"} /\ s.endPoint
    BY <1>2 DEF States
  <2>2. Core(c) /\ Fit(h, c, B, H) /\ Onward(s, c)
    <3>1. Sane(c)
      BY <2>1, StateFacts
    <3>2. Fit(h, c, B, H) /\ Onward(s, c)
      BY <1>1, StateFit DEF Handshake
    <3> QED
      BY <3>1, <3>2 DEF Sane
  <2>3. Core(w) /\ Fit(h, w, B, H) /\ Onward(s, w)
    BY <1>1, <2>1, TimeWaitFacts, TimeWaitIsCalm, CalmFit DEF Sane
  <2>4. t \in {SendEmptyPacket(w, "ACK"), SendEmptyPacket(c, "ACK")}
    BY <1>2 DEF AnswerFin
  <2> HIDE DEF w, c, t
  <2>5. \A x \in {w, c} :
          LET e == SendEmptyPacket(x, "ACK")
          IN Fit(h, e, B, H) /\ Onward(s, e)
    <3>1. TAKE x \in {w, c}
    <3> DEFINE e == SendEmptyPacket(x, "ACK")
    <3>2. Core(x) /\ Fit(h, x, B, H) /\ Onward(s, x)
      BY <2>2, <2>3, <3>1
    <3>3. Fit(h, e, B, H) /\ Onward(x, e)
      BY <3>2, SendPlainFit
    <3> HIDE DEF e
    <3>4. Onward(s, e)
      BY <3>2, <3>3, OnwardTransitive
    <3> QED
      BY <3>3, <3>4 DEF e
  <2> QED
    BY <2>4, <2>5 DEF t
<1>3. CASE ~(s.state \in {"FIN_WAIT_1", "FIN_WAIT_2"} /\ Finished(s))
  <2>1. t = s
    BY <1>3 DEF AnswerFin
  <2> HIDE DEF t
  <2> QED
    BY <2>1, OnwardReflexive DEF t
<1> QED
  BY <1>2, <1>3

LEMMA OutcomeLands ==
  ASSUME NEW h, NEW s, s.state \notin Handshake, NEW B, NEW H,
         NEW t, NEW m, Outcome(s, t, m), Placed(h, t, B), Fit(h, t, B, H)
  PROVE  Lands(h, s, t, B, H)
BY DEF Lands, Outcome, Early

LEMMA ProcessWaitLands ==
  ASSUME NEW h, NEW s, Sane(s), Timed(s), Fresh(s), s.endPoint,
         s.state \in {"FIN_WAIT_1", "FIN_WAIT_2", "CLOSE_WAIT"},
         NEW B \in Nat, NEW H \in Nat, Fit(h, s, B, H), Placed(h, s, B),
         NEW m \in Segments, Truth(h, m, s.nextRx, B, H),
         NEW in, in.k \in Nat
  PROVE  Lands(h, s, ProcessWait(s, m, in), B, H)
<1> DEFINE a == ReceivedAck(s, m, in)
           t == ProcessWait(s, m, in)
<1>1. /\ Core(s) /\ s.state \notin Handshake /\ s.state # "TIME_WAIT"
      /\ m.seq \in Nat /\ m.ack \in Nat /\ m.len \in {0, 1} /\ s.connected
      /\ Early(s) /\ s.nextRx \in Nat
  BY CoreTypes DEF Sane, Handshake, Segments, Placed, Early
<1>2. Outcome(s, t, m)
  BY ProcessWaitFacts
<1>3. CASE m.flags \in Acking
  <2>1. /\ Advanced(s, a, m) /\ Lands(h, s, a, B, H) /\ Onward(s, a)
        /\ m.ack <= B
    BY <1>1, <1>3, ReceivedAckFacts, ReceivedAckLands DEF Truth
  <2> HIDE DEF a
  <2>2. /\ Sane(a) /\ Timed(a) /\ Core(a) /\ a \in Sockets /\ a.connected
        /\ a.state \in {"FIN_WAIT_1", "FIN_WAIT_2"} => a.endPoint
        /\ Fit(h, a, B, H) /\ Placed(h, a, B) /\ s.nextRx <= a.nextRx
        /\ a.nextRx \in Nat /\ a.highTx \in Nat
    BY <1>1, <2>1, CoreTypes DEF Advanced, Lands, Sane, Core
  <2>3. CASE m.flags = "ACK"
    <3> DEFINE x == [a EXCEPT !.state = "FIN_WAIT_2"]
               u == IF /\ a.state = "FIN_WAIT_1" /\ a.size = 0
                       /\ m.ack = a.highTx + 1
                    THEN x ELSE a
               w == AnswerFin(u, m)
    <3>1. t = w
      BY <2>3 DEF ProcessWait, a
    <3>2. /\ Sane(u) /\ Fit(h, u, B, H) /\ Placed(h, u, B) /\ u.connected
          /\ u.endPoint \/ u.state \notin {"FIN_WAIT_1", "FIN_WAIT_2"}
      <4>1. CASE u = a
        BY <2>2, <4>1
      <4>2. CASE u # a
        <5>1. /\ u = x /\ a.state = "FIN_WAIT_1" /\ a.size = 0
              /\ m.ack = a.highTx + 1
          BY <4>2
        <5>2. "FIN_WAIT_2" \in States \ {"CLOSED"}
          BY DEF States
        <5>3. /\ Sane(x) /\ Same(a, x) /\ x.state = "FIN_WAIT_2"
              /\ x.endPoint
          BY <2>2, <5>1, <5>2, StateFacts
        <5>4. Calm(a, x)
          BY <2>2 DEF Sockets, Calm, Same
        <5> HIDE DEF x, u
        <5>5. Fit(h, x, B, H)
          BY <2>2, <5>4, CalmFit
        <5>6. Placed(h, x, B)
          BY <2>1, <2>2, <5>1, <5>3 DEF Placed, Same
        <5> QED
          BY <2>2, <5>1, <5>3, <5>5, <5>6 DEF Same
      <4> QED
        BY <4>1, <4>2
    <3> HIDE DEF u
    <3>3. Fit(h, w, B, H) /\ Onward(u, w)
      BY <3>2, AnswerFinFit
    <3> HIDE DEF w, t
    <3>4. Placed(h, w, B)
      BY <3>2, <3>3, OnwardPlaced
    <3>5. Lands(h, s, t, B, H)
      BY <1>1, <1>2, <3>1, <3>3, <3>4, OutcomeLands DEF t
    <3> QED
      BY <3>5 DEF t
  <2>4. CASE m.flags = "FINACK"
    <3> DEFINE u == SetFin(a, m.seq)
               w == AnswerFin(u, m)
    <3>1. t = w
      BY <2>4 DEF ProcessWait, a
    <3>2. m.seq >= 1 /\ m.seq <= Larger(H, a.nextRx)
      BY <1>1, <2>2, <2>4 DEF Truth, Says, Larger
    <3>3. /\ Sane(u) /\ u.state = a.state /\ u.endPoint = a.endPoint
          /\ Fit(h, u, B, H) /\ Onward(a, u)
      BY <1>1, <2>2, <3>2, SetFinFacts, SetFinFit
    <3> HIDE DEF u
    <3>4. Fit(h, w, B, H) /\ Onward(u, w)
      BY <2>2, <3>3, AnswerFinFit
    <3> HIDE DEF w, t
    <3>5. Placed(h, w, B)
      <4>1. Onward(a, w)
        BY <3>3, <3>4, OnwardTransitive
      <4> QED
        BY <2>2, <4>1, OnwardPlaced
    <3>6. Lands(h, s, t, B, H)
      BY <1>1, <1>2, <3>1, <3>4, <3>5, OutcomeLands DEF t
    <3> QED
      BY <3>6 DEF t
  <2> QED
    BY <1>3, <2>3, <2>4 DEF Acking
<1>4. CASE m.flags \notin Acking
  <2>1. t \in {s, Illegal(s, m)}
    BY <1>4 DEF ProcessWait, Acking
  <2> QED
    BY <1>1, <2>1, IdleLands, IllegalLands
<1> QED
  BY <1>3, <1>4

LEMMA CloseLands ==
  ASSUME NEW h, NEW s, Core(s), NEW B, NEW H, Fit(h, s, B, H)
  PROVE  Lands(h, s, CloseAndNotify(s), B, H)
<1> DEFINE t == CloseAndNotify(s)
<1>1. Same(s, t) /\ t.state = "CLOSED" /\ Fit(h, t, B, H)
  BY CloseAndNotifyFacts, CloseAndNotifyIsCalm, CalmFit
<1> HIDE DEF t
<1>2. s.nextRx <= t.nextRx /\ s.highTx <= t.highTx
  BY <1>1, CoreTypes DEF Same
<1>3. Placed(h, t, B) /\ Early(t)
  BY <1>1 DEF Placed, Early, Handshake
<1>4. Lands(h, s, t, B, H)
  BY <1>1, <1>2, <1>3 DEF Lands
<1> QED
  BY <1>4 DEF t

LEMMA ProcessClosingLands ==
  ASSUME NEW h, NEW s, Sane(s), Timed(s), s.endPoint, s.state = "CLOSING",
         NEW B \in Nat, NEW H \in Nat, Fit(h, s, B, H), Placed(h, s, B),
         NEW m \in Segments
  PROVE  Lands(h, s, ProcessClosing(s, m), B, H)
<1> DEFINE w == TimeWait(s)
           e == SendEmptyPacket(s, "ACK")
           c == CloseAndNotify(e)
           d == Illegal(s, m)
           t == ProcessClosing(s, m)
<1>1. t \in {s, w, c, d}
  BY DEF ProcessClosing
<1>2. Core(s) /\ Early(s) /\ s.connected
  BY DEF Sane, Early, Handshake, Placed
<1>3. Lands(h, s, s, B, H) /\ Lands(h, s, d, B, H)
  BY <1>2, IdleLands, IllegalLands
<1>4. Lands(h, s, w, B, H)
  <2>1. Same(s, w) /\ w.state = "TIME_WAIT"
    BY TimeWaitFacts
  <2>2. Fit(h, w, B, H) /\ Onward(s, w)
    BY <1>2, TimeWaitIsCalm, CalmFit
  <2> HIDE DEF w
  <2>3. Placed(h, w, B)
    BY <1>2, <2>2, OnwardPlaced
  <2>4. s.nextRx <= w.nextRx /\ s.highTx <= w.highTx
    BY <1>2, <2>1, CoreTypes DEF Same
  <2> QED
    BY <2>1, <2>2, <2>3, <2>4 DEF Lands, Early, Handshake
<1>5. Lands(h, s, c, B, H)
  <2>1. Core(e) /\ Same(s, e) /\ Fit(h, e, B, H)
    BY <1>2, SendEmptyPacketFacts, SendPlainFit DEF Flags, Sane
  <2> HIDE DEF e
  <2>2. Lands(h, e, c, B, H)
    BY <2>1, CloseLands
  <2> HIDE DEF c
  <2> QED
    BY <2>1, <2>2 DEF Lands, Same
<1> HIDE DEF w, c, d, t
<1>6. Lands(h, s, t, B, H)
  BY <1>1, <1>3, <1>4, <1>5
<1> QED
  BY <1>6 DEF t

LEMMA ProcessLastAckLands ==
  ASSUME NEW h, NEW s, Sane(s), Timed(s), s.endPoint, s.state = "LAST_ACK",
         NEW B \in Nat, NEW H \in Nat, Fit(h, s, B, H), Placed(h, s, B),
         NEW m \in Segments
  PROVE  Lands(h, s, ProcessLastAck(s, m), B, H)
<1>1. Core(s) /\ Early(s)
  BY DEF Sane, Early, Handshake
<1>2. Lands(h, s, CloseAndNotify(s), B, H)
  BY <1>1, CloseLands
<1>3. Lands(h, s, s, B, H) /\ Lands(h, s, Illegal(s, m), B, H)
  BY <1>1, IdleLands, IllegalLands
<1> QED
  BY <1>2, <1>3 DEF ProcessLastAck

\* Whatever a segment does to its socket.
LEMMA DoForwardUpLands ==
  ASSUME NEW h, NEW s, Sane(s), Timed(s), Fresh(s), s.endPoint,
         NEW B \in Nat, NEW H \in Nat, Fit(h, s, B, H), Placed(h, s, B),
         Early(s), NEW m \in Segments, Truth(h, m, s.nextRx, B, H),
         NEW in, in.k \in Nat
  PROVE  Lands(h, s, DoForwardUp(s, m, in), B, H)
<1> DEFINE t == DoForwardUp(s, m, in)
<1>1. CASE m.len > 0 /\ OutOfRange(s, m)
  <2>1. s.state \notin Handshake
    BY <1>1 DEF OutOfRange, Handshake
  <2>2. t = SendEmptyPacket(s, "ACK")
    BY <1>1 DEF DoForwardUp
  <2>3. s.connected
    BY <2>1 DEF Sane, Placed
  <2> QED
    BY <2>1, <2>2, <2>3, AckLands
<1>2. CASE ~(m.len > 0 /\ OutOfRange(s, m))
  <2>1. CASE s.state = "ESTABLISHED"
    <3>1. t = ProcessEstablished(s, m, in)
      BY <1>2, <2>1 DEF DoForwardUp
    <3> QED
      BY <2>1, <3>1, ProcessEstablishedLands
  <2>2. CASE s.state = "SYN_SENT"
    <3>1. t = ProcessSynSent(s, m, in)
      BY <1>2, <2>2 DEF DoForwardUp
    <3> QED
      BY <2>2, <3>1, ProcessSynSentLands
  <2>3. CASE s.state = "SYN_RCVD"
    <3>1. t = ProcessSynRcvd(s, m, in)
      BY <1>2, <2>3 DEF DoForwardUp
    <3> QED
      BY <2>3, <3>1, ProcessSynRcvdLands
  <2>4. CASE s.state \in {"FIN_WAIT_1", "FIN_WAIT_2", "CLOSE_WAIT"}
    <3>1. t = ProcessWait(s, m, in)
      BY <1>2, <2>4 DEF DoForwardUp
    <3> QED
      BY <2>4, <3>1, ProcessWaitLands
  <2>5. CASE s.state = "CLOSING"
    <3>1. t = ProcessClosing(s, m)
      BY <1>2, <2>5 DEF DoForwardUp
    <3> QED
      BY <2>5, <3>1, ProcessClosingLands
  <2>6. CASE s.state = "LAST_ACK"
    <3>1. t = ProcessLastAck(s, m)
      BY <1>2, <2>6 DEF DoForwardUp
    <3> QED
      BY <2>6, <3>1, ProcessLastAckLands
  <2>7. CASE s.state \in {"CLOSED", "TIME_WAIT"}
    <3>1. t = s
      BY <1>2, <2>7 DEF DoForwardUp
    <3> QED
      BY <3>1, IdleLands DEF Sane
  <2> QED
    BY <2>1, <2>2, <2>3, <2>4, <2>5, <2>6, <2>7, CoreTypes DEF Sane, States
<1> QED
  BY <1>1, <1>2
-----------------------------------------------------------------------------
(* The application and the events, for one opener.                         *)

LEMMA ClearedFit ==
  ASSUME NEW h, NEW s, NEW q, Cleared(s, q), NEW B, NEW H, Fit(h, s, B, H)
  PROVE  Fit(h, q, B, H)
<1>1. Calm(s, q)
  BY DEF Cleared, Calm
<1> QED
  BY <1>1, CalmFit

\* A handler that runs on q, the socket s without the event that started it.
LEMMA ClearedLands ==
  ASSUME NEW h, NEW s, Core(s), NEW B, NEW H, Placed(h, s, B), Early(s),
         NEW q, Cleared(s, q), NEW t, Kept(s, t), Fit(h, t, B, H),
         Onward(q, t), s.connected \/ t.state \in {s.state, "CLOSED"}
  PROVE  Lands(h, s, t, B, H)
<1>1. Onward(s, t)
  BY DEF Onward, Cleared, Same
<1>2. Placed(h, t, B)
  BY <1>1, OnwardPlaced
<1>3. s.nextRx <= t.nextRx /\ s.highTx <= t.highTx
  BY CoreTypes DEF Kept
<1>4. Early(t)
  BY DEF Kept, Early
<1> QED
  BY <1>2, <1>3, <1>4 DEF Lands

LEMMA PendingLands ==
  ASSUME NEW h, NEW s, Sane(s), Timed(s), Fresh(s), s.pending,
         NEW B \in Nat, NEW H, Fit(h, s, B, H), Placed(h, s, B), Early(s),
         NEW k \in Nat
  PROVE  Lands(h, s, SendPendingData([s EXCEPT !.pending = FALSE], 0, k), B, H)
<1> DEFINE no == FALSE
           q == [s EXCEPT !.pending = no]
           t == SendPendingData(q, 0, k)
<1>1. /\ s \in Sockets /\ Core(s) /\ s.state \notin Handshake
      /\ no \in BOOLEAN /\ ~no
  BY DEF Sane, Core, Fresh
<1>2. Kept(s, t)
  BY PendingFacts
<1> HIDE DEF no
<1>3. q \in Sockets
  BY <1>1 DEF Sockets
<1>4. Cleared(s, q) /\ q.retx = s.retx
  BY <1>1, <1>3 DEF Cleared, Same, Sockets
<1> HIDE DEF q
<1>5. Sane(q) /\ Timed(q) /\ Fit(h, q, B, H)
  BY <1>4, ClearedFacts, ClearedFit
<1>6. s.endPoint => s.connected
  BY <1>1 DEF Sane, Placed
<1>7. Fit(h, t, B, H) /\ Onward(q, t)
  BY <1>4, <1>5, <1>6, SendPendingDataFit DEF Cleared, Same
<1>8. ~s.endPoint => t = q
  BY <1>4 DEF SendPendingData, Cleared
<1> HIDE DEF t
<1>9. Lands(h, s, t, B, H)
  BY <1>1, <1>2, <1>4, <1>6, <1>7, <1>8, ClearedLands DEF Cleared
<1> QED
  BY <1>9 DEF t, q, no

LEMMA RetransmitEmptyLands ==
  ASSUME NEW h, NEW s, Sane(s), Timed(s), Fresh(s),
         s.retx \in {"SYN", "SYNACK", "FINACK"},
         NEW B \in Nat, NEW H, Fit(h, s, B, H), Placed(h, s, B), Early(s)
  PROVE  Lands(h, s, SendEmptyPacket([s EXCEPT !.retx = "none"], s.retx), B, H)
<1> DEFINE q == [s EXCEPT !.retx = "none"]
           f == s.retx
           t == SendEmptyPacket(q, f)
<1>1. /\ s \in Sockets /\ Core(s) /\ f \in Flags /\ s.endPoint
      /\ s.state # "CLOSED"
  BY DEF Sane, Core, Flags, Quiet
<1>2. Kept(s, t)
  BY RetransmitEmptyFacts
<1>3. q \in Sockets
  BY <1>1 DEF Sockets, RetxEvents
<1>4. Cleared(s, q)
  BY <1>1, <1>3 DEF Cleared, Same, Sockets
<1> HIDE DEF q
<1>5. Sane(q) /\ Core(q) /\ Fit(h, q, B, H)
  BY <1>4, ClearedFacts, ClearedFit DEF Sane
<1>6. f = "FINACK" => s.connected
  BY <1>1 DEF Fresh, Placed
<1>7. f \in {"SYN", "SYNACK"} =>
        ~s.connected /\ s.nextTx = 0 /\ s.state \in Handshake
  BY <1>1 DEF Fit, Numbered, Placed, Fresh
<1>8. f = "SYN" => h \in Active
  BY DEF Fit, Numbered
<1> HIDE DEF f
<1>9. Fit(h, t, B, H) /\ Onward(q, t)
  BY <1>1, <1>4, <1>5, <1>6, <1>7, <1>8, SendEmptyPacketFit DEF Cleared, Same
<1>10. t.state \in {s.state, "CLOSED"}
  BY <1>1, <1>4, <1>5, SendEmptyPacketFacts DEF Cleared
<1> HIDE DEF t
<1>11. Lands(h, s, t, B, H)
  BY <1>1, <1>2, <1>4, <1>9, <1>10, ClearedLands
<1> QED
  BY <1>11 DEF t, f, q

LEMMA DelAckLands ==
  ASSUME NEW h, NEW s, Sane(s), Timed(s), Fresh(s), s.delAck,
         NEW B \in Nat, NEW H, Fit(h, s, B, H), Placed(h, s, B), Early(s)
  PROVE  Lands(h, s, SendEmptyPacket([s EXCEPT !.delAck = FALSE], "ACK"), B, H)
<1> DEFINE no == FALSE
           q == [s EXCEPT !.delAck = no]
           t == SendEmptyPacket(q, "ACK")
<1>1. s \in Sockets /\ Core(s) /\ no \in BOOLEAN /\ ~no
  BY DEF Sane, Core
<1>2. Kept(s, t)
  BY DelAckTimeoutFacts
<1> HIDE DEF no
<1>3. q \in Sockets
  BY <1>1 DEF Sockets
<1>4. Cleared(s, q)
  BY <1>1, <1>3 DEF Cleared, Same, Sockets
<1> HIDE DEF q
<1>5. Sane(q) /\ Core(q) /\ Fit(h, q, B, H)
  BY <1>4, ClearedFacts, ClearedFit DEF Sane
<1>6. Fit(h, t, B, H) /\ Onward(q, t)
  BY <1>5, SendPlainFit
<1>7. t.state \in {s.state, "CLOSED"}
  BY <1>4, <1>5, SendEmptyPacketFacts DEF Cleared, Flags
<1> HIDE DEF t
<1>8. Lands(h, s, t, B, H)
  BY <1>1, <1>2, <1>4, <1>6, <1>7, ClearedLands
<1> QED
  BY <1>8 DEF t, q, no

LEMMA TimeWaitExpiresLands ==
  ASSUME NEW h, NEW s, Sane(s), s.timeWait,
         NEW B, NEW H, Fit(h, s, B, H), Placed(h, s, B), Early(s)
  PROVE  Lands(h, s, CloseAndNotify([s EXCEPT !.timeWait = FALSE]), B, H)
<1> DEFINE no == FALSE
           q == [s EXCEPT !.timeWait = no]
           t == CloseAndNotify(q)
<1>1. s \in Sockets /\ Core(s) /\ no \in BOOLEAN /\ ~no
  BY DEF Sane, Core
<1>2. Kept(s, t)
  BY TimeWaitExpiresFacts
<1> HIDE DEF no
<1>3. q \in Sockets
  BY <1>1 DEF Sockets
<1>4. Cleared(s, q)
  BY <1>1, <1>3 DEF Cleared, Same, Sockets
<1> HIDE DEF q
<1>5. Core(q) /\ Fit(h, q, B, H)
  BY <1>4, ClearedFacts, ClearedFit DEF Sane
<1>6. Calm(q, t) /\ Onward(q, t) /\ t.state = "CLOSED"
  BY <1>5, CloseAndNotifyIsCalm, CloseAndNotifyFacts
<1> HIDE DEF t
<1>7. Fit(h, t, B, H)
  BY <1>5, <1>6, CalmFit
<1>8. Lands(h, s, t, B, H)
  BY <1>1, <1>2, <1>4, <1>6, <1>7, ClearedLands
<1> QED
  BY <1>8 DEF t, q, no

\* A socket that is given up keeps what it was.
LEMMA GivenUpFit ==
  ASSUME NEW h, NEW q, Core(q), NEW B, NEW H, Fit(h, q, B, H)
  PROVE  LET t == DeallocateEndPoint(Told(q, "error"))
         IN Fit(h, t, B, H) /\ Onward(q, t)
<1> DEFINE k == Told(q, "error")
           t == DeallocateEndPoint(k)
<1>1. k \in Sockets /\ Calm(q, k) /\ k.state = q.state
  <2>1. "error" \in Ends \cup {"connected", "accepted"}
    BY DEF Ends
  <2> QED
    BY <2>1, ToldFacts, ToldIsCalm DEF Core
<1> HIDE DEF k
<1>2. Calm(k, t) /\ t.state = k.state
  BY <1>1, DeallocateIsCalm
<1> HIDE DEF t
<1>3. Fit(h, t, B, H) /\ Onward(q, t)
  BY <1>1, <1>2, CalmTransitive, CalmFit DEF Onward, Calm, Same
<1> QED
  BY <1>3 DEF t, k

LEMMA ReTxTimeoutLands ==
  ASSUME NEW h, NEW s, Sane(s), Timed(s), Fresh(s), s.retx = "data",
         NEW B \in Nat, NEW H, Fit(h, s, B, H), Placed(h, s, B), Early(s)
  PROVE  Lands(h, s, AfterReTxTimeout([s EXCEPT !.retx = "none"]), B, H)
<1> DEFINE q == [s EXCEPT !.retx = "none"]
           t == AfterReTxTimeout(q)
<1>1. s \in Sockets /\ Core(s) /\ s.endPoint /\ s.connected
  BY DEF Sane, Core, Quiet, Fresh, Placed
<1>2. Kept(s, t)
  BY ReTxTimeoutFacts
<1>3. q \in Sockets
  BY <1>1 DEF Sockets, RetxEvents
<1>4. Cleared(s, q)
  BY <1>1, <1>3 DEF Cleared, Same, Sockets
<1> HIDE DEF q
<1>5. /\ Sane(q) /\ Core(q) /\ Fit(h, q, B, H) /\ q.endPoint /\ q.connected
      /\ q \in Sockets /\ q.head \in Nat /\ q.size \in Nat
      /\ q.dataRetrCount \in 0..DataRetries /\ DataRetries \in Nat
  BY <1>1, <1>4, Bounds, CoreTypes, ClearedFacts, ClearedFit
     DEF Sane, Cleared, Same
<1>6. Fit(h, t, B, H) /\ Onward(q, t)
  <2>1. CASE q.state \in {"CLOSED", "TIME_WAIT"} \/
             (q.size = 0 /\ q.state \notin {"FIN_WAIT_1", "CLOSING"})
    <3>1. t = q
      BY <2>1 DEF AfterReTxTimeout
    <3> QED
      BY <1>5, <3>1, OnwardReflexive
  <2>2. CASE q.size = 0 /\ q.state \in {"FIN_WAIT_1", "CLOSING"}
    <3>1. t = SendEmptyPacket(q, "FINACK")
      BY <2>2 DEF AfterReTxTimeout
    <3> QED
      BY <1>5, <3>1, SendEmptyPacketFit DEF Flags
  <2>3. CASE /\ q.state \notin {"CLOSED", "TIME_WAIT"}
             /\ q.size > 0 /\ q.dataRetrCount = 0
    <3>1. t = DeallocateEndPoint(Told(q, "error"))
      BY <1>5, <2>3 DEF AfterReTxTimeout
    <3> QED
      BY <1>5, <3>1, GivenUpFit
  <2>4. CASE /\ q.state \notin {"CLOSED", "TIME_WAIT"}
             /\ q.size > 0 /\ q.dataRetrCount # 0
    <3> DEFINE n == q.dataRetrCount - 1
               c == [q EXCEPT !.dataRetrCount = n]
               i == q.head
               u == [SendDataPacket(c, i) EXCEPT !.nextTx = i + 1]
    <3>1. t = u
      BY <1>5, <2>4 DEF AfterReTxTimeout
    <3>2. n \in 0..DataRetries
      BY <1>5, <2>4
    <3> HIDE DEF n
    <3>3. c \in Sockets
      BY <1>5, <3>2 DEF Sockets
    <3>4. Cleared(q, c) /\ c.endPoint = q.endPoint
      BY <1>5, <3>3 DEF Cleared, Same, Sockets
    <3> HIDE DEF c
    <3>5. /\ Sane(c) /\ Fit(h, c, B, H) /\ c.endPoint /\ c.connected
          /\ c.head = i /\ c.size = q.size
      BY <1>5, <3>4, ClearedFacts, ClearedFit DEF Cleared, Same
    <3>6. i \in Nat /\ i >= 1 /\ i < End(c) /\ c.size # 0
      BY <1>5, <2>4, <3>5 DEF End, Fit, Numbered
    <3> HIDE DEF i
    <3>7. Fit(h, u, B, H) /\ Onward(c, u)
      BY <3>5, <3>6, SendStepFit
    <3> HIDE DEF u
    <3>8. Onward(q, u)
      BY <3>4, <3>7 DEF Onward, Cleared, Same
    <3> QED
      BY <3>1, <3>7, <3>8
  <2> QED
    BY <1>5, <2>1, <2>2, <2>3, <2>4
<1> HIDE DEF t
<1>7. Lands(h, s, t, B, H)
  BY <1>1, <1>2, <1>4, <1>6, ClearedLands
<1> QED
  BY <1>7 DEF t, q

LEMMA LastAckLands ==
  ASSUME NEW h, NEW s, Sane(s), Timed(s), Fresh(s), s.lastAck,
         NEW B \in Nat, NEW H, Fit(h, s, B, H), Placed(h, s, B), Early(s)
  PROVE  Lands(h, s, AfterLastAckTimeout([s EXCEPT !.lastAck = FALSE]), B, H)
<1> DEFINE no == FALSE
           q == [s EXCEPT !.lastAck = no]
           t == AfterLastAckTimeout(q)
<1>1. s \in Sockets /\ Core(s) /\ no \in BOOLEAN /\ ~no
  BY DEF Sane, Core
<1>2. Kept(s, t)
  BY LastAckTimeoutFacts
<1> HIDE DEF no
<1>3. q \in Sockets
  BY <1>1 DEF Sockets
<1>4. Cleared(s, q)
  BY <1>1, <1>3 DEF Cleared, Same, Sockets
<1> HIDE DEF q
<1>5. /\ Sane(q) /\ Core(q) /\ Fit(h, q, B, H) /\ q \in Sockets
      /\ q.dataRetrCount \in 0..DataRetries /\ DataRetries \in Nat
  BY <1>4, Bounds, CoreTypes, ClearedFacts, ClearedFit DEF Sane
<1>6. /\ Fit(h, t, B, H) /\ Onward(q, t)
      /\ s.connected \/ t.state \in {s.state, "CLOSED"}
  <2>1. CASE q.state # "LAST_ACK"
    <3>1. t = q
      BY <2>1 DEF AfterLastAckTimeout
    <3> QED
      BY <1>4, <1>5, <3>1, OnwardReflexive DEF Cleared
  <2>2. CASE q.state = "LAST_ACK" /\ q.dataRetrCount = 0
    <3>1. t = DeallocateEndPoint(Told(q, "error"))
      BY <2>2 DEF AfterLastAckTimeout
    <3>2. s.connected
      BY <1>4, <2>2 DEF Placed, Cleared, Handshake
    <3> QED
      BY <1>5, <3>1, <3>2, GivenUpFit
  <2>3. CASE q.state = "LAST_ACK" /\ q.dataRetrCount # 0
    <3> DEFINE n == q.dataRetrCount - 1
               c == [q EXCEPT !.dataRetrCount = n]
               e == SendEmptyPacket(c, "FINACK")
               yes == TRUE
               u == [e EXCEPT !.lastAck = yes]
    <3>1. t = u
      BY <2>3 DEF AfterLastAckTimeout
    <3>2. n \in 0..DataRetries /\ yes \in BOOLEAN
      BY <1>5, <2>3
    <3> HIDE DEF n, yes
    <3>3. c \in Sockets
      BY <1>5, <3>2 DEF Sockets
    <3>4. Cleared(q, c)
      BY <1>5, <3>3 DEF Cleared, Same, Sockets
    <3> HIDE DEF c
    <3>5. s.connected /\ c.connected
      BY <1>4, <2>3, <3>4 DEF Placed, Cleared, Handshake, Same
    <3>6. Sane(c) /\ Core(c) /\ Fit(h, c, B, H)
      BY <1>5, <3>4, ClearedFacts, ClearedFit DEF Sane
    <3>7. Fit(h, e, B, H) /\ Onward(c, e) /\ e \in Sockets
      BY <3>5, <3>6, SendEmptyPacketFit, SendEmptyPacketFacts
         DEF Flags, Sane, Core
    <3> HIDE DEF e
    <3>8. Calm(e, u) /\ u.state = e.state
      BY <3>2, <3>7 DEF Sockets, Calm, Same
    <3> HIDE DEF u
    <3>9. Fit(h, u, B, H) /\ Onward(q, u)
      BY <3>4, <3>7, <3>8, CalmFit DEF Onward, Calm, Cleared, Same
    <3> QED
      BY <3>1, <3>5, <3>9
  <2> QED
    BY <2>1, <2>2, <2>3
<1> HIDE DEF t
<1>7. Lands(h, s, t, B, H)
  BY <1>1, <1>2, <1>4, <1>6, ClearedLands
<1> QED
  BY <1>7 DEF t, q, no

\* What the application may use is no socket of a listener's handshake.
LEMMA UsableIsOpen ==
  ASSUME NEW h, NEW s, Fresh(s), NEW B, Placed(h, s, B), h \in Active \/ s.connected
  PROVE  Open(s) /\ s.state # "SYN_RCVD"
BY DEF Open, Placed, Fresh, Handshake

LEMMA AppSendLands ==
  ASSUME NEW h, NEW s, Sane(s), Timed(s), Fresh(s),
         s.state \in {"ESTABLISHED", "SYN_SENT", "CLOSE_WAIT"},
         NEW sends \in BOOLEAN, sends => s.state \notin Handshake,
         NEW B, NEW H, Fit(h, s, B, H), Placed(h, s, B), Early(s)
  PROVE  LET t == [s EXCEPT !.size = @ + 1]
         IN Lands(h, s, IF sends THEN [t EXCEPT !.pending = TRUE] ELSE t, B, H)
<1> DEFINE t == [s EXCEPT !.size = @ + 1]
           yes == TRUE
           p == [t EXCEPT !.pending = yes]
           u == IF sends THEN p ELSE t
<1>1. s \in Sockets /\ Core(s) /\ s.size + 1 \in Nat /\ yes \in BOOLEAN
  BY CoreTypes DEF Sane
<1>2. Kept(s, u)
  BY SendFacts
<1> HIDE DEF yes
<1>3. t \in Sockets /\ p \in Sockets
  BY <1>1 DEF Sockets
<1>4. /\ u.head = s.head /\ u.nextTx = s.nextTx
      /\ u.highTx = s.highTx /\ u.nextRx = s.nextRx /\ u.stored = s.stored
      /\ u.fin = s.fin /\ u.connected = s.connected /\ u.retx = s.retx
      /\ u.out = s.out /\ u.state = s.state
  BY <1>1, <1>3 DEF Sockets
<1> HIDE DEF u
<1>5. Fit(h, u, B, H)
  BY <1>4 DEF Fit, Numbered, Due, Finished
<1>6. Placed(h, u, B) /\ Early(u)
  BY <1>4 DEF Placed, Early
<1>7. s.nextRx <= u.nextRx /\ s.highTx <= u.highTx
  BY <1>1, <1>4, CoreTypes
<1>8. Lands(h, s, u, B, H)
  BY <1>5, <1>6, <1>7 DEF Lands
<1> QED
  BY <1>8 DEF u, yes

\* A call that is kept: with the socket's own state, or closed.
LEMMA CallLands ==
  ASSUME NEW h, NEW s, Core(s), NEW B, NEW H, Placed(h, s, B), Early(s),
         NEW t, Kept(s, t), Fit(h, t, B, H), Onward(s, t),
         s.connected \/ t.state \in {s.state, "CLOSED"}
  PROVE  Lands(h, s, t, B, H)
<1>1. Placed(h, t, B)
  BY OnwardPlaced
<1>2. s.nextRx <= t.nextRx /\ s.highTx <= t.highTx
  BY CoreTypes DEF Kept
<1>3. Early(t)
  BY DEF Kept, Early
<1> QED
  BY <1>1, <1>2, <1>3 DEF Lands

LEMMA AppCloseLands ==
  ASSUME NEW h, NEW s, Sane(s), Timed(s), Fresh(s), s.state # "CLOSED",
         h \in Active \/ s.connected,
         NEW B \in Nat, NEW H, Fit(h, s, B, H), Placed(h, s, B), Early(s)
  PROVE  Lands(h, s, Close(s), B, H)
<1> DEFINE t == Close(s)
<1>1. Core(s) /\ Open(s) /\ s.state # "SYN_RCVD"
  BY UsableIsOpen DEF Sane
<1>2. Kept(s, t)
  BY <1>1, CloseFacts, ClosingIsKept
<1>3. Fit(h, t, B, H) /\ Onward(s, t)
  BY <1>1, CloseFit
<1>4. s.connected \/ t.state \in {s.state, "CLOSED"}
  <2>1. SUFFICES ASSUME ~s.connected
                 PROVE  t.state \in {s.state, "CLOSED"}
    OBVIOUS
  <2>2. s.state = "SYN_SENT" /\ s.stored = {}
    BY <1>1, <2>1 DEF Open, Fresh, Handshake
  <2>3. CASE SizeFrom(s, s.nextTx) > 0
    <3>1. t = [s EXCEPT !.closeOnEmpty = TRUE] /\ s \in Sockets
      BY <1>1, <2>2, <2>3 DEF Close, Core
    <3> QED
      BY <3>1 DEF Sockets
  <2>4. CASE ~(SizeFrom(s, s.nextTx) > 0)
    <3>1. t = CloseAndNotify(SendRST(s))
      BY <2>2, <2>4 DEF Close, DoClose
    <3>2. Core(SendRST(s))
      BY SendRSTFacts DEF Sane
    <3> QED
      BY <3>1, <3>2, CloseAndNotifyFacts
  <2> QED
    BY <2>3, <2>4
<1> HIDE DEF t
<1>5. Lands(h, s, t, B, H)
  BY <1>1, <1>2, <1>3, <1>4, CallLands
<1> QED
  BY <1>5 DEF t

LEMMA AppShutdownLands ==
  ASSUME NEW h, NEW s, Sane(s), Timed(s), Fresh(s), s.state # "CLOSED",
         h \in Active \/ s.connected,
         NEW B \in Nat, NEW H, Fit(h, s, B, H), Placed(h, s, B), Early(s)
  PROVE  Lands(h, s, ShutdownSend(s), B, H)
<1> DEFINE t == ShutdownSend(s)
<1>1. Core(s) /\ Open(s) /\ s.state # "SYN_RCVD"
  BY UsableIsOpen DEF Sane
<1>2. Kept(s, t)
  BY <1>1, ShutdownSendFacts, ClosingIsKept
<1>3. Fit(h, t, B, H) /\ Onward(s, t)
  BY <1>1, ShutdownSendFit
<1>4. s.connected \/ t.state \in {s.state, "CLOSED"}
  <2>1. SUFFICES ASSUME ~s.connected
                 PROVE  t.state \in {s.state, "CLOSED"}
    OBVIOUS
  <2>2. s.state = "SYN_SENT" /\ s \in Sockets
    BY <1>1, <2>1 DEF Open, Core
  <2> DEFINE u == [s EXCEPT !.shutdownSend = TRUE, !.closeOnEmpty = TRUE]
  <2>3. u.state = s.state
    BY <2>2 DEF Sockets
  <2>4. t = u
    BY <2>2, <2>3 DEF ShutdownSend
  <2> HIDE DEF u, t
  <2> QED
    BY <2>3, <2>4
<1> HIDE DEF t
<1>5. Lands(h, s, t, B, H)
  BY <1>1, <1>2, <1>3, <1>4, CallLands
<1> QED
  BY <1>5 DEF t

\* Before a socket is used it says nothing.
LEMMA ClosedFit ==
  ASSUME NEW h, NEW B \in Nat, NEW H \in Nat
  PROVE  Fit(h, Closed, B, H) /\ Placed(h, Closed, B) /\ Early(Closed)
BY DEF Closed, Fit, Numbered, Due, Finished, Larger, Placed, Early, Handshake

LEMMA ConnectLands ==
  ASSUME NEW h \in Active, NEW B \in Nat, NEW H \in Nat
  PROVE  LET t == DoConnect([Closed EXCEPT !.endPoint = TRUE,
                                           !.synCount = SynRetries,
                                           !.dataRetrCount = DataRetries])
         IN Lands(h, Closed, t, B, H)
<1> DEFINE yes == TRUE
           c == [Closed EXCEPT !.endPoint = yes, !.synCount = SynRetries,
                               !.dataRetrCount = DataRetries]
           e == SendEmptyPacket(c, "SYN")
           t == [e EXCEPT !.state = "SYN_SENT"]
<1>1. DoConnect(c) = t
  BY DEF DoConnect
<1>2. /\ SynRetries \in 0..SynRetries /\ DataRetries \in 0..DataRetries
      /\ yes \in BOOLEAN /\ yes
  BY Bounds
<1> HIDE DEF yes
<1>3. /\ c \in Sockets /\ c.state = "CLOSED" /\ c.endPoint
      /\ c.connected = FALSE /\ c.nextTx = 0 /\ c.highTx = 0 /\ c.head = 0
      /\ c.size = 0 /\ c.nextRx = 0 /\ c.stored = {} /\ c.fin = 0
      /\ c.closeNotified = FALSE /\ c.retx = "none" /\ c.out = {}
  <2>1. c \in Sockets
    BY <1>2 DEF Closed, Sockets, States, RetxEvents
  <2> QED
    BY <1>2, <2>1 DEF Closed
<1> HIDE DEF c
<1>4. c.highTx <= End(c) /\ IsFiniteSet(c.stored)
  BY <1>3, FS_EmptySet DEF End
<1>5. Core(c)
  BY <1>3, <1>4 DEF Core
<1>6. Fit(h, c, B, H)
  BY <1>3 DEF Fit, Numbered, Due, Finished, Larger
<1>7. Fit(h, e, B, H) /\ Onward(c, e)
  BY <1>3, <1>5, <1>6, SendEmptyPacketFit DEF Flags
<1>8. Sane(t) /\ Fresh(t) /\ t.nextRx = 0
  BY <1>1, ConnectFacts DEF c, yes
<1>9. /\ t.state = "SYN_SENT" /\ t.connected = e.connected
      /\ t.head = e.head /\ t.nextTx = e.nextTx /\ t.highTx = e.highTx
      /\ t.nextRx = e.nextRx /\ t.stored = e.stored /\ t.fin = e.fin
      /\ t.retx = e.retx /\ t.out = e.out
  <2>1. t \in Sockets /\ t.state \in States
    BY <1>8 DEF Sane, Core, Sockets
  <2> HIDE DEF e
  <2> QED
    BY <2>1 DEF Sockets
<1> HIDE DEF e, t
<1>10. Fit(h, t, B, H)
  BY <1>7, <1>9 DEF Fit, Numbered, Due, Finished
<1>11. Placed(h, t, B) /\ Early(t)
  BY <1>8, <1>9 DEF Placed, Early, Handshake
<1>12. Closed.nextRx <= t.nextRx /\ Closed.highTx <= t.highTx
  BY <1>8, CoreTypes DEF Sane, Closed
<1>13. Lands(h, Closed, t, B, H)
  BY <1>10, <1>11, <1>12 DEF Lands
<1> QED
  BY <1>1, <1>13 DEF c, yes

LEMMA ForkedFacts ==
  ASSUME NEW n \in Nat, NEW yes \in BOOLEAN
  PROVE  [Closed EXCEPT !.state = "SYN_RCVD", !.endPoint = yes,
                        !.synCount = SynRetries, !.dataRetrCount = DataRetries,
                        !.nextRx = n] \in Sockets
<1>1. SynRetries \in 0..SynRetries /\ DataRetries \in 0..DataRetries
  BY Bounds
<1> QED
  BY <1>1 DEF Closed, Sockets, States, RetxEvents

LEMMA CompleteForkLands ==
  ASSUME NEW h, h \notin Active, NEW B \in Nat, NEW H \in Nat, NEW m,
         m.seq = 0
  PROVE  Lands(h, Closed, CompleteFork(m), B, H)
<1> DEFINE yes == TRUE
           n == m.seq + 1
           c == [Closed EXCEPT !.state = "SYN_RCVD", !.endPoint = yes,
                               !.synCount = SynRetries,
                               !.dataRetrCount = DataRetries, !.nextRx = n]
           t == SendEmptyPacket(c, "SYNACK")
<1>1. yes \in BOOLEAN /\ yes /\ n \in Nat
  OBVIOUS
<1>2. CompleteFork(m) = t /\ n = 1
  BY DEF CompleteFork
<1> HIDE DEF yes, n
<1>3. /\ c \in Sockets /\ c.state = "SYN_RCVD" /\ c.endPoint
      /\ c.connected = FALSE /\ c.nextTx = 0 /\ c.highTx = 0 /\ c.head = 0
      /\ c.size = 0 /\ c.nextRx = 1 /\ c.stored = {} /\ c.fin = 0
      /\ c.closeNotified = FALSE /\ c.retx = "none"
      /\ c.delAck = FALSE /\ c.pending = FALSE /\ c.out = {}
  BY <1>1, <1>2, ForkedFacts DEF Closed
<1> HIDE DEF c
<1>4. c.highTx <= End(c) /\ IsFiniteSet(c.stored)
  BY <1>3, FS_EmptySet DEF End
<1>5. Sane(c) /\ Core(c)
  BY <1>3, <1>4 DEF Sane, Core
<1>6. Fit(h, c, B, H)
  BY <1>3 DEF Fit, Numbered, Due, Finished, Larger
<1>7. Fit(h, t, B, H)
  BY <1>3, <1>5, <1>6, SendEmptyPacketFit DEF Flags, Handshake
<1>8. Same(c, t) /\ t.state \in {"SYN_RCVD", "CLOSED"} /\ Sane(t)
  BY <1>3, <1>5, SendEmptyPacketFacts DEF Flags
<1> HIDE DEF t
<1>9. Placed(h, t, B) /\ Early(t)
  BY <1>3, <1>8 DEF Placed, Early, Handshake, Same
<1>10. Closed.nextRx <= t.nextRx /\ Closed.highTx <= t.highTx
  BY <1>3, <1>8 DEF Same, Closed
<1>11. Lands(h, Closed, t, B, H)
  BY <1>7, <1>9, <1>10 DEF Lands
<1> QED
  BY <1>2, <1>11
-----------------------------------------------------------------------------
(* The two ends of one opener.                                             *)

\* h, with the socket s, is level with its peer's socket q and with what is in
\* flight.
Level(h, s, q, msgs) ==
  /\ Fit(h, s, q.nextRx, q.highTx) /\ Placed(h, s, q.nextRx) /\ Early(s)
  /\ \A m \in msgs : m.to = h => Backed(Peer(h), m, q.highTx, s.nextRx)

Numbers == OneOpener => \A h \in Hosts :
  Level(h, sock[h], sock[Peer(h)], BagToSet(net))

\* A handler of h leaves both ends level: what either says of the other's marks
\* stays true when they grow.
LEMMA LevelStays ==
  ASSUME NEW h \in Hosts, NEW s, NEW q \in Sockets, NEW msgs, NEW after,
         s.nextRx \in Nat, s.highTx \in Nat, q.out = {},
         Level(h, s, q, msgs), Level(Peer(h), q, s, msgs),
         NEW t \in Sockets, Lands(h, s, t, q.nextRx, q.highTx),
         \A m \in after : /\ m.seq \in Nat /\ m.len \in {0, 1}
                          /\ Carried(m, msgs, t.out, Peer(h)),
         NEW u, Same(t, u), u.state = t.state, u.retx = t.retx, u.out = {}
  PROVE  Level(h, u, q, after) /\ Level(Peer(h), q, u, after)
<1> DEFINE p == Peer(h)
<1>1. p # h /\ Peer(p) = h
  BY Peers
<1>2. /\ t.nextRx \in Nat /\ t.highTx \in Nat /\ s.nextRx <= t.nextRx
      /\ s.highTx <= t.highTx /\ u.nextRx = t.nextRx /\ u.highTx = t.highTx
      /\ q.nextRx \in Nat /\ q.highTx \in Nat /\ q.stored \subseteq Nat
      /\ q.nextTx \in Nat
  BY DEF Lands, Same, Sockets
<1>3. Fit(h, u, q.nextRx, q.highTx)
  BY DEF Lands, Fit, Numbered, Due, Finished, Same
<1>4. Placed(h, u, q.nextRx) /\ Early(u)
  BY DEF Lands, Placed, Early, Same
<1>5. ASSUME NEW m \in after, m.to = h
      PROVE  Backed(p, m, q.highTx, u.nextRx)
  <2>1. m \in msgs /\ m.seq \in Nat /\ m.len \in {0, 1}
    BY <1>1, <1>5 DEF Carried
  <2>2. Backed(p, m, q.highTx, s.nextRx)
    BY <1>5, <2>1 DEF Level
  <2>3. q.highTx <= q.highTx
    BY <1>2
  <2> QED
    BY <1>2, <2>1, <2>2, <2>3, BackedStays
<1>6. Fit(p, q, u.nextRx, u.highTx)
  <2>1. Fit(p, q, s.nextRx, s.highTx)
    BY <1>1 DEF Level
  <2>2. Numbered(p, q, u.nextRx)
    BY <1>2, <2>1 DEF Fit, Numbered, Larger
  <2>3. Due(q, u.highTx)
    BY <1>2, <2>1 DEF Fit, Due, Larger
  <2> QED
    BY <2>2, <2>3 DEF Fit
<1>7. Placed(p, q, u.nextRx) /\ Early(q)
  BY <1>2 DEF Level, Placed
<1>8. ASSUME NEW m \in after, m.to = p
      PROVE  Backed(h, m, u.highTx, q.nextRx)
  <2>1. m.seq \in Nat /\ m.len \in {0, 1}
    BY <1>8
  <2>2. CASE m \in msgs
    <3>1. Backed(h, m, s.highTx, q.nextRx)
      BY <1>1, <1>8, <2>2 DEF Level
    <3>2. q.nextRx <= q.nextRx
      BY <1>2
    <3> QED
      BY <1>2, <2>1, <3>1, <3>2, BackedStays
  <2>3. CASE m \notin msgs
    <3>1. PICK x \in t.out : m.flags = x.flags /\ m.seq = x.seq /\ m.len = x.len
      BY <1>8, <2>3 DEF Carried
    <3>2. Backed(h, x, t.highTx, q.nextRx)
      BY DEF Lands, Fit, Numbered
    <3> QED
      BY <1>2, <3>1, <3>2 DEF Backed
  <2> QED
    BY <2>2, <2>3
<1>9. Level(h, u, q, after)
  BY <1>3, <1>4, <1>5 DEF Level
<1>10. Level(p, q, u, after)
  BY <1>1, <1>6, <1>7, <1>8 DEF Level
<1> QED
  BY <1>9, <1>10

\* Nobody leaves the stretch and comes back.
LEMMA OneOpenerBefore ==
  ASSUME IInv, forks' \in [Hosts -> Nat],
         \A g \in Hosts : forks[g] <= forks'[g], OneOpener'
  PROVE  OneOpener
<1>1. ASSUME NEW g \in Hosts
      PROVE  forks[g] <= 1
  <2>1. forks[g] \in Nat /\ forks'[g] \in Nat /\ forks[g] <= forks'[g]
    BY DEF IInv
  <2>2. forks'[g] <= 1
    BY DEF OneOpener, OneConnection
  <2> QED
    BY <2>1, <2>2
<1> QED
  BY <1>1 DEF OneOpener, OneConnection

\* The numbers after h has become t.
LEMMA LandedStep ==
  ASSUME IInv, Numbers, NEW h \in Hosts, NEW t, Sane(t),
         NEW rest, IsABag(rest), BagToSet(rest) \subseteq BagToSet(net),
         Become(h, t, rest), forks' \in [Hosts -> Nat],
         \A g \in Hosts : forks[g] <= forks'[g],
         OneOpener' =>
           LET q == sock[Peer(h)] IN Lands(h, sock[h], t, q.nextRx, q.highTx)
  PROVE  Numbers'
<1> DEFINE p == Peer(h)
           u == [t EXCEPT !.out = {}]
           msgs == BagToSet(net)
           after == BagToSet(net')
<1> SUFFICES ASSUME OneOpener'
             PROVE  \A g \in Hosts : Level(g, sock'[g], sock'[Peer(g)], after)
  BY DEF Numbers
<1>1. p \in Hosts /\ p # h /\ Peer(p) = h /\ Hosts = {h, p}
  BY Peers
<1>2. /\ sock' = [sock EXCEPT ![h] = u] /\ Send(h, t.out, rest)
      /\ t.out \in SUBSET Sendings
  BY CoreTypes DEF Become, Sane
<1>3. /\ u.out = {} /\ Same(t, u) /\ u.state = t.state /\ u.retx = t.retx
  BY EmptiedFacts
<1> HIDE DEF u
<1>4. sock'[h] = u /\ sock'[p] = sock[p]
  BY <1>1, <1>2 DEF IInv
<1>5. \A m \in after : m \in Segments /\ Carried(m, msgs, t.out, p)
  BY <1>2, SendFrom DEF IInv
<1>6. \A m \in after : m.seq \in Nat /\ m.len \in {0, 1}
  BY <1>5 DEF Segments
<1>7. Level(h, sock[h], sock[p], msgs) /\ Level(p, sock[p], sock[h], msgs)
  BY <1>1, OneOpenerBefore DEF Numbers
<1>8. /\ sock[h] \in Sockets /\ sock[p] \in Sockets /\ sock[p].out = {}
      /\ t \in Sockets /\ sock[h].nextRx \in Nat /\ sock[h].highTx \in Nat
  BY <1>1, SocketTypes, Marks DEF Sane, Core
<1>9. Lands(h, sock[h], t, sock[p].nextRx, sock[p].highTx)
  OBVIOUS
<1>10. Level(h, u, sock[p], after) /\ Level(p, sock[p], u, after)
  BY <1>3, <1>5, <1>6, <1>7, <1>8, <1>9, LevelStays
<1> QED
  BY <1>1, <1>4, <1>10

\* What a segment on its way says, of one opener.
LEMMA TruthHolds ==
  ASSUME IInv, Numbers, OneOpener, NEW h \in Hosts, NEW m \in BagToSet(net),
         m.to = h
  PROVE  LET q == sock[Peer(h)]
         IN Truth(h, m, sock[h].nextRx, q.nextRx, q.highTx)
<1> DEFINE p == Peer(h)
           q == sock[p]
<1>1. p \in Hosts /\ Hosts = {h, p}
  BY Peers
<1>2. Backed(p, m, q.highTx, sock[h].nextRx)
  BY DEF Numbers, Level
<1>3. m.flags \in Acking => m.ack <= q.nextRx
  BY DEF IInv, Heard, OneOpener
<1>4. m.flags = "SYN" => h \notin Active
  <2>1. p \in Active => h \notin Active
    BY <1>1, ConnectionAssumption DEF OneOpener
  <2> QED
    BY <1>2, <2>1 DEF Backed
<1>5. m.flags \in {"SYN", "SYNACK"} => m.seq = 0
  BY <1>2 DEF Backed
<1>6. Says(m, q.highTx, sock[h].nextRx)
  BY <1>2 DEF Backed, Says
<1> QED
  BY <1>3, <1>4, <1>5, <1>6 DEF Truth

\* What a handler may count on, for any numbers B and H of the peer's.
Levelled(h, B, H) ==
  /\ B \in Nat /\ H \in Nat
  /\ Fit(h, sock[h], B, H) /\ Placed(h, sock[h], B) /\ Early(sock[h])

LEMMA LevelHolds ==
  ASSUME IInv, Numbers, OneOpener, NEW h \in Hosts
  PROVE  Levelled(h, sock[Peer(h)].nextRx, sock[Peer(h)].highTx)
<1>1. Peer(h) \in Hosts
  BY Peers
<1> QED
  BY <1>1, Marks DEF Numbers, Level, Levelled

\* A handler that no segment started, and that lands from any level.
LEMMA AloneStep ==
  ASSUME IInv, Numbers, NEW h \in Hosts, sock[h] # Closed,
         NEW t, Kept(sock[h], t), Become(h, t, net), UNCHANGED forks,
         \A B, H : Levelled(h, B, H) => Lands(h, sock[h], t, B, H)
  PROVE  Numbers'
<1>1. IsABag(net) /\ BagToSet(net) \subseteq BagToSet(net)
  BY DEF IInv
<1>2. forks' \in [Hosts -> Nat] /\ \A g \in Hosts : forks[g] <= forks'[g]
  BY DEF IInv
<1>3. OneOpener' => Lands(h, sock[h], t, sock[Peer(h)].nextRx,
                          sock[Peer(h)].highTx)
  BY LevelHolds DEF OneOpener, OneConnection
<1>4. Sane(t)
  BY DEF Kept
<1> QED
  BY <1>1, <1>2, <1>3, <1>4, LandedStep

LEMMA ConnectNumbers ==
  ASSUME IInv, Numbers, NEW h \in Hosts, Connect(h)
  PROVE  Numbers'
<1> DEFINE t == DoConnect([Closed EXCEPT !.endPoint = TRUE,
                                         !.synCount = SynRetries,
                                         !.dataRetrCount = DataRetries])
<1>1. Become(h, t, net) /\ h \in Active /\ sock[h] = Closed /\ UNCHANGED forks
  BY DEF Connect
<1>2. Sane(t)
  BY ConnectFacts
<1>3. Peer(h) \in Hosts
  BY Peers
<1>4. Lands(h, sock[h], t, sock[Peer(h)].nextRx, sock[Peer(h)].highTx)
  BY <1>1, <1>3, Marks, ConnectLands
<1> HIDE DEF t
<1>5. forks' \in [Hosts -> Nat] /\ \A g \in Hosts : forks[g] <= forks'[g]
  BY <1>1 DEF IInv
<1>6. IsABag(net) /\ BagToSet(net) \subseteq BagToSet(net)
  BY DEF IInv
<1> QED
  BY <1>1, <1>2, <1>4, <1>5, <1>6, LandedStep

LEMMA ForkNumbers ==
  ASSUME IInv, Numbers, NEW h \in Hosts, NEW m \in BagToSet(net), Fork(h, m)
  PROVE  Numbers'
<1> DEFINE t == CompleteFork(m)
           rest == net (-) SetToBag({m})
<1>1. /\ Become(h, t, rest) /\ h \notin Active /\ m.to = h /\ m.flags = "SYN"
      /\ forks' = [forks EXCEPT ![h] = @ + 1]
  BY DEF Fork
<1>2. m.seq \in Nat
  BY DEF IInv, Segments
<1>3. Sane(t)
  BY <1>2, CompleteForkFacts
<1>4. IsABag(rest) /\ BagToSet(rest) \subseteq BagToSet(net)
  BY TakenFrom
<1>5. /\ forks' \in [Hosts -> Nat] /\ \A g \in Hosts : forks[g] <= forks'[g]
      /\ forks'[h] = forks[h] + 1 /\ forks[h] \in Nat
  BY <1>1 DEF IInv
<1>6. ASSUME OneOpener'
      PROVE  Lands(h, sock[h], t, sock[Peer(h)].nextRx, sock[Peer(h)].highTx)
  <2>1. forks'[h] <= 1
    BY <1>6 DEF OneOpener, OneConnection
  <2>2. sock[h] = Closed
    BY <1>1, <1>5, <2>1 DEF IInv
  <2>3. OneOpener
    BY <1>5, <1>6, OneOpenerBefore
  <2>4. m.seq = 0
    BY <1>1, <2>3, TruthHolds DEF Truth
  <2>5. Peer(h) \in Hosts
    BY Peers
  <2> QED
    BY <1>1, <2>2, <2>4, <2>5, Marks, CompleteForkLands
<1> HIDE DEF t, rest
<1> QED
  BY <1>1, <1>3, <1>4, <1>5, <1>6, LandedStep

LEMMA ForwardUpNumbers ==
  ASSUME IInv, Numbers, NEW h \in Hosts, NEW m \in BagToSet(net), ForwardUp(h, m)
  PROVE  Numbers'
<1> DEFINE s == sock[h]
           rest == net (-) SetToBag({m})
<1>1. PICK in \in Inputs(s) : Become(h, DoForwardUp(s, m, in), rest)
  BY DEF ForwardUp
<1>2. s.endPoint /\ m.to = h /\ UNCHANGED forks
  BY DEF ForwardUp
<1>3. s # Closed
  BY <1>2 DEF Closed
<1>4. Sane(s) /\ Timed(s) /\ Fresh(s) /\ m \in Segments /\ Core(s)
  BY <1>3, UsedFacts DEF IInv
<1> DEFINE t == DoForwardUp(s, m, in)
<1>5. in.k \in Nat
  <2>1. in.k \in 0 .. SizeFrom(s, s.highTx)
    BY <1>1 DEF Inputs
  <2>2. SizeFrom(s, s.highTx) \in Nat
    BY <1>4, CoreTypes DEF SizeFrom, End
  <2> QED
    BY <2>1, <2>2
<1>6. Sane(t)
  BY <1>2, <1>4, <1>5, DoForwardUpFacts DEF Outcome
<1>7. OneOpener => Lands(h, s, t, sock[Peer(h)].nextRx, sock[Peer(h)].highTx)
  <2> SUFFICES ASSUME OneOpener
               PROVE  Lands(h, s, t, sock[Peer(h)].nextRx, sock[Peer(h)].highTx)
    OBVIOUS
  <2> DEFINE B == sock[Peer(h)].nextRx
             H == sock[Peer(h)].highTx
  <2>1. /\ B \in Nat /\ H \in Nat
        /\ Fit(h, s, B, H) /\ Placed(h, s, B) /\ Early(s)
    BY LevelHolds DEF Levelled
  <2>2. Truth(h, m, s.nextRx, B, H)
    BY <1>2, TruthHolds
  <2> HIDE DEF B, H
  <2>3. Lands(h, s, t, B, H)
    BY <1>2, <1>4, <1>5, <2>1, <2>2, DoForwardUpLands
  <2> QED
    BY <2>3 DEF B, H
<1>8. IsABag(rest) /\ BagToSet(rest) \subseteq BagToSet(net)
  BY TakenFrom
<1>9. Become(h, t, rest)
  BY <1>1
<1> HIDE DEF t, rest
<1>10. forks' \in [Hosts -> Nat] /\ \A g \in Hosts : forks[g] <= forks'[g]
  BY <1>2 DEF IInv
<1>11. OneOpener' => OneOpener
  BY <1>2 DEF OneOpener, OneConnection
<1> QED
  BY <1>6, <1>7, <1>8, <1>9, <1>10, <1>11, LandedStep

\* Resets have no numbers.
LEMMA UnansweredNumbers ==
  ASSUME IInv, Numbers, NEW h \in Hosts, NEW m \in BagToSet(net), Unanswered(h, m)
  PROVE  Numbers'
<1> DEFINE reset == [flags |-> IF m.flags = "SYN" THEN "RSTACK" ELSE "RST",
                     seq |-> IF m.flags = "SYN" THEN 0 ELSE m.ack,
                     ack |-> IF m.flags = "SYN" THEN m.seq + 1 ELSE 0,
                     len |-> 0]
           answer == h \in Active /\ m.flags \notin {"RST", "RSTACK"}
           out == IF answer THEN {reset} ELSE {}
           rest == net (-) SetToBag({m})
<1>1. Send(h, out, rest) /\ UNCHANGED <<sock, forks>>
  BY DEF Unanswered
<1>2. m \in Segments /\ IsABag(net) /\ BagToSet(net) \subseteq Segments
  BY DEF IInv
<1>3. reset \in Sendings /\ reset.flags \in {"RST", "RSTACK"} /\ reset.len = 0
  BY <1>2 DEF Segments, Sendings, Flags
<1> HIDE DEF reset
<1>4. /\ out \in SUBSET Sendings
      /\ \A x \in out : x.flags \in {"RST", "RSTACK"} /\ x.len = 0
  BY <1>3
<1>5. IsABag(rest) /\ BagToSet(rest) \subseteq BagToSet(net)
  BY TakenFrom
<1> HIDE DEF out, rest
<1>6. \A x \in BagToSet(net') : Carried(x, BagToSet(net), out, Peer(h))
  BY <1>1, <1>2, <1>4, <1>5, SendFrom
<1>7. ASSUME NEW x \in BagToSet(net')
      PROVE  \/ x \in BagToSet(net)
             \/ \A g, high, B : Backed(g, x, high, B)
  BY <1>4, <1>6 DEF Carried, Backed
<1>8. ASSUME OneOpener', NEW g \in Hosts
      PROVE  Level(g, sock'[g], sock'[Peer(g)], BagToSet(net'))
  <2>1. Level(g, sock[g], sock[Peer(g)], BagToSet(net))
    BY <1>1, <1>8 DEF Numbers, OneOpener, OneConnection
  <2> QED
    BY <1>1, <1>7, <2>1 DEF Level
<1> QED
  BY <1>8 DEF Numbers

LEMMA AppSendNumbers ==
  ASSUME IInv, Numbers, NEW h \in Hosts, AppSend(h)
  PROVE  Numbers'
<1> DEFINE s == sock[h]
           t(sends) == IF sends THEN [[s EXCEPT !.size = @ + 1] EXCEPT
                                        !.pending = TRUE]
                       ELSE [s EXCEPT !.size = @ + 1]
<1>1. /\ s.state \in {"ESTABLISHED", "SYN_SENT", "CLOSE_WAIT"}
      /\ Usable(h) /\ UNCHANGED forks
  BY DEF AppSend
<1>2. PICK window \in {TRUE, s.head = s.highTx} :
        Become(h, t(~s.shutdownSend /\ s.state # "SYN_SENT" /\ window), net)
  BY DEF AppSend
<1>3. s # Closed
  BY <1>1 DEF Closed
<1>4. Sane(s) /\ Timed(s) /\ Fresh(s)
  BY <1>3, UsedFacts
<1> DEFINE sends == ~s.shutdownSend /\ s.state # "SYN_SENT" /\ window
<1>5. sends \in BOOLEAN /\ (sends => s.state \notin Handshake)
  BY <1>1 DEF Handshake
<1>6. Become(h, t(sends), net)
  BY <1>2
<1> HIDE DEF sends
<1>7. Kept(s, t(sends))
  BY <1>4, <1>5, SendFacts
<1>8. ASSUME NEW B, NEW H, Levelled(h, B, H)
      PROVE  Lands(h, s, t(sends), B, H)
  BY <1>1, <1>4, <1>5, <1>8, AppSendLands DEF Levelled
<1> HIDE DEF t
<1> QED
  BY <1>1, <1>3, <1>6, <1>7, <1>8, AloneStep

LEMMA AppCloseNumbers ==
  ASSUME IInv, Numbers, NEW h \in Hosts, AppClose(h)
  PROVE  Numbers'
<1> DEFINE s == sock[h]
           t == Close(s)
<1>1. /\ Become(h, t, net) /\ s.state # "CLOSED" /\ UNCHANGED forks
      /\ h \in Active \/ s.connected
  BY DEF AppClose, Usable
<1>2. s # Closed
  BY <1>1 DEF Closed
<1>3. Sane(s) /\ Timed(s) /\ Fresh(s) /\ Core(s)
  BY <1>2, UsedFacts
<1>4. Kept(s, t)
  BY <1>3, CloseFacts, ClosingIsKept
<1>5. ASSUME NEW B, NEW H, Levelled(h, B, H)
      PROVE  Lands(h, s, t, B, H)
  BY <1>1, <1>3, <1>5, AppCloseLands DEF Levelled
<1> HIDE DEF t
<1> QED
  BY <1>1, <1>2, <1>4, <1>5, AloneStep

LEMMA AppShutdownNumbers ==
  ASSUME IInv, Numbers, NEW h \in Hosts, AppShutdown(h)
  PROVE  Numbers'
<1> DEFINE s == sock[h]
           t == ShutdownSend(s)
<1>1. /\ Become(h, t, net) /\ s.state # "CLOSED" /\ UNCHANGED forks
      /\ h \in Active \/ s.connected
  BY DEF AppShutdown, Usable
<1>2. s # Closed
  BY <1>1 DEF Closed
<1>3. Sane(s) /\ Timed(s) /\ Fresh(s) /\ Core(s)
  BY <1>2, UsedFacts
<1>4. Kept(s, t)
  BY <1>3, ShutdownSendFacts, ClosingIsKept
<1>5. ASSUME NEW B, NEW H, Levelled(h, B, H)
      PROVE  Lands(h, s, t, B, H)
  BY <1>1, <1>3, <1>5, AppShutdownLands DEF Levelled
<1> HIDE DEF t
<1> QED
  BY <1>1, <1>2, <1>4, <1>5, AloneStep

LEMMA PendingEventNumbers ==
  ASSUME IInv, Numbers, NEW h \in Hosts, PendingEvent(h)
  PROVE  Numbers'
<1> DEFINE s == sock[h]
           t(k) == SendPendingData([s EXCEPT !.pending = FALSE], 0, k)
<1>1. s.pending /\ UNCHANGED forks
  BY DEF PendingEvent
<1>2. PICK k \in 0 .. SizeFrom(s, s.highTx) : Become(h, t(k), net)
  BY DEF PendingEvent
<1>3. s # Closed
  BY <1>1 DEF Closed
<1>4. Sane(s) /\ Timed(s) /\ Fresh(s) /\ Core(s)
  BY <1>3, UsedFacts
<1>5. k \in Nat
  <2>1. SizeFrom(s, s.highTx) \in Nat
    BY <1>4, CoreTypes DEF SizeFrom, End
  <2> QED
    BY <2>1
<1>6. Kept(s, t(k))
  BY <1>1, <1>4, <1>5, PendingFacts
<1>7. ASSUME NEW B, NEW H, Levelled(h, B, H)
      PROVE  Lands(h, s, t(k), B, H)
  BY <1>1, <1>4, <1>5, <1>7, PendingLands DEF Levelled
<1> HIDE DEF t
<1> QED
  BY <1>1, <1>2, <1>3, <1>6, <1>7, AloneStep

LEMMA RetransmitEmptyNumbers ==
  ASSUME IInv, Numbers, NEW h \in Hosts, RetransmitEmpty(h)
  PROVE  Numbers'
<1> DEFINE s == sock[h]
           t == SendEmptyPacket([s EXCEPT !.retx = "none"], s.retx)
<1>1. Become(h, t, net) /\ UNCHANGED forks /\ s.retx \in {"SYN", "SYNACK", "FINACK"}
  BY DEF RetransmitEmpty
<1>2. s # Closed
  BY <1>1 DEF Closed
<1>3. Sane(s) /\ Timed(s) /\ Fresh(s)
  BY <1>2, UsedFacts
<1>4. Kept(s, t)
  BY <1>1, <1>3, RetransmitEmptyFacts
<1>5. ASSUME NEW B, NEW H, Levelled(h, B, H)
      PROVE  Lands(h, s, t, B, H)
  BY <1>1, <1>3, <1>5, RetransmitEmptyLands DEF Levelled
<1> HIDE DEF t
<1> QED
  BY <1>1, <1>2, <1>4, <1>5, AloneStep

LEMMA ReTxTimeoutNumbers ==
  ASSUME IInv, Numbers, NEW h \in Hosts, ReTxTimeout(h)
  PROVE  Numbers'
<1> DEFINE s == sock[h]
           t == AfterReTxTimeout([s EXCEPT !.retx = "none"])
<1>1. Become(h, t, net) /\ UNCHANGED forks /\ s.retx = "data"
  BY DEF ReTxTimeout
<1>2. s # Closed
  BY <1>1 DEF Closed
<1>3. Sane(s) /\ Timed(s) /\ Fresh(s)
  BY <1>2, UsedFacts
<1>4. Kept(s, t)
  BY <1>1, <1>3, ReTxTimeoutFacts
<1>5. ASSUME NEW B, NEW H, Levelled(h, B, H)
      PROVE  Lands(h, s, t, B, H)
  BY <1>1, <1>3, <1>5, ReTxTimeoutLands DEF Levelled
<1> HIDE DEF t
<1> QED
  BY <1>1, <1>2, <1>4, <1>5, AloneStep

LEMMA DelAckTimeoutNumbers ==
  ASSUME IInv, Numbers, NEW h \in Hosts, DelAckTimeout(h)
  PROVE  Numbers'
<1> DEFINE s == sock[h]
           t == SendEmptyPacket([s EXCEPT !.delAck = FALSE], "ACK")
<1>1. Become(h, t, net) /\ UNCHANGED forks /\ s.delAck
  BY DEF DelAckTimeout
<1>2. s # Closed
  BY <1>1 DEF Closed
<1>3. Sane(s) /\ Timed(s) /\ Fresh(s)
  BY <1>2, UsedFacts
<1>4. Kept(s, t)
  BY <1>1, <1>3, DelAckTimeoutFacts
<1>5. ASSUME NEW B, NEW H, Levelled(h, B, H)
      PROVE  Lands(h, s, t, B, H)
  BY <1>1, <1>3, <1>5, DelAckLands DEF Levelled
<1> HIDE DEF t
<1> QED
  BY <1>1, <1>2, <1>4, <1>5, AloneStep

LEMMA LastAckTimeoutNumbers ==
  ASSUME IInv, Numbers, NEW h \in Hosts, LastAckTimeout(h)
  PROVE  Numbers'
<1> DEFINE s == sock[h]
           t == AfterLastAckTimeout([s EXCEPT !.lastAck = FALSE])
<1>1. Become(h, t, net) /\ UNCHANGED forks /\ s.lastAck
  BY DEF LastAckTimeout
<1>2. s # Closed
  BY <1>1 DEF Closed
<1>3. Sane(s) /\ Timed(s) /\ Fresh(s)
  BY <1>2, UsedFacts
<1>4. Kept(s, t)
  BY <1>1, <1>3, LastAckTimeoutFacts
<1>5. ASSUME NEW B, NEW H, Levelled(h, B, H)
      PROVE  Lands(h, s, t, B, H)
  BY <1>1, <1>3, <1>5, LastAckLands DEF Levelled
<1> HIDE DEF t
<1> QED
  BY <1>1, <1>2, <1>4, <1>5, AloneStep

LEMMA TimeWaitExpiresNumbers ==
  ASSUME IInv, Numbers, NEW h \in Hosts, TimeWaitExpires(h)
  PROVE  Numbers'
<1> DEFINE s == sock[h]
           t == CloseAndNotify([s EXCEPT !.timeWait = FALSE])
<1>1. Become(h, t, net) /\ UNCHANGED forks /\ s.timeWait
  BY DEF TimeWaitExpires
<1>2. s # Closed
  BY <1>1 DEF Closed
<1>3. Sane(s) /\ Timed(s) /\ Fresh(s)
  BY <1>2, UsedFacts
<1>4. Kept(s, t)
  BY <1>1, <1>3, TimeWaitExpiresFacts
<1>5. ASSUME NEW B, NEW H, Levelled(h, B, H)
      PROVE  Lands(h, s, t, B, H)
  BY <1>1, <1>3, <1>5, TimeWaitExpiresLands DEF Levelled
<1> HIDE DEF t
<1> QED
  BY <1>1, <1>2, <1>4, <1>5, AloneStep

LEMMA NumbersStep ==
  ASSUME IInv, Numbers, [Next]_vars
  PROVE  Numbers'
<1>1. CASE UNCHANGED vars
  BY <1>1 DEF Numbers, OneOpener, OneConnection, vars
<1>2. ASSUME NEW h \in Hosts, Connect(h)
      PROVE  Numbers'
  BY <1>2, ConnectNumbers
<1>3. ASSUME NEW h \in Hosts, NEW m \in BagToSet(net),
             Fork(h, m) \/ ForwardUp(h, m) \/ Unanswered(h, m)
      PROVE  Numbers'
  BY <1>3, ForkNumbers, ForwardUpNumbers, UnansweredNumbers
<1>4. ASSUME NEW h \in Hosts, AppSend(h) \/ AppClose(h) \/ AppShutdown(h)
      PROVE  Numbers'
  BY <1>4, AppSendNumbers, AppCloseNumbers, AppShutdownNumbers
<1>5. ASSUME NEW h \in Hosts, Events(h)
      PROVE  Numbers'
  BY <1>5, PendingEventNumbers, RetransmitEmptyNumbers, ReTxTimeoutNumbers,
     DelAckTimeoutNumbers, LastAckTimeoutNumbers, TimeWaitExpiresNumbers
     DEF Events
<1> QED
  BY <1>1, <1>2, <1>3, <1>4, <1>5 DEF Next

LEMMA NumbersInit ==
  ASSUME Init
  PROVE  Numbers
<1>1. BagToSet(net) = {}
  BY SetToBagFacts DEF Init, EmptyBag
<1>2. \A h \in Hosts : Peer(h) \in Hosts
  BY Peers
<1>3. ASSUME NEW h \in Hosts
      PROVE  Level(h, sock[h], sock[Peer(h)], BagToSet(net))
  <2>1. sock[h] = Closed /\ sock[Peer(h)] = Closed
    BY <1>2 DEF Init
  <2>2. Closed.nextRx \in Nat /\ Closed.highTx \in Nat
    BY DEF Closed
  <2> QED
    BY <1>1, <2>1, <2>2, ClosedFit DEF Level
<1> QED
  BY <1>3 DEF Numbers

\* Of one opener, both ends and what is in flight agree on the numbers.
THEOREM NumbersInductive == Spec => [](IInv /\ Numbers)
<1>1. Init => Numbers
  BY NumbersInit
<1>2. IInv /\ Numbers /\ [Next]_vars => Numbers'
  BY NumbersStep
<1> QED
  BY <1>1, <1>2, Inductive, PTL DEF Spec

\* Acknowledged data was received, held or delivered data was sent, and
\* FIN_WAIT_2 is reached only when the peer has taken the FIN, however the
\* network loses, reorders and doubles segments: the code takes m.ack, m.seq
\* and a FIN's number as they come.
THEOREM WhatEndsBelieveIsSo == Spec => []EndsAgree
<1>1. IInv /\ Numbers => ReceivedWasSent
  <2> SUFFICES ASSUME IInv, Numbers, OneOpener, NEW h \in Hosts
               PROVE  /\ \A i \in sock[h].stored : i < sock[Peer(h)].highTx
                      /\ \/ Finished(sock[h])
                         \/ sock[h].nextRx <= Larger(sock[Peer(h)].highTx, 1)
    BY DEF ReceivedWasSent
  <2> QED
    BY LevelHolds DEF Levelled, Fit, Due
<1>2. IInv /\ Numbers => FinWait2IsAcked
  <2> SUFFICES ASSUME IInv, Numbers, OneOpener, NEW h \in Hosts,
                      sock[h].state = "FIN_WAIT_2"
               PROVE  Finished(sock[Peer(h)])
    BY DEF FinWait2IsAcked
  <2> DEFINE p == Peer(h)
             s == sock[h]
             q == sock[p]
  <2>1. p \in Hosts /\ Peer(p) = h
    BY Peers
  <2>2. /\ s.highTx \in Nat /\ q.nextRx \in Nat
    BY <2>1, Marks
  <2>3. s.highTx < q.nextRx /\ s.highTx >= 1
    BY LevelHolds DEF Levelled, Placed, Fit, Numbered, Handshake
  <2>4. Finished(q) \/ q.nextRx <= Larger(s.highTx, 1)
    BY <2>1, LevelHolds DEF Levelled, Fit, Due
  <2> QED
    BY <2>2, <2>3, <2>4 DEF Larger
<1> QED
  BY <1>1, <1>2, DiscardedWasReceived, NumbersInductive, PTL DEF EndsAgree
=============================================================================

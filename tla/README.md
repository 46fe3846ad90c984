# Specification of the network programs of this repository

The repository holds two systems with logic of their own:

* a **file server** in Java (`Offline 1/File Server`): a threaded server, a
  menu-driven client, uploads in chunks on connections of their own;
* a **TCP sender and receiver** in C++ (`NS3/1705069/TaskB`): ns-3's
  `TcpSocketBase` with the repository's changes, and *Vegas+*, a congestion
  control that switches between Vegas and NewReno behaviour.

Paths below are relative to the repository. `Server.java` stands for
`Offline 1/File Server/src/Server/Server.java`, and so on; the assignment text
is `Offline 1/Assignment 1.pdf`.

## 1. Inventory

### File server

| Part | State | Operations | Interacts through |
|---|---|---|---|
| Acceptors (`FileHandler`) | two listening ports | accept, start a `Handler` thread | - |
| Message handler (`Handler`, one thread per connection) | `user`, its streams | `handleLogin`, `handleCommand`, removals on disconnection | the static collections of `Server`, the socket |
| Registry (`Server`) | `users`, `oos`, `ip`: plain, unsynchronised collections | add, remove, find, iterate | called by all threads |
| Upload budget (`Server`) | `BUFFER_USED` | `useBuffer`, `freeBuffer` (synchronised; the latter is never called) | `FILE_REQUEST` |
| File handler (`Handler.handleFileUpload`) | the chunks received | read a chunk, acknowledge, publish, save | file connection, `files` |
| File lists (`Server.files`) | student -> list | `addFile`, `getFileList`, `getPublicFileList` | file handlers and look-ups |
| Client (`Client`, `FileClient`) | menu position; one thread per upload | login, menu commands, send chunks | both connections |
| Requests and broadcasts | `requests`, `messages` | `addRequest`, `removeRequest`: no working caller | - |
| Value classes (`File`, `Chunk`, `Message`) | bytes | `split`, `join`, `load`, `save` | - |

Hard: threads interleave between any two operations on the collections; every
connection may break between any two reads or writes; both ends of an upload
wait for each other once per chunk.

What makes it correct: the registry holds only accepted, living sessions; every
login is answered and every broken connection cleaned up; the budget is exact;
chunks arrive in order and once; only complete files are published.

### TCP

| Part | State | Operations | Interacts through |
|---|---|---|---|
| Vegas+ (`tcp-vegas.cc`) | RTT samples, cycle, on/off, mode and counter | `PktsAcked`, `CongestionStateSet`, `IncreaseWindow`, `GetSsThresh` | called by the socket; shares `TcpSocketState` |
| Congestion states (`tcp-socket-base.cc`) | `m_congState`, window, threshold | `DupAck`, `EnterCwr`, `EnterRecovery`, `ProcessAck`, `ReTxTimeout` | acknowledgements, ECN echoes, the timer |
| Connection state machine (`tcp-socket-base.cc`) | `m_state`, buffers' marks, seven events, retry counts | one `Process...` per state, `Send`, `Close`, `ShutdownSend`, timers | segments, the application, the scheduler |
| Loss recovery (`tcp-socket-base.cc`) | scoreboard, `m_dupAckCount`, `m_recover`, `m_recoverActive`, `m_isFirstPartialAck` | `ReceivedAck`, `DupAck`, `EnterRecovery`, `ProcessAck`, `NewAck`, `SendPendingData`, `ReTxTimeout` | SACK blocks, the retransmission timer |
| Windows (`tcp-socket-base.cc`) | `m_rWnd`, `m_highRxAckMark`, `m_persistEvent` | `UpdateWindowSize`, `AdvertisedWindowSize`, `PersistTimeout`, silly window avoidance | the peer's reader, both timers |
| Handshake options (`tcp-socket-base.cc`) | enabled options, window shifts | `AddOption...`, `ProcessOption...` | SYN, SYN+ACK; the listener's fields are copied into every fork |
| ECN (`tcp-socket-base.cc`) | `m_ecnState`, `m_ecnEchoSeq`, `m_ecnCESeq`, `m_ecnCWRSeq` | handshake, `ForwardUp`, `ReceivedAck`, `EnterCwr`, `SendDataPacket`, every ACK | IP's mark, the congestion state |
| RTT, RTO, pacing | estimates, timers' lengths | - | - |
| `MyApp` (`taskB.cc`) | `m_packetsSent` | `SendPacket`, `ScheduleTx` | `Send` of the socket |
| Scenarios (`taskA_*.cc`, `taskB.cc`) | topology | configuration and output | - |

Hard: segments are lost, reordered and, by retransmission, doubled; any event
can fire between any two segments; both ends can open or close at the same
time; handlers go on using a socket that was just taken out of the
demultiplexer; unsigned arithmetic near zero.

What makes it correct: what is acknowledged was received; unacknowledged data
has a timer; a dead socket is quiet and its application has been told; a
handshake and a transfer end; the window never starves and congestion never
raises the threshold; both ends mean the same by what they negotiated; nothing
is sent for which the receiver has no room; one congestion event costs one
reduction; and all that is written is delivered in the end.

## 2. Modules

| Module | What it is |
|---|---|
| `FileServerSessions` | registry, login, student list, disconnection: one handler thread and one client per connection |
| `UploadService` | abstract: what the server promises about uploads |
| `FileUpload` | budget negotiation, chunk transfer, publication, look-ups; implements `UploadService` by the refinement mapping at its end |
| `TcpVegas` | the congestion window under Vegas+ and the socket's congestion states |
| `TcpConnection` | two sockets, their applications, timers and the network between them |
| `TcpNegotiation` | what the handshake agrees on: ECN, window scaling, SACK, timestamps; several clients of one listener |
| `TcpEcn` | mark, echo, reduction and CWR between two established ends |
| `ByteStream` | abstract: what a connection promises in one direction |
| `TcpZeroWindow` | windows, probes, silly windows, the writer and a slow reader; implements `ByteStream` |
| `TcpLossRecovery` | duplicate acknowledgements, SACK, fast retransmit, timeout, congestion states; implements `ByteStream` |
| `MC...` | values of the constants for TLC |
| `..._proofs` | theorems of the module they extend |

Each state variable or record field carries the name of the code's field or a
comment that names it; each action, or state-transforming operator, is named
after the method it stands for. `PROJECT.json` maps every definition to its
lines.

**FileServerSessions.** A handler is a program counter; one action is one
operation on one collection, one read or one write of the socket. So `findUser`
and `getIP` of a single `if` are two steps, and `LOGIN_OK` is written three
steps before the registration is complete, as in the code. The constant
`Overlapping` chooses between two views of the unsynchronised collections: each
operation atomic, or, when another thread is about to execute an operation of
the same collection, an update that may be lost and an iteration that may throw
(`ConcurrentModificationException`, which ends the thread). `granted` is a
history variable. The file handlers' share of these collections (removals under
the key `null`) changes nothing here.

**FileUpload.** An upload is a model value that stands for its request, its
`FileClient` thread and its file handler. Chunks are their numbers, 0 is
`FILE_INIT`. The handler reuses one response object, and Java serialization
then sends a back reference: `Serialized` models what the client really reads.
`Break` cuts a connection at any moment and lets the server read a prefix of
what was sent. A write by the server to a broken connection may succeed or
throw; both outcomes are actions. `fos` has only one key, `null`, as in the
code. `files` maps a student to a list or to `None` ("no list yet"), because
`addFile` tests, puts and adds in three steps. Chunk sizes come from a set (the
code draws one at random).

`files` and its lists have no lock. A call on them is a step; with `Overlapping`
it races with the calls that other threads are about to make (`Putting`,
`Adding`, `Filtering`; of two racing puts the second to begin does the damage):

* `HashMap.put`: the lists of any students may be lost (`Put`); until it is over
  `get` may return null (`MissesList`);
* `ArrayList.add` against `add` or `removeIf`: the entry may be lost (`AddFile`);
  against another `add` it may throw, as does the second `get` of `addFile` when
  its list is gone (`AddFails`);
* `removeIf` against `add` or `removeIf`: null slots (a `None` in the list) and,
  in the second case, lost files (`RemovePrivate`);
* `removeIf` and `toString` throw when they notice the change or meet null
  (`LookupFails`).

Nothing catches these exceptions (`handleFileUpload` and `run` catch
`IOException` and `ClassNotFoundException`), so the handler is "died": before
`save` (386) if it uploads, with the asker unanswered if it looks up.

**TcpVegas.** One variable, the record of `TcpSocketState` and `TcpVegas`. Every
operator maps the state before a call to the state after it, so that the
handlers of the socket are compositions in the order of the code. Which
acknowledgement arrives and how it compares with the recovery point are inputs.
Windows are bytes; `GetSsThresh` subtracts modulo 2^32 (`Modulus`). NewReno and
the recovery algorithm are ns-3's and not in the repository: the first is
modelled from its interface, the second may set any window. `RepeatedSyn` is
`DoForwardUp` on a SYN or SYN+ACK that comes again (the peer repeats its SYN+ACK
when the first acknowledgement was lost): before ESTABLISHED ignores it, window
and threshold are back at their initial values, in every congestion state.

**TcpConnection.** The socket is a record; each method is an operator on it and
an action (`Become`) stores the result and puts what was sent in the network, a
bag, less what the links lose or `Capacity` refuses. A data segment takes one
sequence number. Events (`retx`, `delAck`, `lastAck`, `timeWait`, `pending`) are
fields and may run at any time, which covers every value of the RTO. What
depends on windows and the scoreboard is an input: how many new segments a call
sends (at least one if nothing is in flight) and which outstanding segment it
repeats; the loop of `SendPendingData` is a recursive function over its rounds.
A listener forks a socket per SYN; the model keeps the last one and the
bound `MaxForks`.

**TcpNegotiation.** A side has attributes (`config`), chosen at the start; the
listener is a socket whose fields a SYN changes *before* `Fork` copies them, as
in `DoForwardUp`. Each client has one fork at most. Acceptance of segments by
sequence number is left to `TcpConnection`: every segment here is one the code
would accept, and repeated SYNs and SYN+ACKs come from the retransmission event.

**TcpEcn.** Both ends send data, because `m_ecnState` serves a socket as sender
and as receiver. A router's mark is a choice at the receipt of a data segment.
Of loss recovery only what moves the congestion state is kept. `cuts`, `cwrs`
and `cutAt` are history.

**ByteStream.** Three counters (written, delivered, acknowledged), each step
raises one, and `LiveSpec` says that whatever is written is acknowledged in the
end. Two modules implement it by the refinement mapping at their end.

**TcpZeroWindow.** One direction, in bytes. The congestion window is an input of
every handler. `sent` is `MyApp`'s count, which includes what a full buffer
refused. The loop of `SendPendingData` is a recursive function of the number of
rounds. A segment is kept once in `net`, a set: a second copy would be
acknowledged with the same contents. `crashed` records the null pointer that
`PersistTimeout` dereferences when there is no byte to probe with.

**TcpLossRecovery.** One direction, in segments, the window of the receiver wide
open and the congestion window an input, so that the result holds for Vegas+
and any other. What a handler sends anew is a whole range of segments at once.
The scoreboard (`TcpTxBuffer`) is ns-3's: three sets (`sacked`,
`lost`, `retrans`) and the order in which `NextSeg` returns segments.
`asserted` is false once an `NS_ASSERT` of `DupAck` has failed.

`FileServerSessions` and `FileUpload` share the handler thread but no data other
than the student's name: an upload's message connection is a session in the menu
state, so they are separate modules. The TCP modules share the acknowledgement: what one treats as
an input another computes. The congestion state chooses the `in` record of
`TcpConnection`; `TcpLossRecovery` computes that choice and takes the window
from `TcpVegas` and its recovery algorithm as an input; `TcpZeroWindow` computes
the receiver's window that `TcpLossRecovery` leaves open. Each input ranges over
every value the other module may compute, so a property of one module does not
depend on what the others do.

## 3. Runs

| Run (cfg) | Question | Distinct states |
|---|---|---|
| `Sessions` | registry safety, 3 connections, 2 students, 2 addresses, atomic collections | 815 000 |
| `SessionsLive` | answers and clean-up, 2 connections, overlapping collections | 209 000 |
| `Upload` | two students, uploads of 2, 2 and 3 bytes, budget 4, chunks of 2, a break, look-ups, overlapping lists | 154 000 |
| `Vegas` | window, samples and modes; segment 2, window to 7, counter to 2, repeated SYNs | 33 000 |
| `Connection` | a segment each way, closes at any time | 265 000 |
| `ConnSimultaneous` | both connect, no data, shut-down and close | 86 000 |
| `ConnLive` | one segment, half-close, two forks | 31 000 |
| `Negotiation` | two clients, one listener, every ECN mode, all options or none, two buffer sizes | 1 020 000 |
| `Ecn` | four segments one way and one the other, one mark, one timeout | 1 480 000 |
| `ZeroWindow` | three packets, buffers of two, two losses, one early timeout | 110 000 |
| `LossRecovery` | five segments, window to 3, threshold 2, one loss, one early timeout | 315 000 |
| `FindingLastAck` | section 4 | - |

What each shows:

* `Sessions`: `RegisteredWasGranted`, `NoStaleStream`, `SoloSessionRegistered`.
  Removal is by name and a refused handler removes the accepted session; still,
  with atomic operations no refused, foreign or ended stream ever stands in the
  registry, and a student who uses one connection keeps stream, address and
  name.
* `SessionsLive`: `LoginAnswered` and `ClosedIsCleanedUp` hold up to the death
  of the thread by an unchecked exception, which the model contains. (That
  `RegisteredWasGranted` survives lost updates is proved, section 5.)
* `Upload`: `BufferAccounts` (the budget is the sum of the accepted sizes),
  `LockStep`, `ListedIsComplete`, `DoneIsReceived`, and `ImplementsService`, the
  refinement of `UploadService`. `UploadCompletes`: an accepted file reaches the
  disk unless its connection breaks or a data race ends its handler. Both
  excuses are needed (section 4, `FindingHandlerDies`); a handler dies of data
  races only (`DiesOfOverlapOnly`, section 5).
* `Vegas`: `WindowOpen`, `SamplesInOrder` (the code's `NS_ASSERT`),
  `CongestionLowers` (of all steps that end outside OPEN only a repeated SYN
  raises the threshold), `ModerateIsLinear` (for acknowledgements without SYN).
* `Connection`: `EndsAgree`, `OutstandingIsTimed`, `DeadIsQuiet`, `DeathIsTold`.
  `EndsAgree` says that what the two ends believe of each other is so: data
  acknowledged was received (`AckedWasReceived`), data held or delivered was sent
  (`ReceivedWasSent`), and in FIN_WAIT_2 the peer has taken the FIN
  (`FinWait2IsAcked`). The last two need `OneOpener`: they fail in a simultaneous
  open, where a socket that closes in SYN_RCVD sends its FIN under the number of
  its SYN (`FindingSynAckForFin`). `ConnTransfer.cfg` (two segments one way; not
  in the list of runs, by hand in half a minute) checks the same and
  `NeverBackwards`.
* `ConnSimultaneous`, `ConnLive`: `HandshakeEnds`, `DataEnds`, `LastAckEnds`.
* `Negotiation`: `OptionsAgree` (same options, matching shifts at both ends,
  although the listener's own fields change with every client), `EcnIsMutual`,
  `WindowNotOverstated` (no peer's window is read for more than the buffer
  behind it: for every client, and for a fork where scaling is agreed).
* `Ecn`: `CwrMeansReduced` (no CWR flag without a reduction of its own) and
  `OncePerWindow` (no second reduction for what was out at the first, unless a
  timeout came between).
* `ZeroWindow`: `NeverOutOfWindow` (windows that arrive in another order never
  make the sender exceed the receiver's buffer) and `ImplementsStream`: safety
  of the stream, and that a closed window never ends in silence.
* `LossRecovery`: `AssertionsHold`, `OneRecoveryPerWindow` (also for the second
  way into recovery, which does not look at `m_recover`) and `ImplementsStream`.

### Bounds

* Three connections are an accepted session, a refused one of the same name and
  the one that gets in after it; two students and two addresses make every
  comparison in `handleLogin` come out both ways. Each connection is used once:
  a client that reconnects is another connection. Liveness is checked with two
  connections, without symmetry.
* Three uploads of two students, whose requests are in flight together: alice's
  `u1` (private) and `u2` (public), of one chunk each, fill the budget exactly,
  so the boundary of `useBuffer` is reached, and meet in one list; bob's `u3`, of
  two chunks, the second short, fits only if none of hers was accepted before,
  and the other way round. `u3`'s connection may break (`Breaking`; a client that
  is done can only lose the completion message), with one chunk or both sent.
  `Lookups`: bob asks for alice's public files while she uploads, and for his
  own. The findings' configurations let everybody break and ask.
* `Vegas`: two RTTs and the absence of one make a sample rise, fall or stay;
  `MaxWindow` and `MaxCount` cut the search at a window of three segments and a
  half and at the first count beyond `VCountMax`. A SYN sets a window of two
  segments (`InitialCwnd`) and a threshold of seven bytes, the largest window, so
  that leaving CWR or RECOVERY afterwards does not go beyond it. The theorems of
  section 5 have no such bounds.
* `TcpConnection`: `Capacity` segments in flight (two let a late segment overtake
  a new one), `SynRetries` and `DataRetries` of one or two (the first and the
  last retry), `MaxForks` sockets of a listener. The properties that relate both
  ends are stated for one connection (`OneConnection`): a listener that forks
  again on a late SYN has a socket without a partner, since every connection
  starts at sequence number 0. The numbers themselves have no bound in the data
  sent. Between the connections of two forks stale acknowledgements and FINs push
  each other on; and in one connection, after `ShutdownSend`, a FIN that waited
  behind a hole moves FIN_WAIT_2 back to CLOSE_WAIT (`DoPeerClose`, 2346-2369),
  where `Close` sends a second FIN, numbered one further, and the peer takes it.
  So `TypeOK` has naturals, and `Capacity`, `Data` and the retries keep the runs
  finite.

* `Negotiation`: a buffer the window field holds and one that needs a shift which
  does not divide it; two clients, so that the first one's SYN can change the
  listener before the second one's; three sendings of each SYN (`SynRetries` of
  two and the refusal after it).
* `Ecn`: four segments are a window, an echo in its middle, a reduction and a
  segment beyond it; one segment the other way makes a socket sender and
  receiver at once. With two in flight a late echo meets a new window.
* `ZeroWindow`: the buffers hold two bytes, so they fill, close and reopen within
  three packets; two losses take a window update and the probe or the data after
  it. The segment is one byte and the shift zero: with larger ones the stream
  does stop (section 4, `FindingSillyWindow`, `FindingShift`).
* `LossRecovery`: with a threshold of two, three outstanding segments make a fast
  retransmit and the fourth and fifth a partial acknowledgement and a second
  hole; one loss, and one timeout while everything is still in flight.
  `OneRecoveryPerWindow` was also checked with ECN echoes (`Ecn = TRUE`,
  1.0 million states); `AssertionsHold` fails there (`FindingCountKept`).

No run checks deadlock: a server with idle clients, and a simulation whose
events have run out, may stop.

### Fairness

* File server: weak fairness of each handler thread and of a client that waits
  for an answer (the JVM schedules runnable threads; what was written to an
  unbroken connection arrives). None for a person who types, and none for a
  connection to break. No strong fairness is used.
* `TcpConnection`: weak fairness of each scheduled event only (the simulator
  runs every event it holds). Neither the network nor an application need do
  anything, so its liveness properties hold whatever is lost.
* `TcpZeroWindow`, `TcpLossRecovery`: delivery needs a network that delivers.
  Weak fairness of every event, of the receipt of some segment of each kind
  (losses are bounded by `MaxLosses`, which stands for "not for ever"), and of
  the slow reader; none for the writer and none for losses. For the handlers
  that send, weak fairness is written out as `[]<>~guard \/ []<><<A>>_vars`
  instead of `WF_vars(A)`: each of them changes the state whenever its guard
  holds, so the two are the same, and TLC need not evaluate `ENABLED`.

## 4. Where the code departs from its documents

`FindingLastAck` is a run whose property TLC finds violated; the others have
configurations that can be run by hand, e.g.
`tlc -config FindingBufferNeverFreed.cfg MCFileUpload.tla`. Where a property is
named, the configuration lists several: TLC stops at the first it finds violated,
so keep the line of that one.

| Configuration | The document says | The code |
|---|---|---|
| `FindingsSessions`: `SingleAddress` | "each student is mapped to a single IP address at any instance" (assignment 2.1) | the handler of a refused login removes the accepted session on disconnection (`Server.java` 219-224), after which another address gets in |
| `FindingFinNeverGoes` | "otherwise fin will go when buffer empties" (`tcp-socket-base.cc` 683) | a FIN is attached to a segment that is sent; with all data in flight at the shut-down none is sent any more |
| `FindingLastAck` | "This ACK corresponds to the FIN sent. This socket closed peacefully." (`tcp-socket-base.cc` 2292) | only the sequence number is compared: a late ACK closes the socket |
| `FindingVegasOffInOpen` | "We only start a Vegas cycle when we are in normal congestion state" (`tcp-vegas.h` 109) | leaving CWR sets OPEN without `CongestionStateSet`: Vegas stays off |
| `FindingsSessions`: `OnlineAreInList` | online students are part of the list of all students (2.2a) | the two halves of the list are read at different times, and a stream is registered before the name |
| `FindingDisconnectedGoesOffline` | "A student goes offline if he/she logs out or gets disconnected" (3.6) | a handler that died of an exception leaves its registration |
| `FindingBufferNeverFreed` | refused if "the total size of all chunks stored in the buffer plus the new file size" overflows (3.2) | `freeBuffer` has no caller |
| `FindingsUpload`: `LookupKeepsFiles` | "all the files (both private and public)" (2.2b) | `getPublicFileList` removes the private files from the list itself |
| `FindingsUpload`: `UploadKeepsFiles` | as above | two first users of a list put a new one each |
| `FindingsUpload`: `SuccessIsTold` | "sends a success message" (3.5) | the client reads a back reference to the first response, and closes after its last chunk's |
| `FindingHandlerDies`: `SavedWhileConnected` | no document; a file whose chunks are all there is to be saved (`Server.java` 377-386) | `addFile` (112) throws in a data race: the handler ends before `save` (386) |
| `FindingHandlerDies`: `SavedWhileAlive` | as above | the completion message cannot be written (380): the file is neither listed nor saved |
| `FindingRepeatedSyn` | "No action for received SYN+ACK, it is probably a duplicated packet" (`tcp-socket-base.cc` 1325) | `DoForwardUp` (1168-1171) has set window and threshold back before |
| `FindingNotConsecutive` | "a counter to track consecutive RTT increases" (`README.md` 108) | a decrease takes one off |
| `FindingSendAfterShutdown` | "this prevents data from being added to the buffer" (679) | `Send` adds first and looks at `m_shutdownSend` afterwards |
| `FindingCloseWaitForEver` | "Need to ack, the application will close later" (2368) | a FIN behind a hole moves FIN_WAIT_1 to CLOSE_WAIT when the hole is filled, though the application has closed |
| `FindingFinNotAcked` | "if the close responder sent an in-sequence FIN ... respond ACK" (2225) | the FIN's place ignores the payload of its segment |
| `FindingSynAckForFin` | "This ACK corresponds to the FIN sent" (2197) | after `Close` in SYN_RCVD of a simultaneous open the SYN's acknowledgement counts for the FIN |
| `FindingsNegotiation`: `DuplicateSynIgnored` | a SYN in ESTABLISHED "is ignored" (`tcp-socket-base.cc` 1319-1322) | `DoForwardUp` (1121-1172) has read window, options and the CWR flag of it before |
| `FindingsNegotiation`: `EcnAgreed` | the two ends negotiate ECN in the handshake (2643-2646, 2040-2043) | the CWR flag of a late ECN SYN turns ECN on at one end only (1124-1133) |
| `FindingsNegotiation`: `OptionsOfBothEnds` | an option is on when both ends have it (`HasOption && enabled`, 1147-1166) | a client without it turns it off in the listener, for all later clients |
| `FindingsNegotiation`: `ForkWindowNotOverstated` | windows are shifted by the scale of the other end (3680-3682) | a fork whose client does not scale shifts by what an earlier client sent |
| `FindingsEcn`: `OnceEvenAfterTimeout` | "Sender should reduce the Congestion Window as a response to receiver's ECN Echo notification only once per window" (1386) | a timeout leaves CWR earlier, and the next echo reduces again |
| `FindingsEcn`: `EchoEndsByCwr` | echoes go on until the sender "has responded to ECN echo" (1122-1129) | an echo for the data of the other direction overwrites `m_ecnState` |
| `FindingsZeroWindow`: `ProbeHasData` | "Send 1-byte data to probe" (3450) | the window closes with the last byte: `CopyFromSequence` has nothing to copy and its result is dereferenced (3457) |
| `FindingSillyWindow` | "Wait to send" (2948-2953) | nothing is in flight, no timer runs, and the reader's `Recv` sends no window update: the wait has no end |
| `FindingShift` | - | the shifted window is rounded down to zero with data outstanding; probes for want of data, as above |
| `FindingsZeroWindow`: `SentIsWritten` | `m_packetsSent` counts packets sent (`taskB.cc` 121) | a packet that `Send` refused is counted |
| `FindingCountKept` | "From OPEN->DISORDER but with ... dup ACKs" (`NS_ASSERT`, 1495) | the count survives CWR, and OPEN after it |
| `FindingHeadLost` | "IsLost (HighACK + 1)" (1541) | asks for the segment after the head |

## 5. Proofs

All theorems hold for every value of the constants that satisfies the `ASSUME`
of the module: any finite or infinite set of connections, any sizes, windows,
buffers, capacities, losses and RTTs. `tlapm` checks them without gaps. Each
module has an inductive invariant (`IInv` where nothing else is said), which TLC
checked on the run of the module before it was proved; one lemma per operator or
action says what it keeps, and the steps of `Next` compose them as the code does.

**FileServerSessions_proofs.** `TypeCorrect`, `RegistrySafe`
(`RegisteredWasGranted` and `NoStaleStream`), `NoStreamGoesStale` and
`SoloStaysRegistered`. `RegisteredWasGranted` is not
inductive: a step that registers relies on what happened before the handler got
there. `Control` adds that between reading the request and the last update the
name is known (`Named`), that only accepted handlers reach the updates
(`GrantedPcs`) and that client and handler start together (`OffIsIdle`). With
`TypeOK` these are inductive by themselves; `RegistrySafe` builds on them.
`SoloSessionRegistered` needs more (`SoloInv`): for a connection whose name no
other one uses, what the registry holds at each step of its own handler
(`Known`, `Accepted`, `InPlace`). The operations of all the others are on other
names, which is the part that a test with two students cannot show for a
thousand.

**FileUpload_proofs.** `IInv` describes each upload by the phase it is in:
`Negotiated` (what the two ends know before the threads start), `BeforeInit`
(the pipe holds `FILE_INIT`, and perhaps the first chunk), `Transfer` (at most
the chunk the client waits for is in the pipe, at most one response comes back),
`Listing` (only received files are in a list or on disk, whatever the races leave
of the lists). One lemma per action, or group of actions that share
the argument, shows that it preserves the upload it concerns, and a frame lemma
that others are left alone. From it follow `TypeCorrect`, `DoneSafe`,
`TransferSafe` (`LockStep`, `DoneIsReceived`) and `OnlyCompleteFiles`
(`ListedIsComplete`), and `Implements`: each action is mapped to `Ask`,
`Reserve`, `Refuse`, `Receive`, `Show`, `Hide` or a stutter of `UploadService`.
`BudgetAccounts` is `BufferAccounts` as TLC checks it, the equality of
`BUFFER_USED` with the sum of the accepted sizes. The sum is a recursive
function over sets that takes one element after the other; `SumWithout` shows
that the order does not matter (by a smallest set for which it would), and
`AccountsInductive` that each acceptance adds exactly its own size.
`DiesOfOverlapOnly` assumes `~Overlapping`: with single calls atomic a list that
was found or made is still there when it is used and holds no null (`Orderly`),
so no handler dies, although test, put and add remain separate steps.

**TcpVegas_proofs.** One lemma per call of the code says what it keeps and how it
moves window, threshold and mode; they compose as the calls do. `Good` is the
inductive invariant: types, samples in order, threshold of two segments, window
of one segment in the states where the window is the sender's own, Vegas off
where something was lost. `TypeCorrect`, `SamplesStayInOrder`, `WindowSafe`,
`ThresholdNotRaised` and `ModesBehave` follow; the last two except the step of a
repeated SYN (`SynFacts` says what it does keep). `VegasFollowsState` proves that
without echoes the disagreement of `FindingVegasOffInOpen` cannot arise.

**TcpLossRecovery_proofs.** `IInv` relates the two ends: the scoreboard speaks
of what is outstanding and never reports the head (`Board`), what it reports has
arrived (`Reported`), an acknowledgement in flight is not beyond the receiver
nor within its own report (`NetOK`), and a sender in OPEN or DISORDER is beyond
the last recovery point (`Ready`). Without echoes it knows more (`Counted`): the
duplicates counted fit the congestion state. That is what `AssertionsSafe` needs and why
it assumes `~Ecn`: with echoes it is false (`FindingCountKept`). `RecoversOnce` is
`OneRecoveryPerWindow`, for both ways into recovery and with echoes too;
`ImplementsStreamSafely` maps every step to a step or stutter of `ByteStream`.

**TcpEcn_proofs.** `IInv`: neither end is ahead of the other, in its state or in
a segment in flight (`Sane`, `Sendable`); reductions and CWR flags are counted
against each other (`Backed`); after a reduction the socket stays in CWR, or goes
through a timeout, until what was out is acknowledged (`Once`). `TypeCorrect`,
`CwrBacked`, `CutsOncePerWindow`.

**TcpNegotiation_proofs.** The state of a handshake is determined by attributes
that never change: every SYN of a client says the same, however often it is
repeated (`SynOK`), every answer of the fork says what that SYN and the
listener's attributes settle (`SynAckOK`), and an established client agrees with
its fork (`Agreed`). The listener, whose fields every SYN changes, appears only
with what no client can change (`ListenerOK`); that the invariant is inductive
with so little is the reason why other clients do no harm to an agreement.
`TypeCorrect`, `OptionsAlwaysAgree`, `EcnAlwaysMutual` and
`WindowNeverOverstated`, the last from the arithmetic of shifting a window down
and up again.

**TcpZeroWindow_proofs.** `room` is the first byte the receiver cannot take. `IInv`:
neither the highest mark sent nor acknowledgement plus window exceed it
(`Good`), the receiver holds nothing beyond it (`Holds`), and no segment in
flight offers more (`Carried`); since `room` never shrinks, a late window does
no harm. The rounds of `SendPendingData` are a recursive function; `LoopStays`
carries an invariant through any number of rounds (by a first round that would break it).
`TypeCorrect`, `RoomForAll` (`NeverOutOfWindow`) and `ImplementsStreamSafely`.

**TcpConnection_proofs.** Of one socket, `Core`: nothing is sent beyond the
buffer, a dead socket is quiet, what a handler sends acknowledges no more than
was received; `Sane`: no closed socket keeps its endpoint and no dead one an
uninformed application; `Timed`: what is outstanding has a timer; `Fresh`: in the
handshake no acknowledgement was sent. They hold after every operator, but `Sane`
not within them (`CloseAndNotify` and `SendRST` pass through sockets without it),
hence the two levels. `Outcome` says what a segment may do to a socket, `Kept` what the
application and the events may do; both ends together need `Heard`: what an end
was told by its head or by a segment still in flight, its peer has received, and
a peer that is in the handshake has told nothing. A handler moves its head only
to what such a segment says, and its `nextRx` never back, so that `Heard` survives
loss, reordering and repetition. `DeadStaysQuiet`, `NoSilentDeath`,
`TimerCovers`, `DiscardedWasReceived` (`AckedWasReceived`) and `MarksOnlyGrow`
(`NeverBackwards`) follow. A listener that forks again is the reason for
`OneConnection` in the part about both ends; the others hold with any number of
forks. `TypeCorrect` (`TypeOK`) adds the calls and forks counted and the capacity
of the network (`Counts`).

`WhatEndsBelieveIsSo` is `EndsAgree`. Its last two parts are not inductive: that
nothing was delivered before it was sent rests on the number of every FIN in
flight, that number on what the retransmission timer will run, and so on. The
invariant is `Numbers`, on top of `IInv`. For a host with the socket s, and the
number B its peer expects and the peer's highest mark H, `Numbered` bounds what s
has sent: data below its own mark, a FIN no further than the mark or B, a SYN at
zero and from an opener only. `Due` bounds what it has received by H, but for a
FIN that was taken. `Placed` says which states need what: `FIN_WAIT_2` that the
peer expects more than was ever sent, the two states of the handshake that the
host opens or listens. What is in flight to the host is `Backed` by the peer's
marks. Every bound grows with the peer's marks, and by `MarksOnlyGrow`'s argument
these only grow, so a step of one end does no harm at the other (`LevelStays`);
what a handler does at its own end is one lemma per method (`...Fit` within a
handler, where the state need not be placed yet, `...Lands` at its end). The
acknowledgement of a FIN that reaches `FIN_WAIT_2` is one beyond the mark; the
peer sends it only when it expects that number, which by `Due` is only so when it
has taken the FIN.

Only model-checked:

* liveness (`LoginAnswered`, `ClosedIsCleanedUp`, `UploadCompletes`,
  `HandshakeEnds`, `DataEnds`, `LastAckEnds` and the delivery that
  `ImplementsStream` adds to `ImplementsStreamSafely`), because fairness and
  `ENABLED` are outside the prover. The library's induction theorems are, too:
  the inductions above are proved from the well-foundedness of the natural
  numbers, for a definite set instead of any predicate.

## 6. Not modelled

* RTT estimation and RTO values (real-valued; timers may run at any time), the
  `RttHistory` behind them, pacing (off by default), timestamps' values, Nagle's
  algorithm (off by default).
* In `TcpNegotiation`: a simultaneous open; a second fork for one client. In
  `TcpEcn`: the ECT code point of outgoing packets and DCTCP. In
  `TcpLossRecovery`: connections without SACK. In `TcpZeroWindow`: recovery by
  duplicate acknowledgements, data in the other direction.
* `TcpZeroWindow`, `TcpLossRecovery` and `TcpEcn` start after the handshake with
  no segment of it in flight. A repeated SYN or SYN+ACK would overwrite the peer's
  window, the highest acknowledgement and the ECN state there; its effects are
  `RepeatedSyn` of `TcpVegas` and `DuplicateSynIgnored` and `EcnAgreed` of
  `TcpNegotiation`.
* Giving up after too many retransmissions (`ReTxTimeout`, 3323-3330) is in
  `TcpConnection`; the losses and early timeouts of the runs of `TcpZeroWindow`
  and `TcpLossRecovery` do not reach it.
* In `TcpConnection`: `ShutdownRecv`, received data the application does not
  read, failures of Bind and routing, ICMP and destroy callbacks, calls an
  application makes from inside a notification; `DelAckCount` has its default,
  two.
* In the file server: failures of the disk, the client's option 6 (an `ERROR`
  answer to an unknown message), requests and broadcasts (no working caller),
  the byte contents of files.
* `MyApp`'s start and stop beyond what `TcpConnection`'s application may do.
* Scenarios, topology, plots, Packet Tracer files.

## 7. Plan

1. Done: all modules of section 2, each with its theorems.
2. Done: all safety properties that the runs check are theorems; `Numbers` holds
   of one opener.
3. Left: an abstract connection with an end that `TcpConnection` implements. It
   cannot be `ByteStream` with a last byte: after the second FIN described under
   "Bounds" the stream has two ends.
4. Left: `ChunkCodec`, `split` and `join` of the value classes against a reference
   definition.

---------------------- MODULE FileServerSessions_proofs ----------------------
(***************************************************************************)
(* Safety of the session registry, for any number of connections, students *)
(* and addresses, with atomic or with overlapping collection operations.   *)
(***************************************************************************)
EXTENDS FileServerSessions, TLAPS

\* The request carries a student's name, and between reading it and the last
\* registry update the handler knows that name.
NamedPcs == {"findUser", "getIP", "loginFail", "loginOk", "addIP",
             "addStream", "addUser"}
Named == \A c \in Connections :
  /\ pc[c] \in NamedPcs => user[c] \in Students
  /\ pc[c] = "readLogin" => student[c] \in Students

\* Only an accepted connection gets to the registry updates, and it was not
\* accepted before its request was read.
GrantedPcs == \A c \in Connections :
  /\ pc[c] \in {"addIP", "addStream", "addUser"} => c \in granted
  /\ pc[c] \in {"idle", "readLogin"} => c \notin granted

\* The handler of a connection, and its client, start together.
OffIsIdle == \A c \in Connections : client[c] = "off" => pc[c] = "idle"

\* The inductive invariant of the control state.
Control == TypeOK /\ OffIsIdle /\ Named /\ GrantedPcs

\* The inductive invariant of the registry.
IInv == Control /\ RegisteredWasGranted /\ NoStaleStream

-----------------------------------------------------------------------------
\* Every step keeps the types: what is stored in the maps is a name, a
\* connection or an address, never null.
LEMMA TypeInductive ==
  ASSUME Control, [Next]_vars
  PROVE  TypeOK'
<1> USE NoneAssumption DEF Control
<1>1. CASE UNCHANGED vars
  BY <1>1 DEF vars, registry, TypeOK, HandlerPcs, ClientStates, Requests,
     Replies, Plain
<1>2. ASSUME NEW c \in Connections, NEW s \in Students, NEW a \in Addrs,
             Connect(c, s, a)
      PROVE  TypeOK'
  BY <1>2 DEF Connect, registry, TypeOK, HandlerPcs, ClientStates, Requests,
     Replies, Plain
<1>3. ASSUME NEW c \in Connections, ReadVerdict(c) PROVE TypeOK'
  BY <1>3 DEF ReadVerdict, registry, TypeOK, HandlerPcs, ClientStates,
     Requests, Replies, Plain
<1>4. ASSUME NEW c \in Connections, NEW m \in {"LOOKUP_STD", "FILE_REQUEST"},
             SendCommand(c, m)
      PROVE  TypeOK'
  BY <1>4 DEF SendCommand, registry, TypeOK, HandlerPcs, ClientStates,
     Requests, Replies, Plain
<1>5. ASSUME NEW c \in Connections, ReadReply(c) PROVE TypeOK'
  BY <1>5 DEF ReadReply, registry, TypeOK, HandlerPcs, ClientStates,
     Requests, Replies, Plain
<1>6. ASSUME NEW c \in Connections, Disconnect(c) PROVE TypeOK'
  BY <1>6 DEF Disconnect, registry, TypeOK, HandlerPcs, ClientStates,
     Requests, Replies, Plain
<1>7. ASSUME NEW c \in Connections, ReadLogin(c) PROVE TypeOK'
  BY <1>7 DEF ReadLogin, registry, Goto, TypeOK, HandlerPcs, ClientStates,
     Requests, Replies, Plain
<1>8. ASSUME NEW c \in Connections, LoginLost(c) PROVE TypeOK'
  BY <1>8 DEF LoginLost, registry, Goto, TypeOK, HandlerPcs, ClientStates,
     Requests, Replies, Plain
<1>9. ASSUME NEW c \in Connections, FindUser(c) PROVE TypeOK'
  BY <1>9 DEF FindUser, registry, Goto, TypeOK, HandlerPcs, ClientStates,
     Requests, Replies, Plain
<1>10. ASSUME NEW c \in Connections, GetIP(c) PROVE TypeOK'
  BY <1>10 DEF GetIP, registry, Goto, TypeOK, HandlerPcs, ClientStates,
     Requests, Replies, Plain
<1>11. ASSUME NEW c \in Connections, LoginFail(c) PROVE TypeOK'
  BY <1>11 DEF LoginFail, registry, Goto, Write, TypeOK, HandlerPcs,
     ClientStates, Requests, Replies, Plain
<1>12. ASSUME NEW c \in Connections, LoginOk(c) PROVE TypeOK'
  BY <1>12 DEF LoginOk, registry, Goto, Write, TypeOK, HandlerPcs,
     ClientStates, Requests, Replies, Plain
<1>13. ASSUME NEW c \in Connections, LoginOkLost(c) PROVE TypeOK'
  BY <1>13 DEF LoginOkLost, registry, Goto, TypeOK, HandlerPcs,
     ClientStates, Requests, Replies, Plain
<1>14. ASSUME NEW c \in Connections, AddIP(c) PROVE TypeOK'
  BY <1>14 DEF AddIP, registry, Goto, Overlapped, IPWrites, TypeOK,
     HandlerPcs, ClientStates, Requests, Replies, Plain
<1>15. ASSUME NEW c \in Connections, AddStream(c) PROVE TypeOK'
  BY <1>15 DEF AddStream, registry, Goto, Overlapped, StreamWrites, TypeOK,
     HandlerPcs, ClientStates, Requests, Replies, Plain
<1>16. ASSUME NEW c \in Connections, AddUser(c) PROVE TypeOK'
  BY <1>16 DEF AddUser, registry, Goto, Overlapped, Named, NamedPcs, TypeOK,
     HandlerPcs, ClientStates, Requests, Replies, Plain
<1>17. ASSUME NEW c \in Connections, ReceiveMsg(c) PROVE TypeOK'
  BY <1>17 DEF ReceiveMsg, registry, Goto, TypeOK, HandlerPcs, ClientStates,
     Requests, Replies, Plain
<1>18. ASSUME NEW c \in Connections, ListUsers(c) PROVE TypeOK'
  <2>1. ever' \in [Connections -> SUBSET Students]
    <3>1. CASE ever' = [ever EXCEPT ![c] = users]
      BY <3>1 DEF TypeOK
    <3>2. CASE ever' = ever
      BY <3>2 DEF TypeOK
    <3> QED
      BY <1>18, <3>1, <3>2 DEF ListUsers
  <2> QED
    BY <1>18, <2>1 DEF ListUsers, registry, Goto, TypeOK, HandlerPcs
<1>19. ASSUME NEW c \in Connections, ListOnline(c) PROVE TypeOK'
  <2> DEFINE online == {s \in Students : oos[s] # None}
  <2>1. [type |-> "LIST", ever |-> ever[c], online |-> online] \in Replies
    BY DEF TypeOK, Replies
  <2>2. reply' \in [Connections -> Replies]
    BY <1>19, <2>1 DEF ListOnline, Write, TypeOK
  <2>3. ever' \in [Connections -> SUBSET Students]
    BY <1>19 DEF ListOnline, TypeOK
  <2> QED
    BY <1>19, <2>2, <2>3 DEF ListOnline, registry, Goto, TypeOK, HandlerPcs
<1>20. ASSUME NEW c \in Connections, ConnectionLost(c) PROVE TypeOK'
  BY <1>20 DEF ConnectionLost, registry, Goto, TypeOK, HandlerPcs,
     ClientStates, Requests, Replies, Plain
<1>21. ASSUME NEW c \in Connections, RemoveStream(c) PROVE TypeOK'
  BY <1>21 DEF RemoveStream, registry, Goto, Overlapped, StreamWrites,
     TypeOK, HandlerPcs, ClientStates, Requests, Replies, Plain
<1>22. ASSUME NEW c \in Connections, RemoveIP(c) PROVE TypeOK'
  BY <1>22 DEF RemoveIP, registry, Goto, Overlapped, IPWrites, TypeOK,
     HandlerPcs, ClientStates, Requests, Replies, Plain
<1> QED
  BY <1>1, <1>2, <1>3, <1>4, <1>5, <1>6, <1>7, <1>8, <1>9, <1>10, <1>11,
     <1>12, <1>13, <1>14, <1>15, <1>16, <1>17, <1>18, <1>19, <1>20, <1>21,
     <1>22 DEF Next, Handler, Client

\* Every step keeps the control state: a handler in the middle of a login
\* knows its user, and only an accepted one goes on to the registry.
LEMMA ControlInductive ==
  ASSUME Control, [Next]_vars
  PROVE  Control'
<1> DEFINE Goal == OffIsIdle' /\ Named' /\ GrantedPcs'
<1>0. TypeOK'
  BY TypeInductive DEF Control
<1> USE NoneAssumption DEF Control
<1> SUFFICES Goal
  BY <1>0
<1>1. CASE UNCHANGED vars
  BY <1>1 DEF vars, registry, OffIsIdle, Named, GrantedPcs, NamedPcs, TypeOK
<1>2. ASSUME NEW c \in Connections, NEW s \in Students, NEW a \in Addrs,
             Connect(c, s, a)
      PROVE  Goal
  BY <1>2 DEF Connect, registry, OffIsIdle, Named, GrantedPcs, NamedPcs,
     TypeOK
<1>3. ASSUME NEW c \in Connections, ReadVerdict(c) PROVE Goal
  BY <1>3 DEF ReadVerdict, registry, OffIsIdle, Named, GrantedPcs, NamedPcs,
     TypeOK
<1>4. ASSUME NEW c \in Connections, NEW m \in {"LOOKUP_STD", "FILE_REQUEST"},
             SendCommand(c, m)
      PROVE  Goal
  BY <1>4 DEF SendCommand, registry, OffIsIdle, Named, GrantedPcs, NamedPcs,
     TypeOK
<1>5. ASSUME NEW c \in Connections, ReadReply(c) PROVE Goal
  BY <1>5 DEF ReadReply, registry, OffIsIdle, Named, GrantedPcs, NamedPcs,
     TypeOK
<1>6. ASSUME NEW c \in Connections, Disconnect(c) PROVE Goal
  BY <1>6 DEF Disconnect, registry, OffIsIdle, Named, GrantedPcs, NamedPcs,
     TypeOK
<1>7. ASSUME NEW c \in Connections, ReadLogin(c) PROVE Goal
  BY <1>7 DEF ReadLogin, registry, Goto, OffIsIdle, Named, GrantedPcs,
     NamedPcs, TypeOK
<1>8. ASSUME NEW c \in Connections, LoginLost(c) PROVE Goal
  BY <1>8 DEF LoginLost, registry, Goto, OffIsIdle, Named, GrantedPcs,
     NamedPcs, TypeOK
<1>9. ASSUME NEW c \in Connections, FindUser(c) PROVE Goal
  BY <1>9 DEF FindUser, registry, Goto, OffIsIdle, Named, GrantedPcs,
     NamedPcs, TypeOK
<1>10. ASSUME NEW c \in Connections, GetIP(c) PROVE Goal
  BY <1>10 DEF GetIP, registry, Goto, OffIsIdle, Named, GrantedPcs,
     NamedPcs, TypeOK
<1>11. ASSUME NEW c \in Connections, LoginFail(c) PROVE Goal
  BY <1>11 DEF LoginFail, registry, Goto, Write, Plain, OffIsIdle, Named,
     GrantedPcs, NamedPcs, TypeOK
<1>12. ASSUME NEW c \in Connections, LoginOk(c) PROVE Goal
  BY <1>12 DEF LoginOk, registry, Goto, Write, Plain, OffIsIdle, Named,
     GrantedPcs, NamedPcs, TypeOK
<1>13. ASSUME NEW c \in Connections, LoginOkLost(c) PROVE Goal
  BY <1>13 DEF LoginOkLost, registry, Goto, OffIsIdle, Named, GrantedPcs,
     NamedPcs, TypeOK
<1>14. ASSUME NEW c \in Connections, AddIP(c) PROVE Goal
  BY <1>14 DEF AddIP, registry, Goto, Overlapped, IPWrites, OffIsIdle,
     Named, GrantedPcs, NamedPcs, TypeOK
<1>15. ASSUME NEW c \in Connections, AddStream(c) PROVE Goal
  BY <1>15 DEF AddStream, registry, Goto, Overlapped, StreamWrites,
     OffIsIdle, Named, GrantedPcs, NamedPcs, TypeOK
<1>16. ASSUME NEW c \in Connections, AddUser(c) PROVE Goal
  BY <1>16 DEF AddUser, registry, Goto, Overlapped, OffIsIdle, Named,
     GrantedPcs, NamedPcs, TypeOK
<1>17. ASSUME NEW c \in Connections, ReceiveMsg(c) PROVE Goal
  BY <1>17 DEF ReceiveMsg, registry, Goto, OffIsIdle, Named, GrantedPcs,
     NamedPcs, TypeOK
<1>18. ASSUME NEW c \in Connections, ListUsers(c) PROVE Goal
  BY <1>18 DEF ListUsers, registry, Goto, Overlapped, OffIsIdle, Named,
     GrantedPcs, NamedPcs, TypeOK
<1>19. ASSUME NEW c \in Connections, ListOnline(c) PROVE Goal
  BY <1>19 DEF ListOnline, registry, Goto, Write, Overlapped, StreamWrites,
     OffIsIdle, Named, GrantedPcs, NamedPcs, TypeOK
<1>20. ASSUME NEW c \in Connections, ConnectionLost(c) PROVE Goal
  BY <1>20 DEF ConnectionLost, registry, Goto, OffIsIdle, Named, GrantedPcs,
     NamedPcs, TypeOK
<1>21. ASSUME NEW c \in Connections, RemoveStream(c) PROVE Goal
  BY <1>21 DEF RemoveStream, registry, Goto, Overlapped, StreamWrites,
     OffIsIdle, Named, GrantedPcs, NamedPcs, TypeOK
<1>22. ASSUME NEW c \in Connections, RemoveIP(c) PROVE Goal
  BY <1>22 DEF RemoveIP, registry, Goto, Overlapped, IPWrites, OffIsIdle,
     Named, GrantedPcs, NamedPcs, TypeOK
<1> QED
  BY <1>1, <1>2, <1>3, <1>4, <1>5, <1>6, <1>7, <1>8, <1>9, <1>10, <1>11,
     <1>12, <1>13, <1>14, <1>15, <1>16, <1>17, <1>18, <1>19, <1>20, <1>21,
     <1>22 DEF Next, Handler, Client

\* Every step keeps the registry: AddStream stores the connection under its
\* own user's name, and the removals leave no stream of a thread that ended.
LEMMA RegistryInductive ==
  ASSUME IInv, [Next]_vars
  PROVE  RegisteredWasGranted' /\ NoStaleStream'
<1> DEFINE Goal == RegisteredWasGranted' /\ NoStaleStream'
<1> USE NoneAssumption DEF IInv, Control
<1> SUFFICES Goal
  OBVIOUS
<1>1. CASE UNCHANGED vars
  BY <1>1 DEF vars, registry, RegisteredWasGranted, NoStaleStream,
     OffIsIdle, Named,
       GrantedPcs, NamedPcs, TypeOK
<1>2. ASSUME NEW c \in Connections, NEW s \in Students, NEW a \in Addrs,
             Connect(c, s, a)
      PROVE  Goal
  BY <1>2 DEF Connect, registry, RegisteredWasGranted, NoStaleStream,
     OffIsIdle, Named,
       GrantedPcs, NamedPcs, TypeOK
<1>3. ASSUME NEW c \in Connections, ReadVerdict(c) PROVE Goal
  BY <1>3 DEF ReadVerdict, registry, RegisteredWasGranted, NoStaleStream,
     OffIsIdle, Named,
       GrantedPcs, NamedPcs, TypeOK
<1>4. ASSUME NEW c \in Connections, NEW m \in {"LOOKUP_STD", "FILE_REQUEST"},
             SendCommand(c, m)
      PROVE  Goal
  BY <1>4 DEF SendCommand, registry, RegisteredWasGranted, NoStaleStream,
     OffIsIdle, Named,
       GrantedPcs, NamedPcs, TypeOK
<1>5. ASSUME NEW c \in Connections, ReadReply(c) PROVE Goal
  BY <1>5 DEF ReadReply, registry, RegisteredWasGranted, NoStaleStream,
     OffIsIdle, Named,
       GrantedPcs, NamedPcs, TypeOK
<1>6. ASSUME NEW c \in Connections, Disconnect(c) PROVE Goal
  BY <1>6 DEF Disconnect, registry, RegisteredWasGranted, NoStaleStream,
     OffIsIdle, Named,
       GrantedPcs, NamedPcs, TypeOK
<1>7. ASSUME NEW c \in Connections, ReadLogin(c) PROVE Goal
  BY <1>7 DEF ReadLogin, registry, Goto, RegisteredWasGranted,
     NoStaleStream, OffIsIdle, Named,
       GrantedPcs, NamedPcs, TypeOK
<1>8. ASSUME NEW c \in Connections, LoginLost(c) PROVE Goal
  BY <1>8 DEF LoginLost, registry, Goto, RegisteredWasGranted,
     NoStaleStream, OffIsIdle, Named,
       GrantedPcs, NamedPcs, TypeOK
<1>9. ASSUME NEW c \in Connections, FindUser(c) PROVE Goal
  BY <1>9 DEF FindUser, registry, Goto, RegisteredWasGranted, NoStaleStream,
     OffIsIdle, Named,
       GrantedPcs, NamedPcs, TypeOK
<1>10. ASSUME NEW c \in Connections, GetIP(c) PROVE Goal
  BY <1>10 DEF GetIP, registry, Goto, RegisteredWasGranted, NoStaleStream,
     OffIsIdle, Named,
       GrantedPcs, NamedPcs, TypeOK
<1>11. ASSUME NEW c \in Connections, LoginFail(c) PROVE Goal
  BY <1>11 DEF LoginFail, registry, Goto, Write, Plain,
     RegisteredWasGranted, NoStaleStream, OffIsIdle, Named,
       GrantedPcs, NamedPcs, TypeOK
<1>12. ASSUME NEW c \in Connections, LoginOk(c) PROVE Goal
  BY <1>12 DEF LoginOk, registry, Goto, Write, Plain, RegisteredWasGranted,
     NoStaleStream, OffIsIdle, Named,
       GrantedPcs, NamedPcs, TypeOK
<1>13. ASSUME NEW c \in Connections, LoginOkLost(c) PROVE Goal
  BY <1>13 DEF LoginOkLost, registry, Goto, RegisteredWasGranted,
     NoStaleStream, OffIsIdle, Named,
       GrantedPcs, NamedPcs, TypeOK
<1>14. ASSUME NEW c \in Connections, AddIP(c) PROVE Goal
  BY <1>14 DEF AddIP, registry, Goto, Overlapped, IPWrites,
     RegisteredWasGranted, NoStaleStream, OffIsIdle, Named,
       GrantedPcs, NamedPcs, TypeOK
<1>15. ASSUME NEW c \in Connections, AddStream(c) PROVE Goal
  BY <1>15 DEF AddStream, registry, Goto, Overlapped, StreamWrites,
     RegisteredWasGranted, NoStaleStream, OffIsIdle, Named,
       GrantedPcs, NamedPcs, TypeOK
<1>16. ASSUME NEW c \in Connections, AddUser(c) PROVE Goal
  BY <1>16 DEF AddUser, registry, Goto, Overlapped, RegisteredWasGranted,
     NoStaleStream, OffIsIdle, Named,
       GrantedPcs, NamedPcs, TypeOK
<1>17. ASSUME NEW c \in Connections, ReceiveMsg(c) PROVE Goal
  BY <1>17 DEF ReceiveMsg, registry, Goto, RegisteredWasGranted,
     NoStaleStream, OffIsIdle, Named,
       GrantedPcs, NamedPcs, TypeOK
<1>18. ASSUME NEW c \in Connections, ListUsers(c) PROVE Goal
  BY <1>18 DEF ListUsers, registry, Goto, Overlapped, RegisteredWasGranted,
     NoStaleStream, OffIsIdle, Named,
       GrantedPcs, NamedPcs, TypeOK
<1>19. ASSUME NEW c \in Connections, ListOnline(c) PROVE Goal
  BY <1>19 DEF ListOnline, registry, Goto, Write, Overlapped, StreamWrites,
     RegisteredWasGranted, NoStaleStream, OffIsIdle, Named,
       GrantedPcs, NamedPcs, TypeOK
<1>20. ASSUME NEW c \in Connections, ConnectionLost(c) PROVE Goal
  BY <1>20 DEF ConnectionLost, registry, Goto, RegisteredWasGranted,
     NoStaleStream, OffIsIdle, Named,
       GrantedPcs, NamedPcs, TypeOK
<1>21. ASSUME NEW c \in Connections, RemoveStream(c) PROVE Goal
  BY <1>21 DEF RemoveStream, registry, Goto, Overlapped, StreamWrites,
     RegisteredWasGranted, NoStaleStream, OffIsIdle, Named,
       GrantedPcs, NamedPcs, TypeOK
<1>22. ASSUME NEW c \in Connections, RemoveIP(c) PROVE Goal
  BY <1>22 DEF RemoveIP, registry, Goto, Overlapped, IPWrites,
     RegisteredWasGranted, NoStaleStream, OffIsIdle, Named,
       GrantedPcs, NamedPcs, TypeOK
<1> QED
  BY <1>1, <1>2, <1>3, <1>4, <1>5, <1>6, <1>7, <1>8, <1>9, <1>10, <1>11,
     <1>12, <1>13, <1>14, <1>15, <1>16, <1>17, <1>18, <1>19, <1>20, <1>21,
     <1>22 DEF Next, Handler, Client

-----------------------------------------------------------------------------
\* The server starts with an empty registry and no thread.
LEMMA InitialState == Init => IInv
<1>1. Init => TypeOK
  BY DEF Init, TypeOK, HandlerPcs, ClientStates, Requests, Replies, Plain
<1> QED
  BY <1>1 DEF Init, IInv, Control, OffIsIdle, Named, NamedPcs, GrantedPcs,
              RegisteredWasGranted, NoStaleStream

\* Every reachable state is well typed: no operation on the shared maps stores
\* a null student or a null stream.
THEOREM TypeCorrect == Spec => []TypeOK
<1>1. Init => Control
  BY InitialState DEF IInv
<1>2. Control /\ [Next]_vars => Control'
  BY ControlInductive
<1>3. Control => TypeOK
  BY DEF Control
<1> QED
  BY <1>1, <1>2, <1>3, PTL DEF Spec

\* A registered stream is always that of an accepted login under that very
\* name, whether or not collection operations overlap; and, when they do not,
\* a connection that has run its removals is in nobody's name.
THEOREM RegistrySafe == Spec => [](RegisteredWasGranted /\ NoStaleStream)
<1>1. Init => IInv
  BY InitialState
<1>2. IInv /\ [Next]_vars => IInv'
  BY ControlInductive, RegistryInductive DEF IInv
<1>3. IInv => RegisteredWasGranted /\ NoStaleStream
  BY DEF IInv
<1> QED
  BY <1>1, <1>2, <1>3, PTL DEF Spec

-----------------------------------------------------------------------------
(* The session of a student who has one connection.                        *)

\* No other connection logs in under the name of c.
Sole(c) == \A d \in Connections \ {c} : student[d] # student[c]

\* A handler's user is the one its client named, known of all it accepted.
Known == \A c \in Connections :
  /\ user[c] \in {None, student[c]}
  /\ client[c] = "off" => user[c] = None /\ student[c] = None
  /\ c \in granted => user[c] \in Students

\* The verdict comes once, and before the updates of the registry.
Accepted == \A c \in granted :
  pc[c] \notin {"idle", "readLogin", "findUser", "getIP", "loginFail",
                "loginOk"}

\* Where the handler is once it has put the address, the stream and the name
\* in place and has not taken them out.
Placed == {"addStream", "addUser", "loop", "listUsers", "listOnline", "died",
           "removeStream", "removeIP"}
Streamed == Placed \ {"addStream", "removeIP"}
Listed == Streamed \ {"addUser"}

InPlace == ~Overlapping => \A c \in granted : Sole(c) =>
  /\ pc[c] \in Placed => ip[user[c]] = addr[c]
  /\ pc[c] \in Streamed => oos[user[c]] = c
  /\ pc[c] \in Listed => user[c] \in users

SoloInv == Control /\ Known /\ Accepted /\ InPlace

\* Every step keeps what is in place for such a connection: the operations of
\* the others are on other names.
LEMMA SoloInductive ==
  ASSUME SoloInv, [Next]_vars
  PROVE  Known' /\ Accepted' /\ InPlace'
<1> DEFINE Goal == Known' /\ Accepted' /\ InPlace'
<1> USE NoneAssumption DEF SoloInv, Control
<1> SUFFICES Goal
  OBVIOUS
<1>1. CASE UNCHANGED vars
  BY <1>1 DEF vars, registry, Known, Accepted, InPlace, Sole, Placed,
     Streamed, Listed, OffIsIdle, Named, NamedPcs, GrantedPcs, TypeOK
<1>2. ASSUME NEW c \in Connections, NEW s \in Students, NEW a \in Addrs,
             Connect(c, s, a)
      PROVE  Goal
  BY <1>2 DEF Connect, registry, Known, Accepted, InPlace, Sole, Placed,
     Streamed, Listed, OffIsIdle, Named, NamedPcs, GrantedPcs, TypeOK
<1>3. ASSUME NEW c \in Connections, ReadVerdict(c) PROVE Goal
  BY <1>3 DEF ReadVerdict, registry, Known, Accepted, InPlace, Sole, Placed,
     Streamed, Listed, OffIsIdle, Named, NamedPcs, GrantedPcs, TypeOK
<1>4. ASSUME NEW c \in Connections, NEW m \in {"LOOKUP_STD", "FILE_REQUEST"},
             SendCommand(c, m)
      PROVE  Goal
  BY <1>4 DEF SendCommand, registry, Known, Accepted, InPlace, Sole, Placed,
     Streamed, Listed, OffIsIdle, Named, NamedPcs, GrantedPcs, TypeOK
<1>5. ASSUME NEW c \in Connections, ReadReply(c) PROVE Goal
  BY <1>5 DEF ReadReply, registry, Known, Accepted, InPlace, Sole, Placed,
     Streamed, Listed, OffIsIdle, Named, NamedPcs, GrantedPcs, TypeOK
<1>6. ASSUME NEW c \in Connections, Disconnect(c) PROVE Goal
  BY <1>6 DEF Disconnect, registry, Known, Accepted, InPlace, Sole, Placed,
     Streamed, Listed, OffIsIdle, Named, NamedPcs, GrantedPcs, TypeOK
<1>7. ASSUME NEW c \in Connections, ReadLogin(c) PROVE Goal
  BY <1>7 DEF ReadLogin, registry, Goto, Known, Accepted, InPlace, Sole,
     Placed, Streamed, Listed, OffIsIdle, Named, NamedPcs, GrantedPcs, TypeOK
<1>8. ASSUME NEW c \in Connections, LoginLost(c) PROVE Goal
  BY <1>8 DEF LoginLost, registry, Goto, Known, Accepted, InPlace, Sole,
     Placed, Streamed, Listed, OffIsIdle, Named, NamedPcs, GrantedPcs, TypeOK
<1>9. ASSUME NEW c \in Connections, FindUser(c) PROVE Goal
  BY <1>9 DEF FindUser, registry, Goto, Known, Accepted, InPlace, Sole,
     Placed, Streamed, Listed, OffIsIdle, Named, NamedPcs, GrantedPcs, TypeOK
<1>10. ASSUME NEW c \in Connections, GetIP(c) PROVE Goal
  BY <1>10 DEF GetIP, registry, Goto, Known, Accepted, InPlace, Sole, Placed,
     Streamed, Listed, OffIsIdle, Named, NamedPcs, GrantedPcs, TypeOK
<1>11. ASSUME NEW c \in Connections, LoginFail(c) PROVE Goal
  BY <1>11 DEF LoginFail, registry, Goto, Known, Accepted, InPlace, Sole,
     Placed, Streamed, Listed, OffIsIdle, Named, NamedPcs, GrantedPcs, TypeOK
<1>12. ASSUME NEW c \in Connections, LoginOk(c) PROVE Goal
  BY <1>12 DEF LoginOk, registry, Goto, Known, Accepted, InPlace, Sole,
     Placed, Streamed, Listed, OffIsIdle, Named, NamedPcs, GrantedPcs, TypeOK
<1>13. ASSUME NEW c \in Connections, LoginOkLost(c) PROVE Goal
  BY <1>13 DEF LoginOkLost, registry, Goto, Known, Accepted, InPlace, Sole,
     Placed, Streamed, Listed, OffIsIdle, Named, NamedPcs, GrantedPcs, TypeOK
<1>14. ASSUME NEW c \in Connections, AddIP(c) PROVE Goal
  BY <1>14 DEF AddIP, registry, Goto, Overlapped, Known, Accepted, InPlace,
     Sole, Placed, Streamed, Listed, OffIsIdle, Named, NamedPcs, GrantedPcs,
     TypeOK
<1>15. ASSUME NEW c \in Connections, AddStream(c) PROVE Goal
  BY <1>15 DEF AddStream, registry, Goto, Overlapped, Known, Accepted,
     InPlace, Sole, Placed, Streamed, Listed, OffIsIdle, Named, NamedPcs,
     GrantedPcs, TypeOK
<1>16. ASSUME NEW c \in Connections, AddUser(c) PROVE Goal
  BY <1>16 DEF AddUser, registry, Goto, Overlapped, Known, Accepted, InPlace,
     Sole, Placed, Streamed, Listed, OffIsIdle, Named, NamedPcs, GrantedPcs,
     TypeOK
<1>17. ASSUME NEW c \in Connections, ReceiveMsg(c) PROVE Goal
  BY <1>17 DEF ReceiveMsg, registry, Goto, Known, Accepted, InPlace, Sole,
     Placed, Streamed, Listed, OffIsIdle, Named, NamedPcs, GrantedPcs, TypeOK
<1>18. ASSUME NEW c \in Connections, ListUsers(c) PROVE Goal
  BY <1>18 DEF ListUsers, registry, Goto, Overlapped, Known, Accepted,
     InPlace, Sole, Placed, Streamed, Listed, OffIsIdle, Named, NamedPcs,
     GrantedPcs, TypeOK
<1>19. ASSUME NEW c \in Connections, ListOnline(c) PROVE Goal
  BY <1>19 DEF ListOnline, registry, Goto, Overlapped, Known, Accepted,
     InPlace, Sole, Placed, Streamed, Listed, OffIsIdle, Named, NamedPcs,
     GrantedPcs, TypeOK
<1>20. ASSUME NEW c \in Connections, ConnectionLost(c) PROVE Goal
  BY <1>20 DEF ConnectionLost, registry, Goto, Known, Accepted, InPlace, Sole,
     Placed, Streamed, Listed, OffIsIdle, Named, NamedPcs, GrantedPcs, TypeOK
<1>21. ASSUME NEW c \in Connections, RemoveStream(c) PROVE Goal
  BY <1>21 DEF RemoveStream, registry, Goto, Overlapped, Known, Accepted,
     InPlace, Sole, Placed, Streamed, Listed, OffIsIdle, Named, NamedPcs,
     GrantedPcs, TypeOK
<1>22. ASSUME NEW c \in Connections, RemoveIP(c) PROVE Goal
  BY <1>22 DEF RemoveIP, registry, Goto, Overlapped, Known, Accepted, InPlace,
     Sole, Placed, Streamed, Listed, OffIsIdle, Named, NamedPcs, GrantedPcs,
     TypeOK
<1> QED
  BY <1>1, <1>2, <1>3, <1>4, <1>5, <1>6, <1>7, <1>8, <1>9, <1>10, <1>11,
     <1>12, <1>13, <1>14, <1>15, <1>16, <1>17, <1>18, <1>19, <1>20, <1>21,
     <1>22
     DEF Next, Handler, Client

LEMMA SoloInitially == Init => SoloInv
<1>1. Init => Control
  BY InitialState DEF IInv
<1> QED
  BY <1>1 DEF Init, SoloInv, Known, Accepted, InPlace

\* A student who uses one connection stays registered, stream, address and
\* name, for as long as the handler serves it, whatever the other students and
\* their handlers do meanwhile, as long as collection operations are atomic.
THEOREM SoloStaysRegistered == Spec => []SoloSessionRegistered
<1>1. Init => SoloInv
  BY SoloInitially
<1>2. SoloInv /\ [Next]_vars => SoloInv'
  BY SoloInductive, ControlInductive DEF SoloInv
<1>3. ASSUME SoloInv PROVE SoloSessionRegistered
  <2>1. {"loop", "listUsers", "listOnline", "died"} \subseteq Listed
    BY DEF Listed, Streamed, Placed
  <2>2. Listed \subseteq Streamed /\ Streamed \subseteq Placed
    BY DEF Listed, Streamed
  <2>3. granted \subseteq Connections
    BY <1>3 DEF SoloInv, Control, TypeOK
  <2> QED
    BY <1>3, <2>1, <2>2, <2>3
      DEF SoloInv, InPlace, Sole, SoloSessionRegistered
<1> QED
  BY <1>1, <1>2, <1>3, PTL DEF Spec

\* When collection operations do not overlap, a connection that has run its
\* removals is nobody's registered stream, although the removal is by name and
\* several connections may share the name (Server.java 221).
THEOREM NoStreamGoesStale == Spec => []NoStaleStream
BY RegistrySafe, PTL
=============================================================================

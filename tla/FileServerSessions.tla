------------------------- MODULE FileServerSessions -------------------------
(***************************************************************************)
(* Login, the session registry and disconnection of the file server        *)
(* (Server/Server.java), together with the message connection of its       *)
(* client (Client/Client.java).                                            *)
(*                                                                         *)
(* Every accepted message connection gets one Handler thread.  The threads *)
(* share three unsynchronised collections: users (who ever logged in), oos *)
(* (student -> output stream of the session) and ip (student -> address).  *)
(* One action below is one operation on a collection, one read or one      *)
(* write of the socket; the threads interleave between any two of them.    *)
(* A connection stands for its handler and for its stream in oos.          *)
(***************************************************************************)
EXTENDS Naturals, FiniteSets

CONSTANTS
  Connections,   \* message connections; each is used once
  Students,      \* student ids
  Addrs,         \* client addresses
  None,          \* absent map entry, unset field or empty pipe
  Overlapping    \* may two threads be INSIDE operations of one collection?
                 \* FALSE: each collection operation is atomic.  TRUE: an
                 \* overlapped update of a HashMap may be lost, and an
                 \* overlapped iteration may throw

ASSUME NoneAssumption ==
  /\ None \notin Connections /\ None \notin Students /\ None \notin Addrs
ASSUME OverlappingAssumption == Overlapping \in BOOLEAN

VARIABLES
  users,    \* Server.users
  oos,      \* Server.oos
  ip,       \* Server.ip
  pc,       \* where the handler thread of a connection is
  user,     \* Handler.user
  client,   \* the client's side of a connection
  student,  \* the id the client of a connection logs in with
  addr,     \* the address it connects from
  req,      \* client -> server pipe: at most one message, the client waits
  reply,    \* server -> client pipe: likewise
  ever,     \* the first half of a student list under construction
  granted   \* history: connections for which LOGIN_OK was chosen and written

registry == <<users, oos, ip>>
vars == <<users, oos, ip, pc, user, client, student, addr, req, reply, ever,
          granted>>

HandlerPcs == {"idle", "readLogin", "findUser", "getIP", "loginFail",
               "loginOk", "addIP", "addStream", "addUser", "loop",
               "listUsers", "listOnline", "removeStream", "removeIP",
               "ended", "died"}
ClientStates == {"off", "login", "menu", "waiting", "closed"}
Requests == {"LOGIN_REQUEST", "LOOKUP_STD", "FILE_REQUEST"}
Replies == [type : {"none", "LOGIN_OK", "LOGIN_FAIL", "LIST"},
            ever : SUBSET Students, online : SUBSET Students]
Plain(t) == [type |-> t, ever |-> {}, online |-> {}]

TypeOK ==
  /\ users \subseteq Students
  /\ oos \in [Students -> Connections \cup {None}]
  /\ ip \in [Students -> Addrs \cup {None}]
  /\ pc \in [Connections -> HandlerPcs]
  /\ user \in [Connections -> Students \cup {None}]
  /\ client \in [Connections -> ClientStates]
  /\ student \in [Connections -> Students \cup {None}]
  /\ addr \in [Connections -> Addrs \cup {None}]
  /\ req \in [Connections -> Requests \cup {None}]
  /\ reply \in [Connections -> Replies]
  /\ ever \in [Connections -> SUBSET Students]
  /\ granted \subseteq Connections

Init ==
  /\ users = {}
  /\ oos = [s \in Students |-> None]
  /\ ip = [s \in Students |-> None]
  /\ pc = [c \in Connections |-> "idle"]
  /\ user = [c \in Connections |-> None]
  /\ client = [c \in Connections |-> "off"]
  /\ student = [c \in Connections |-> None]
  /\ addr = [c \in Connections |-> None]
  /\ req = [c \in Connections |-> None]
  /\ reply = [c \in Connections |-> Plain("none")]
  /\ ever = [c \in Connections |-> {}]
  /\ granted = {}

-----------------------------------------------------------------------------
(* The client.                                                             *)

\* Client.run: connect, then send LOGIN_REQUEST; FileHandler.run accepts.
Connect(c, s, a) ==
  /\ client[c] = "off"
  /\ client' = [client EXCEPT ![c] = "login"]
  /\ student' = [student EXCEPT ![c] = s]
  /\ addr' = [addr EXCEPT ![c] = a]
  /\ req' = [req EXCEPT ![c] = "LOGIN_REQUEST"]
  /\ pc' = [pc EXCEPT ![c] = "readLogin"]
  /\ UNCHANGED <<registry, user, reply, ever, granted>>

\* Client.login reads the verdict; after LOGIN_FAIL it closes the socket.
ReadVerdict(c) ==
  /\ client[c] = "login"
  /\ reply[c].type \in {"LOGIN_OK", "LOGIN_FAIL"}
  /\ client' = [client EXCEPT ![c] =
                  IF reply[c].type = "LOGIN_OK" THEN "menu" ELSE "closed"]
  /\ reply' = [reply EXCEPT ![c] = Plain("none")]
  /\ UNCHANGED <<registry, pc, user, student, addr, req, ever, granted>>

\* Client.run: menu option 1 (LOOKUP_STD) or 4, a FILE_REQUEST that carries a
\* Request and no file; the client then blocks on the reply.
SendCommand(c, m) ==
  /\ client[c] = "menu"
  /\ client' = [client EXCEPT ![c] = "waiting"]
  /\ req' = [req EXCEPT ![c] = m]
  /\ UNCHANGED <<registry, pc, user, student, addr, reply, ever, granted>>

ReadReply(c) ==
  /\ client[c] = "waiting"
  /\ reply[c].type # "none"
  /\ client' = [client EXCEPT ![c] = "menu"]
  /\ reply' = [reply EXCEPT ![c] = Plain("none")]
  /\ UNCHANGED <<registry, pc, user, student, addr, req, ever, granted>>

\* The client process ends or its connection breaks; a message still in the
\* pipe reaches the server or is lost.
Disconnect(c) ==
  /\ client[c] \in {"login", "menu", "waiting"}
  /\ client' = [client EXCEPT ![c] = "closed"]
  /\ \E m \in {req[c], None} : req' = [req EXCEPT ![c] = m]
  /\ reply' = [reply EXCEPT ![c] = Plain("none")]
  /\ UNCHANGED <<registry, pc, user, student, addr, ever, granted>>

-----------------------------------------------------------------------------
(* The handler thread.                                                     *)

Goto(c, l) == pc' = [pc EXCEPT ![c] = l]

\* What a write to the socket puts in the pipe: a closed client reads nothing.
Write(c, m) ==
  reply' = IF client[c] = "closed" THEN reply ELSE [reply EXCEPT ![c] = m]

\* Another thread is about to execute one of the operations at labels.
Overlapped(c, labels) ==
  Overlapping /\ \E d \in Connections \ {c} : pc[d] \in labels

StreamWrites == {"addStream", "removeStream"}
IPWrites == {"addIP", "removeIP"}

ReadLogin(c) ==
  /\ pc[c] = "readLogin"
  /\ req[c] = "LOGIN_REQUEST"
  /\ req' = [req EXCEPT ![c] = None]
  /\ user' = [user EXCEPT ![c] = student[c]]
  /\ Goto(c, "findUser")
  /\ UNCHANGED <<registry, client, student, addr, reply, ever, granted>>

\* The read throws: handleLogin swallows the exception, user stays null.
LoginLost(c) ==
  /\ pc[c] = "readLogin"
  /\ client[c] = "closed" /\ req[c] = None
  /\ Goto(c, "loop")
  /\ UNCHANGED <<registry, user, client, student, addr, req, reply, ever,
                 granted>>

FindUser(c) ==
  /\ pc[c] = "findUser"
  /\ Goto(c, IF oos[user[c]] = None THEN "loginOk" ELSE "getIP")
  /\ UNCHANGED <<registry, user, client, student, addr, req, reply, ever,
                 granted>>

\* getIP(user).equals(..) on an address that is no longer there throws a
\* NullPointerException, which nothing in the thread catches.
GetIP(c) ==
  /\ pc[c] = "getIP"
  /\ Goto(c, IF ip[user[c]] = None THEN "died"
             ELSE IF ip[user[c]] = addr[c] THEN "loginOk" ELSE "loginFail")
  /\ UNCHANGED <<registry, user, client, student, addr, req, reply, ever,
                 granted>>

\* Mutant of LoginFail: a missing return, the refusal falls through.
LoginFailFallsThrough(c) ==
  /\ pc[c] = "loginFail"
  /\ Write(c, Plain("LOGIN_FAIL"))
  /\ Goto(c, "addIP")
  /\ UNCHANGED <<registry, user, client, student, addr, req, ever, granted>>

\* Mutant of LoginFail: the verdict is not sent.
LoginFailSilently(c) ==
  /\ pc[c] = "loginFail"
  /\ Goto(c, "loop")
  /\ UNCHANGED <<registry, user, client, student, addr, req, reply, ever,
                 granted>>

\* The refused connection goes on to the command loop, its user field set.
LoginFail(c) ==
  /\ pc[c] = "loginFail"
  /\ Write(c, Plain("LOGIN_FAIL"))
  /\ Goto(c, "loop")
  /\ UNCHANGED <<registry, user, client, student, addr, req, ever, granted>>

\* Mutant of LoginOk: the address is not registered.
LoginOkSkipsIP(c) ==
  /\ pc[c] = "loginOk"
  /\ Write(c, Plain("LOGIN_OK"))
  /\ granted' = granted \cup {c}
  /\ Goto(c, "addStream")
  /\ UNCHANGED <<registry, user, client, student, addr, req, ever>>

\* LOGIN_OK is written BEFORE the three registry updates.
LoginOk(c) ==
  /\ pc[c] = "loginOk"
  /\ Write(c, Plain("LOGIN_OK"))
  /\ granted' = granted \cup {c}
  /\ Goto(c, "addIP")
  /\ UNCHANGED <<registry, user, client, student, addr, req, ever>>

\* Writing LOGIN_OK throws: no registration.
LoginOkLost(c) ==
  /\ pc[c] = "loginOk"
  /\ client[c] = "closed"
  /\ Goto(c, "loop")
  /\ UNCHANGED <<registry, user, client, student, addr, req, reply, ever,
                 granted>>

\* Mutant of AddIP: key and value are swapped.
AddIPSwapped(c) ==
  /\ pc[c] = "addIP"
  /\ ip' = [ip EXCEPT ![user[c]] = user[c]]
  /\ Goto(c, "addStream")
  /\ UNCHANGED <<users, oos, user, client, student, addr, req, reply, ever,
                 granted>>

AddIP(c) ==
  /\ pc[c] = "addIP"
  /\ \/ ip' = [ip EXCEPT ![user[c]] = addr[c]]
     \/ Overlapped(c, IPWrites) /\ ip' = ip
  /\ Goto(c, "addStream")
  /\ UNCHANGED <<users, oos, user, client, student, addr, req, reply, ever,
                 granted>>

AddStream(c) ==
  /\ pc[c] = "addStream"
  /\ \/ oos' = [oos EXCEPT ![user[c]] = c]
     \/ Overlapped(c, StreamWrites) /\ oos' = oos
  /\ Goto(c, "addUser")
  /\ UNCHANGED <<users, ip, user, client, student, addr, req, reply, ever,
                 granted>>

AddUser(c) ==
  /\ pc[c] = "addUser"
  /\ \/ users' = users \cup {user[c]}
     \/ Overlapped(c, {"addUser"}) /\ users' = users
  /\ Goto(c, "loop")
  /\ UNCHANGED <<oos, ip, user, client, student, addr, req, reply, ever,
                 granted>>

\* run: receiveMsg and the dispatch of handleCommand.  A FILE_REQUEST without
\* a file makes handleFileUploadRequest dereference null: the thread dies with
\* its registration in place.
ReceiveMsg(c) ==
  /\ pc[c] = "loop"
  /\ req[c] # None
  /\ Goto(c, IF req[c] = "LOOKUP_STD" THEN "listUsers" ELSE "died")
  /\ req' = [req EXCEPT ![c] = None]
  /\ UNCHANGED <<registry, user, client, student, addr, reply, ever, granted>>

\* getStudentList, first half: users.toString() iterates the set.
ListUsers(c) ==
  /\ pc[c] = "listUsers"
  /\ \/ Goto(c, "listOnline") /\ ever' = [ever EXCEPT ![c] = users]
     \/ Overlapped(c, {"addUser"}) /\ Goto(c, "died") /\ ever' = ever
  /\ UNCHANGED <<registry, user, client, student, addr, req, reply, granted>>

\* Second half: the key set of oos, then the reply.
ListOnline(c) ==
  /\ pc[c] = "listOnline"
  /\ \/ /\ Goto(c, "loop")
        /\ Write(c, [type |-> "LIST", ever |-> ever[c],
                     online |-> {s \in Students : oos[s] # None}])
     \/ Overlapped(c, StreamWrites) /\ Goto(c, "died") /\ reply' = reply
  /\ ever' = [ever EXCEPT ![c] = {}]
  /\ UNCHANGED <<registry, user, client, student, addr, req, granted>>

\* Mutant of ConnectionLost: the stream is not removed.
ConnectionLostKeepsStream(c) ==
  /\ pc[c] = "loop"
  /\ client[c] = "closed" /\ req[c] = None
  /\ Goto(c, "removeIP")
  /\ UNCHANGED <<registry, user, client, student, addr, req, reply, ever,
                 granted>>

\* Mutant of ConnectionLost: the exception does not end the loop.
ConnectionLostRetries(c) ==
  /\ pc[c] = "loop"
  /\ client[c] = "closed" /\ req[c] = None
  /\ UNCHANGED vars

\* receiveMsg throws: the three removals of run's handler follow.
ConnectionLost(c) ==
  /\ pc[c] = "loop"
  /\ client[c] = "closed" /\ req[c] = None
  /\ Goto(c, "removeStream")
  /\ UNCHANGED <<registry, user, client, student, addr, req, reply, ever,
                 granted>>

\* removeStream(user), then removeFileStream(user), which is a no-op here: a
\* file stream is only ever stored under the key null.
RemoveStream(c) ==
  /\ pc[c] = "removeStream"
  /\ \/ oos' = [s \in Students |-> IF s = user[c] THEN None ELSE oos[s]]
     \/ Overlapped(c, StreamWrites) /\ oos' = oos
  /\ Goto(c, "removeIP")
  /\ UNCHANGED <<users, ip, user, client, student, addr, req, reply, ever,
                 granted>>

RemoveIP(c) ==
  /\ pc[c] = "removeIP"
  /\ \/ ip' = [s \in Students |-> IF s = user[c] THEN None ELSE ip[s]]
     \/ Overlapped(c, IPWrites) /\ ip' = ip
  /\ Goto(c, "ended")
  /\ UNCHANGED <<users, oos, user, client, student, addr, req, reply, ever,
                 granted>>

-----------------------------------------------------------------------------
Handler(c) ==
  \/ ReadLogin(c) \/ LoginLost(c) \/ FindUser(c) \/ GetIP(c)
  \/ LoginFail(c) \/ LoginOk(c) \/ LoginOkLost(c)
  \/ AddIP(c) \/ AddStream(c) \/ AddUser(c)
  \/ ReceiveMsg(c) \/ ListUsers(c) \/ ListOnline(c)
  \/ ConnectionLost(c) \/ RemoveStream(c) \/ RemoveIP(c)

Client(c) ==
  \/ \E s \in Students, a \in Addrs : Connect(c, s, a)
  \/ ReadVerdict(c)
  \/ \E m \in {"LOOKUP_STD", "FILE_REQUEST"} : SendCommand(c, m)
  \/ ReadReply(c)
  \/ Disconnect(c)

Next == \E c \in Connections : Handler(c) \/ Client(c)

Spec == Init /\ [][Next]_vars

\* A runnable thread is eventually scheduled, and a client blocked in
\* readObject takes a reply that has arrived.  Nothing makes a person
\* connect, choose a menu entry or leave.
Fairness == \A c \in Connections :
  WF_vars(Handler(c)) /\ WF_vars(ReadVerdict(c)) /\ WF_vars(ReadReply(c))

FairSpec == Spec /\ Fairness

-----------------------------------------------------------------------------
(* Properties.                                                             *)

\* A stream in oos, the one broadcasts go to, is that of a connection that
\* logged in under exactly that name and was accepted: never of a refused
\* connection, of one whose login was lost, or of another student.
\* (Server.java 244-256, 221)
RegisteredWasGranted ==
  \A s \in Students : oos[s] # None =>
    /\ oos[s] \in granted
    /\ user[oos[s]] = s

\* With atomic collection operations, a connection whose thread has run its
\* removals never remains (or becomes) anybody's registered stream, although
\* the removal is by name and several connections may share the name.
NoStaleStream ==
  ~Overlapping => \A s \in Students :
    oos[s] # None => pc[oos[s]] \notin {"removeIP", "ended"}

\* A student who uses one connection only is registered for as long as the
\* handler serves it: stream, address and name, whatever other students do.
SoloSessionRegistered ==
  ~Overlapping => \A c \in granted :
    (/\ pc[c] \in {"loop", "listUsers", "listOnline", "died"}
     /\ \A d \in Connections \ {c} : student[d] # student[c])
    => /\ oos[user[c]] = c
       /\ ip[user[c]] = addr[c]
       /\ user[c] \in users

\* A login request is answered, unless the handler thread died on the null
\* address of a student who was being removed.
LoginAnswered == \A c \in Connections :
  (client[c] = "login") ~> (client[c] # "login" \/ pc[c] = "died")

\* The thread of a closed connection runs to the end of its removals, unless
\* it died of an unchecked exception before.
ClosedIsCleanedUp == \A c \in Connections :
  (client[c] = "closed") ~> (pc[c] \in {"ended", "died"})

(* Statements of the assignment the code does not meet.                    *)

\* "each student is mapped to a single IP address at any instance"
SingleAddress ==
  \A c, d \in Connections :
    (/\ client[c] \in {"menu", "waiting"} /\ client[d] \in {"menu", "waiting"}
     /\ student[c] = student[d])
    => addr[c] = addr[d]

\* "A student goes offline if he/she logs out or gets disconnected."
DisconnectedGoesOffline == \A c \in Connections, s \in Students :
  (client[c] = "closed") ~> (oos[s] # c)

\* "the list of all the students who were connected at least once [...] The
\* students who are currently online should be distinguishable in the list"
OnlineAreInList ==
  \A c \in Connections : reply[c].online \subseteq reply[c].ever
=============================================================================

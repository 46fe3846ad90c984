----------------------------- MODULE FileUpload -----------------------------
(***************************************************************************)
(* Uploading a file: the budget negotiation on the message connection, the *)
(* chunk-by-chunk transfer on a file connection of its own, the            *)
(* publication of the file in its owner's list, and the two list look-ups  *)
(* that share those lists (Server/Server.java, Client/Client.java).        *)
(*                                                                         *)
(* An upload stands for one FILE_REQUEST with its file, for the FileClient *)
(* thread that sends the file and for the Handler thread that receives it. *)
(* A chunk is its number; 0 is the FILE_INIT message.                      *)
(***************************************************************************)
EXTENDS Naturals, Sequences, FiniteSetsExt

CONSTANTS
  Uploads,         \* upload attempts
  Students,        \* owners of files, and users of the look-ups
  OwnerOf,         \* the student an upload belongs to
  SizeOf,          \* File.getFileSize()
  PublicUploads,   \* the uploads whose file is public
  MaxBufferSize,   \* Server.MAX_BUFFER_SIZE
  ChunkSizes,      \* what Server.getChunkSize() may draw
  None,            \* null: absent from files, or an entry of a torn list
  Overlapping,     \* may two threads be inside files, or one of its lists?
  Breaking,        \* bound: the uploads whose connection may break
  Lookups          \* bound: the look-ups used: who asks, whose list, is it
                   \* LOOKUP_FILES_OTHER (public files) or _SELF?

ASSUME UploadAssumption ==
  /\ OwnerOf \in [Uploads -> Students]
  /\ SizeOf \in [Uploads -> Nat]
  /\ PublicUploads \subseteq Uploads
  /\ MaxBufferSize \in Nat
  /\ ChunkSizes \subseteq Nat \ {0}
  /\ None \notin Students /\ None \notin Uploads
  /\ Uploads \cap Students = {}
  /\ \A S \in SUBSET (Uploads \cup {None}) : S # None
  /\ Breaking \subseteq Uploads
  /\ Lookups \subseteq Students \X Students \X BOOLEAN
  /\ \A l \in Lookups : ~l[3] => l[2] = l[1]
  /\ Overlapping \in BOOLEAN

VARIABLES
  bufferUsed,  \* Server.BUFFER_USED
  files,       \* Server.files: student -> uploads in the list, or None
               \* (None in a list: an array slot left null)
  fos,         \* Server.fos at its only key, null: a file connection
  phase,       \* an upload as its client's menu sees it
  verdict,     \* the server's answer: "none", "FILE_ACCEPT", "BUFFER_FULL"
  chunkSize,   \* File.CHUNK_SIZE, 0 until accepted
  fc,          \* the FileClient thread
  next,        \* i+1 in its loop: the number of the chunk to send
  told,        \* has it read FILE_UL_COMPLETE?
  up,          \* is the file connection unbroken?
  c2s, s2c,    \* the two directions of the file connection
  fh,          \* the Handler thread of the file connection
  got,         \* its chunks list
  saved,       \* uploads written to disk
  look         \* a look-up in progress, per asking student

message == <<phase, verdict, chunkSize, bufferUsed>>
fileClient == <<fc, next, told, up>>
fileHandler == <<fh, got, saved, fos>>
vars == <<message, fileClient, fileHandler, c2s, s2c, files, look>>

\* File.split: totalChunks = ceil(fileSize / CHUNK_SIZE).
TotalChunks(u) ==
  IF chunkSize[u] = 0 THEN 0
  ELSE (SizeOf[u] + chunkSize[u] - 1) \div chunkSize[u]

OneTo(n) == [i \in 1..n |-> i]

Types == {"CHUNK_RECEIVED", "FILE_UL_COMPLETE"}
Handling == {"idle", "fsLogin", "loop", "upload", "complete", "findList",
             "putList", "putRaced", "add", "save", "ended", "died"}
Looks == [at : {"idle", "putList", "putRaced", "list", "died"},
          of : Students \cup {None}, public : BOOLEAN]
Lists == SUBSET (Uploads \cup {None})
NoLook == [at |-> "idle", of |-> None, public |-> FALSE]

TypeOK ==
  /\ bufferUsed \in Nat
  /\ files \in [Students -> Lists \cup {None}]
  /\ fos \in Uploads \cup {None}
  /\ phase \in [Uploads -> {"idle", "asked", "accepted", "refused"}]
  /\ verdict \in [Uploads -> {"none", "FILE_ACCEPT", "BUFFER_FULL"}]
  /\ chunkSize \in [Uploads -> ChunkSizes \cup {0}]
  /\ fc \in [Uploads -> {"off", "send", "wait", "done", "broken"}]
  /\ next \in [Uploads -> Nat]
  /\ told \in [Uploads -> BOOLEAN]
  /\ up \in [Uploads -> BOOLEAN]
  /\ c2s \in [Uploads -> Seq(Nat)]
  /\ s2c \in [Uploads -> Seq(Types)]
  /\ fh \in [Uploads -> Handling]
  /\ got \in [Uploads -> Seq(Nat)]
  /\ saved \subseteq Uploads
  /\ look \in [Students -> Looks]

Init ==
  /\ bufferUsed = 0
  /\ files = [s \in Students |-> None]
  /\ fos = None
  /\ phase = [u \in Uploads |-> "idle"]
  /\ verdict = [u \in Uploads |-> "none"]
  /\ chunkSize = [u \in Uploads |-> 0]
  /\ fc = [u \in Uploads |-> "off"]
  /\ next = [u \in Uploads |-> 1]
  /\ told = [u \in Uploads |-> FALSE]
  /\ up = [u \in Uploads |-> TRUE]
  /\ c2s = [u \in Uploads |-> <<>>]
  /\ s2c = [u \in Uploads |-> <<>>]
  /\ fh = [u \in Uploads |-> "idle"]
  /\ got = [u \in Uploads |-> <<>>]
  /\ saved = {}
  /\ look = [s \in Students |-> NoLook]

-----------------------------------------------------------------------------
(* The message connection: FILE_REQUEST and its answer.                    *)

\* The menu is blocked while a request of the student is unanswered.
Free(s) ==
  /\ look[s].at = "idle"
  /\ \A u \in Uploads : OwnerOf[u] = s => phase[u] # "asked"

\* Client.handleCommand, option 5.
RequestUpload(u) ==
  /\ phase[u] = "idle"
  /\ Free(OwnerOf[u])
  /\ phase' = [phase EXCEPT ![u] = "asked"]
  /\ UNCHANGED <<verdict, chunkSize, bufferUsed, fileClient, fileHandler,
                 c2s, s2c, files, look>>

\* Mutant of UseBuffer: the limit is not tested.
UseBufferUnchecked(size) == bufferUsed' = bufferUsed + size

\* Server.useBuffer: test and update in one synchronized method.
UseBuffer(size) ==
  /\ ~(size > MaxBufferSize - bufferUsed)
  /\ bufferUsed' = bufferUsed + size

AcceptRequest(u) ==
  /\ phase[u] = "asked" /\ verdict[u] = "none"
  /\ UseBuffer(SizeOf[u])
  /\ verdict' = [verdict EXCEPT ![u] = "FILE_ACCEPT"]
  /\ \E n \in ChunkSizes : chunkSize' = [chunkSize EXCEPT ![u] = n]
  /\ UNCHANGED <<phase, fileClient, fileHandler, c2s, s2c, files, look>>

\* Mutant of RefuseRequest: >= for >.
RefuseRequestAtLimit(u) ==
  /\ phase[u] = "asked" /\ verdict[u] = "none"
  /\ SizeOf[u] >= MaxBufferSize - bufferUsed
  /\ verdict' = [verdict EXCEPT ![u] = "BUFFER_FULL"]
  /\ UNCHANGED <<phase, chunkSize, bufferUsed, fileClient, fileHandler, c2s,
                 s2c, files, look>>

RefuseRequest(u) ==
  /\ phase[u] = "asked" /\ verdict[u] = "none"
  /\ SizeOf[u] > MaxBufferSize - bufferUsed
  /\ verdict' = [verdict EXCEPT ![u] = "BUFFER_FULL"]
  /\ UNCHANGED <<phase, chunkSize, bufferUsed, fileClient, fileHandler, c2s,
                 s2c, files, look>>

\* The client reads BUFFER_FULL and returns to its menu.
ReadRefusal(u) ==
  /\ phase[u] = "asked" /\ verdict[u] = "BUFFER_FULL"
  /\ phase' = [phase EXCEPT ![u] = "refused"]
  /\ UNCHANGED <<verdict, chunkSize, bufferUsed, fileClient, fileHandler, c2s,
                 s2c, files, look>>

\* Client.handleServerResponse: split the bytes, start a FileClient; its run
\* connects to the file port and writes FILE_INIT.
StartFileClient(u) ==
  /\ phase[u] = "asked" /\ verdict[u] = "FILE_ACCEPT"
  /\ phase' = [phase EXCEPT ![u] = "accepted"]
  /\ fc' = [fc EXCEPT ![u] = "send"]
  /\ c2s' = [c2s EXCEPT ![u] = <<0>>]
  /\ fh' = [fh EXCEPT ![u] = "fsLogin"]
  /\ UNCHANGED <<verdict, chunkSize, bufferUsed, next, told, up, got, saved,
                 fos, s2c, files, look>>

At(u, l) == fh[u] = l
Goto(u, l) == fh' = [fh EXCEPT ![u] = l]

-----------------------------------------------------------------------------
(* FileClient.run.                                                         *)

\* Mutant of SendChunk: the next chunk follows without a response.
SendChunkAhead(u) ==
  /\ fc[u] = "send" /\ next[u] <= TotalChunks(u)
  /\ c2s' = [c2s EXCEPT ![u] = Append(@, next[u])]
  /\ next' = [next EXCEPT ![u] = @ + 1]
  /\ UNCHANGED <<message, fc, told, up, fileHandler, s2c, files, look>>

SendChunk(u) ==
  /\ fc[u] = "send" /\ next[u] <= TotalChunks(u)
  /\ c2s' = [c2s EXCEPT ![u] = Append(@, next[u])]
  /\ fc' = [fc EXCEPT ![u] = "wait"]
  /\ UNCHANGED <<message, next, told, up, fileHandler, s2c, files, look>>

ReadResponse(u) ==
  /\ fc[u] = "wait" /\ s2c[u] # <<>>
  /\ told' = [told EXCEPT ![u] =
       @ \/ (Head(s2c[u]) = "FILE_UL_COMPLETE" /\ next[u] = TotalChunks(u))]
  /\ s2c' = [s2c EXCEPT ![u] = Tail(@)]
  /\ next' = [next EXCEPT ![u] = @ + 1]
  /\ fc' = [fc EXCEPT ![u] = "send"]
  /\ UNCHANGED <<message, up, fileHandler, c2s, files, look>>

\* Mutant of CloseSocket: the loop ends one chunk early.
CloseSocketEarly(u) ==
  /\ fc[u] = "send" /\ next[u] >= TotalChunks(u)
  /\ fc' = [fc EXCEPT ![u] = "done"]
  /\ s2c' = [s2c EXCEPT ![u] = <<>>]
  /\ UNCHANGED <<message, next, told, up, fileHandler, c2s, files, look>>

\* The loop is over: the socket is closed, whatever is unread in it is lost.
CloseSocket(u) ==
  /\ fc[u] = "send" /\ next[u] > TotalChunks(u)
  /\ fc' = [fc EXCEPT ![u] = "done"]
  /\ s2c' = [s2c EXCEPT ![u] = <<>>]
  /\ UNCHANGED <<message, next, told, up, fileHandler, c2s, files, look>>

\* The connection breaks or the client process ends: the thread is gone if it
\* had not finished, and of what it sent the server may still read a prefix.
\* Once the client is done only the completion message is left to be lost.
Break(u) ==
  /\ u \in Breaking /\ up[u]
  /\ fc[u] \in {"send", "wait"} \/ (fc[u] = "done" /\ At(u, "complete"))
  /\ fc' = [fc EXCEPT ![u] = IF @ = "done" THEN "done" ELSE "broken"]
  /\ up' = [up EXCEPT ![u] = FALSE]
  /\ \E n \in 0..Len(c2s[u]) :
       c2s' = [c2s EXCEPT ![u] = SubSeq(@, 1, n)]
  /\ s2c' = [s2c EXCEPT ![u] = <<>>]
  /\ UNCHANGED <<message, next, told, fileHandler, files, look>>

-----------------------------------------------------------------------------
(* The Handler of the file connection.                                     *)

\* Mutant of FSLogin: the student is stored for the stream.
FSLoginSwapped(u) ==
  /\ At(u, "fsLogin")
  /\ fos' = OwnerOf[u]
  /\ Goto(u, "loop")
  /\ UNCHANGED <<message, fileClient, got, saved, c2s, s2c, files, look>>

\* handleFSLogin: the handler's user is null, so every file connection is
\* stored under the key null.
FSLogin(u) ==
  /\ At(u, "fsLogin")
  /\ fos' = u
  /\ Goto(u, "loop")
  /\ UNCHANGED <<message, fileClient, got, saved, c2s, s2c, files, look>>

\* run: receiveMsg returns FILE_INIT.
ReceiveInit(u) ==
  /\ At(u, "loop") /\ c2s[u] # <<>>
  /\ c2s' = [c2s EXCEPT ![u] = Tail(@)]
  /\ Goto(u, "upload")
  /\ UNCHANGED <<message, fileClient, got, saved, fos, s2c, files, look>>

\* All answers of one upload are writes of the SAME Message object: after the
\* first one the stream carries a back reference, so the client sees the
\* contents of the first for ever.
Serialized(u, type) == IF got[u] = <<>> THEN type ELSE "CHUNK_RECEIVED"

\* A closed or broken client reads nothing any more.
Respond(u, type) ==
  s2c' = IF fc[u] \in {"done", "broken"} THEN s2c
         ELSE [s2c EXCEPT ![u] = Append(@, Serialized(u, type))]

\* Mutant of ReceiveChunk: the last chunk but one completes the file.
ReceiveChunkEarly(u) ==
  /\ At(u, "upload") /\ c2s[u] # <<>>
  /\ c2s' = [c2s EXCEPT ![u] = Tail(@)]
  /\ Respond(u, "CHUNK_RECEIVED")
  /\ got' = [got EXCEPT ![u] = Append(@, Head(c2s[u]))]
  /\ Goto(u, IF Head(c2s[u]) + 1 >= TotalChunks(u) THEN "complete"
             ELSE "upload")
  /\ UNCHANGED <<message, fileClient, saved, fos, files, look>>

\* handleFileUpload: read a chunk, acknowledge it, keep it.
ReceiveChunk(u) ==
  /\ At(u, "upload") /\ c2s[u] # <<>>
  /\ c2s' = [c2s EXCEPT ![u] = Tail(@)]
  /\ Respond(u, "CHUNK_RECEIVED")
  /\ got' = [got EXCEPT ![u] = Append(@, Head(c2s[u]))]
  /\ Goto(u, IF Head(c2s[u]) = TotalChunks(u) THEN "complete" ELSE "upload")
  /\ UNCHANGED <<message, fileClient, saved, fos, files, look>>

\* The acknowledgement of a chunk that was read cannot be written: the chunk
\* is not kept and the upload is given up.
AckFails(u) ==
  /\ At(u, "upload") /\ c2s[u] # <<>> /\ ~up[u]
  /\ c2s' = [c2s EXCEPT ![u] = Tail(@)]
  /\ Goto(u, "loop")
  /\ UNCHANGED <<message, fileClient, got, saved, fos, s2c, files, look>>

\* The end of the stream in the middle of an upload: give it up.
UploadLost(u) ==
  /\ At(u, "upload") /\ c2s[u] = <<>> /\ fc[u] \in {"done", "broken"}
  /\ Goto(u, "loop")
  /\ UNCHANGED <<message, fileClient, got, saved, fos, c2s, s2c, files, look>>

\* Mutant of WriteComplete: the file is neither listed nor saved.
WriteCompleteOnly(u) ==
  /\ At(u, "complete")
  /\ Respond(u, "FILE_UL_COMPLETE")
  /\ Goto(u, "loop")
  /\ UNCHANGED <<message, fileClient, got, saved, fos, c2s, files, look>>

WriteComplete(u) ==
  /\ At(u, "complete")
  /\ Respond(u, "FILE_UL_COMPLETE")
  /\ Goto(u, "findList")
  /\ UNCHANGED <<message, fileClient, got, saved, fos, c2s, files, look>>

\* The completion message cannot be written: the file, which is complete, is
\* neither listed nor saved.
CompleteFails(u) ==
  /\ At(u, "complete") /\ ~up[u]
  /\ Goto(u, "loop")
  /\ UNCHANGED <<message, fileClient, got, saved, fos, c2s, s2c, files, look>>

-----------------------------------------------------------------------------
(* Server.files, a HashMap of ArrayLists without a lock, used by the       *)
(* handlers of all connections.  Overlapping calls are data races: updates *)
(* are lost, null is read, or an unchecked exception ends the thread       *)
(* (Handler.run and handleFileUpload catch IOException and                 *)
(* ClassNotFoundException only).  A thread is named by its upload or by    *)
(* the student who asks.                                                   *)

Putting == {u \in Uploads : fh[u] \in {"putList", "putRaced"}}
             \cup {s \in Students : look[s].at \in {"putList", "putRaced"}}
Adding(o) == {u \in Uploads : At(u, "add") /\ OwnerOf[u] = o}
Filtering(o) ==
  {s \in Students : look[s].at = "list" /\ look[s].public /\ look[s].of = o}

\* Is a thread other than x in the middle of such a call?
Overlapped(x, threads) == Overlapping /\ threads \ {x} # {}

\* files.get(o) == null, as thread x sees it: a put that resizes the table
\* hides what is in it.
MissesList(x, o) == files[o] = None \/ Overlapped(x, Putting)

\* Entering files.put: of two puts that overlap, the second to begin is
\* charged with the damage.
EnterPut(x) == IF Overlapped(x, Putting) THEN "putRaced" ELSE "putList"

\* files.put(o, new ArrayList()); in a race the table of one thread replaces
\* the other's, and any lists may be lost.
Put(o, raced) ==
  \E lost \in SUBSET Students :
    /\ lost # {} => raced
    /\ files' = [s \in Students |-> IF s \in lost THEN None
                                    ELSE IF s = o THEN {} ELSE files[s]]

\* addFile: look for the owner's list, make one, add to the one then stored.
FindList(u) ==
  /\ At(u, "findList")
  /\ \/ files[OwnerOf[u]] # None /\ Goto(u, "add")
     \/ MissesList(u, OwnerOf[u]) /\ Goto(u, EnterPut(u))
  /\ UNCHANGED <<message, fileClient, got, saved, fos, c2s, s2c, files, look>>

PutList(u) ==
  /\ At(u, "putList") \/ At(u, "putRaced")
  /\ Put(OwnerOf[u], At(u, "putRaced"))
  /\ Goto(u, "add")
  /\ UNCHANGED <<message, fileClient, got, saved, fos, c2s, s2c, look>>

\* The entry is lost when another add writes the same slot, or a removeIf
\* sets the size.
AddFile(u) ==
  /\ At(u, "add") /\ files[OwnerOf[u]] # None
  /\ \/ files' = [files EXCEPT ![OwnerOf[u]] = @ \cup {u}]
     \/ /\ Overlapped(u, Adding(OwnerOf[u]) \cup Filtering(OwnerOf[u]))
        /\ UNCHANGED files
  /\ Goto(u, "save")
  /\ UNCHANGED <<message, fileClient, got, saved, fos, c2s, s2c, look>>

\* The second get returns null, or the slot is beyond an array that another
\* add has replaced: the handler dies before it saves the file.
AddFails(u) ==
  /\ At(u, "add")
  /\ MissesList(u, OwnerOf[u]) \/ Overlapped(u, Adding(OwnerOf[u]))
  /\ Goto(u, "died")
  /\ UNCHANGED <<message, fileClient, got, saved, fos, c2s, s2c, files, look>>

SaveFile(u) ==
  /\ At(u, "save")
  /\ saved' = saved \cup {u}
  /\ Goto(u, "loop")
  /\ UNCHANGED <<message, fileClient, got, fos, c2s, s2c, files, look>>

\* run: receiveMsg throws; of the three removals only the one at the key null
\* of fos changes anything.
FileConnectionLost(u) ==
  /\ At(u, "loop") /\ c2s[u] = <<>> /\ fc[u] \in {"done", "broken"}
  /\ fos' = None
  /\ Goto(u, "ended")
  /\ UNCHANGED <<message, fileClient, got, saved, c2s, s2c, files, look>>

-----------------------------------------------------------------------------
(* LOOKUP_FILES_SELF and LOOKUP_FILES_OTHER, on the asker's own handler.   *)

\* getFileList: is there a list?
StartLookup(s, o, public) ==
  /\ Free(s)
  /\ \E l \in {"list", EnterPut(s)} :
       /\ IF l = "list" THEN files[o] # None ELSE MissesList(s, o)
       /\ look' = [look EXCEPT ![s] = [at |-> l, of |-> o, public |-> public]]
  /\ UNCHANGED <<message, fileClient, fileHandler, c2s, s2c, files>>

LookupPutList(s) ==
  /\ look[s].at \in {"putList", "putRaced"}
  /\ Put(look[s].of, look[s].at = "putRaced")
  /\ look' = [look EXCEPT ![s].at = "list"]
  /\ UNCHANGED <<message, fileClient, fileHandler, c2s, s2c>>

\* getPublicFileList removes the private files from the owner's own list.
\* Another removeIf or add meanwhile may leave null slots, the former lose
\* public files as well.
RemovePrivate(s, o) ==
  \E kept \in SUBSET (files[o] \cap PublicUploads), null \in SUBSET {None} :
    /\ kept # files[o] \cap PublicUploads =>
         ~(files[o] \subseteq PublicUploads) /\ Overlapped(s, Filtering(o))
    /\ null # {} => /\ ~(files[o] \subseteq PublicUploads)
                    /\ Overlapped(s, Filtering(o) \cup Adding(o))
    /\ files' = [files EXCEPT ![o] = kept \cup null]

\* The list the asker was given; isPublic on a null entry throws.
ReadList(s) ==
  /\ look[s].at = "list" /\ files[look[s].of] # None
  /\ IF look[s].public
     THEN None \notin files[look[s].of] /\ RemovePrivate(s, look[s].of)
     ELSE UNCHANGED files
  /\ UNCHANGED <<message, fileClient, fileHandler, c2s, s2c>>

AnswerLookup(s) ==
  /\ ReadList(s)
  /\ look' = [look EXCEPT ![s] = NoLook]

\* There is no list; removeIf or toString finds that the list was changed
\* meanwhile, or a null entry: the asker's handler dies, and the asker waits
\* for ever.
LookupFails(s) ==
  LET o == look[s].of
      changed == Overlapped(s, Filtering(o) \cup Adding(o))
  IN /\ look[s].at = "list"
     /\ \/ /\ \/ MissesList(s, o) \/ changed
              \/ look[s].public /\ files[o] # None /\ None \in files[o]
           /\ UNCHANGED <<message, fileClient, fileHandler, c2s, s2c, files>>
        \/ changed /\ ReadList(s)
     /\ look' = [look EXCEPT ![s] = [NoLook EXCEPT !.at = "died"]]

-----------------------------------------------------------------------------
MessageStep(u) ==
  \/ AcceptRequest(u) \/ RefuseRequest(u)
  \/ ReadRefusal(u) \/ StartFileClient(u)

FileClientStep(u) == SendChunk(u) \/ ReadResponse(u) \/ CloseSocket(u)

FileHandlerStep(u) ==
  \/ FSLogin(u) \/ ReceiveInit(u) \/ ReceiveChunk(u) \/ AckFails(u)
  \/ UploadLost(u) \/ WriteComplete(u) \/ CompleteFails(u)
  \/ FindList(u) \/ PutList(u) \/ AddFile(u) \/ AddFails(u)
  \/ SaveFile(u) \/ FileConnectionLost(u)

LookupStep(s) == LookupPutList(s) \/ AnswerLookup(s) \/ LookupFails(s)

Next ==
  \/ \E u \in Uploads : RequestUpload(u) \/ Break(u) \/ MessageStep(u)
                          \/ FileClientStep(u) \/ FileHandlerStep(u)
  \/ \E l \in Lookups : StartLookup(l[1], l[2], l[3])
  \/ \E s \in Students : LookupStep(s)

Spec == Init /\ [][Next]_vars

\* Threads that can run are eventually scheduled and what was written to an
\* unbroken connection arrives.  Nobody has to ask for an upload, and a
\* connection need not break.
Fairness ==
  /\ \A u \in Uploads : /\ WF_vars(MessageStep(u))
                        /\ WF_vars(FileClientStep(u))
                        /\ WF_vars(FileHandlerStep(u))
  /\ \A s \in Students : WF_vars(LookupStep(s))

FairSpec == Spec /\ Fairness

-----------------------------------------------------------------------------
(* Properties.                                                             *)

Accepted == {u \in Uploads : verdict[u] = "FILE_ACCEPT"}
Received(u) == TotalChunks(u) > 0 /\ Len(got[u]) = TotalChunks(u)

\* With requests of several students in flight the budget is exactly the sum
\* of the accepted sizes, and within MAX_BUFFER_SIZE (Server.java 91-97).
BufferBounded == bufferUsed <= MaxBufferSize
BufferAccounts ==
  BufferBounded /\ bufferUsed = MapThenSumSet(LAMBDA u : SizeOf[u], Accepted)

\* The sender and the receiver never differ by more than the chunk that is
\* under way, and what the server holds is the file's chunks in order: an
\* acknowledged chunk is held (Client.java 47-51, Server.java 371-376).
LockStep == \A u \in Uploads :
  /\ got[u] = OneTo(Len(got[u]))
  /\ next[u] - 1 <= Len(got[u])
  /\ Len(got[u]) <= next[u]

\* The uploads a look-up can show.
Shown ==
  Uploads \cap UNION {files[s] : s \in {t \in Students : files[t] # None}}

\* Only files of which every chunk arrived are listed or written to disk,
\* whatever broke and whichever look-ups ran (Server.java 377-386).
ListedIsComplete == \A u \in Shown \cup saved : Received(u)

\* A client that sent its file to the end knows that the server has it.
DoneIsReceived == \A u \in Uploads :
  fc[u] = "done" => Len(got[u]) = TotalChunks(u)

\* An accepted, non-empty upload whose connection holds reaches the disk,
\* unless its handler dies in addFile (Server.java 371-386, 112).
UploadCompletes == \A u \in Uploads :
  (phase[u] = "accepted" /\ SizeOf[u] > 0)
    ~> (u \in saved \/ ~up[u] \/ fh[u] = "died")

Status(u) ==
  CASE phase[u] = "idle" -> "idle"
    [] phase[u] # "idle" /\ verdict[u] = "none" -> "asked"
    [] verdict[u] = "BUFFER_FULL" -> "refused"
    [] verdict[u] = "FILE_ACCEPT" /\ ~Received(u) -> "reserved"
    [] OTHER -> "received"

Service == INSTANCE UploadService WITH
  status <- [u \in Uploads |-> Status(u)],
  used <- bufferUsed,
  shown <- Shown

\* The threads, sockets and chunks implement the promise of UploadService.
ImplementsService == Service!Spec

(* Statements of the documentation the code does not meet.                 *)

\* The size of the accepted uploads that are still being transferred.
Stored == MapThenSumSet(LAMBDA u : SizeOf[u],
            {u \in Accepted : u \notin saved /\ fh[u] # "ended"})

\* "The server checks the total size of all chunks stored in the buffer plus
\* the new file size. If it overflows the maximum size, the server does not
\* allow the transmission."
RefusedOnlyWhenFull == [][\A u \in Uploads :
  RefuseRequest(u) => Stored + SizeOf[u] > MaxBufferSize]_vars

\* "Look up the list of all the files (both private and public) uploaded by
\* him/her": a file is still in its owner's list after others looked it up,
LookupKeepsFiles == [][\A s \in Students :
  AnswerLookup(s) => Shown \subseteq Shown']_vars

\* and a file that was put in the list is not lost to a concurrent first use
\* of that list.
UploadKeepsFiles == [][\A u \in Uploads :
  PutList(u) => Shown \subseteq Shown']_vars

\* A file of which every chunk arrived, over a connection that holds, reaches
\* the disk,
SavedWhileConnected == \A u \in Uploads :
  Received(u) ~> (u \in saved \/ ~up[u])

\* and does so even if the completion message cannot be written.
SavedWhileAlive == \A u \in Uploads :
  Received(u) ~> (u \in saved \/ fh[u] = "died")

\* "... the server is done with the sender and sends a success message."
SuccessIsTold == \A u \in Uploads :
  (fc[u] = "done" /\ SizeOf[u] > 0) => told[u]
=============================================================================

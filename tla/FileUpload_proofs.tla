-------------------------- MODULE FileUpload_proofs --------------------------
(***************************************************************************)
(* The upload protocol for any number of uploads, students, sizes and      *)
(* chunk sizes: budget, lock step, completeness of what is listed, and the *)
(* refinement of UploadService.                                            *)
(***************************************************************************)
EXTENDS FileUpload, FiniteSetTheorems, SequenceTheorems, TLAPS

\* Handler labels from the last chunk to the file on disk, or to the death of
\* the handler on the way.
Finishing ==
  {"complete", "findList", "putList", "putRaced", "add", "save", "died"}

\* An upload is negotiated before its chunk size is drawn and its threads run.
Negotiated(u) ==
  /\ phase[u] = "idle" => verdict[u] = "none"
  /\ (phase[u] # "accepted") <=> (fc[u] = "off")
  /\ phase[u] = "accepted" => verdict[u] = "FILE_ACCEPT"
  /\ phase[u] = "refused" => verdict[u] = "BUFFER_FULL"
  /\ fc[u] = "off" =>
       fh[u] = "idle" /\ got[u] = <<>> /\ c2s[u] = <<>> /\ s2c[u] = <<>>
         /\ next[u] = 1 /\ up[u]
  /\ fc[u] # "off" => fh[u] # "idle"
  /\ fc[u] \in {"send", "wait"} => up[u]

\* Before FILE_INIT is read nothing was received; the pipe holds FILE_INIT and
\* at most the first chunk behind it, or nothing if the connection broke.
BeforeInit(u) ==
  /\ fh[u] \in {"fsLogin", "loop"} /\ c2s[u] # <<>> =>
       /\ got[u] = <<>> /\ s2c[u] = <<>> /\ next[u] = 1
       /\ \/ c2s[u] = <<0>> /\ fc[u] # "wait"
          \/ /\ c2s[u] = <<0, 1>> /\ fc[u] \in {"wait", "broken"}
             /\ TotalChunks(u) >= 1
  /\ fh[u] = "fsLogin" => got[u] = <<>>
  /\ fh[u] = "fsLogin" /\ c2s[u] = <<>> => fc[u] \in {"broken", "done"}
  /\ fh[u] = "fsLogin" => s2c[u] = <<>> /\ next[u] = 1

\* During the transfer the pipe holds at most the chunk the client waits for.
Transfer(u) ==
  /\ Len(got[u]) <= TotalChunks(u)
  /\ fh[u] = "upload" => ~Received(u)
  /\ fh[u] = "upload" /\ c2s[u] # <<>> =>
       /\ c2s[u] = <<next[u]>> /\ next[u] = Len(got[u]) + 1
       /\ next[u] <= TotalChunks(u)
       /\ fc[u] \in {"wait", "broken"}
       /\ s2c[u] = <<>>
  /\ fh[u] \in Finishing => Received(u) /\ c2s[u] = <<>>
  /\ fh[u] = "ended" => c2s[u] = <<>>
  /\ fc[u] = "send" => Len(got[u]) = next[u] - 1
  /\ fc[u] = "send" /\ ~Received(u) =>
       /\ s2c[u] = <<>>
       /\ \/ fh[u] \in {"fsLogin", "loop"} /\ c2s[u] = <<0>>
          \/ fh[u] = "upload" /\ c2s[u] = <<>>
  /\ fc[u] = "wait" /\ s2c[u] # <<>> =>
       /\ Len(got[u]) = next[u]
       /\ ~Received(u) =>
            Len(s2c[u]) = 1 /\ fh[u] = "upload" /\ c2s[u] = <<>>
  /\ fc[u] = "wait" => next[u] <= TotalChunks(u)
  /\ fc[u] = "wait" /\ s2c[u] = <<>> =>
       /\ Len(got[u]) = next[u] - 1
       /\ c2s[u] # <<>> /\ fh[u] \in {"fsLogin", "loop", "upload"}

\* What is in a list or on disk is whole, and who asks asks for a list.
Listing ==
  /\ \A s \in Students :
       look[s].at \notin {"idle", "died"} => look[s].of \in Students
  /\ \A u \in saved : Received(u)
  /\ \A s \in Students :
       files[s] # None => \A u \in files[s] \ {None} : Received(u)

\* Everything the proof needs to know of one upload.
UploadInv(u) ==
  /\ Negotiated(u) /\ BeforeInit(u) /\ Transfer(u)
  /\ got[u] = OneTo(Len(got[u]))
  /\ next[u] - 1 <= Len(got[u])
  /\ Len(got[u]) <= next[u]
  /\ fc[u] = "done" => Len(got[u]) = TotalChunks(u)

\* The inductive invariant.
IInv ==
  /\ TypeOK
  /\ BufferBounded
  /\ \A u \in Uploads : UploadInv(u)
  /\ Listing

-----------------------------------------------------------------------------
(* Types.                                                                  *)

\* No list has a new entry.
NoneAdded == \A s \in Students : files'[s] # None =>
  \A u \in files'[s] \ {None} : files[s] # None /\ u \in files[s]

\* A list is not null.
LEMMA ListsThere ==
  ASSUME NEW L \in Lists
  PROVE  L # None
BY UploadAssumption DEF Lists

\* A put, raced or not, makes an empty list and may lose others.
LEMMA PutLists ==
  ASSUME files \in [Students -> Lists \cup {None}], NEW o, NEW raced,
         Put(o, raced)
  PROVE  files' \in [Students -> Lists \cup {None}] /\ NoneAdded
<1>1. PICK lost \in SUBSET Students :
        files' = [s \in Students |-> IF s \in lost THEN None
                                    ELSE IF s = o THEN {} ELSE files[s]]
  BY DEF Put
<1>2. {} \in Lists
  BY DEF Lists
<1>3. \A s \in Students : files'[s] \in {None, {}, files[s]}
  BY <1>1
<1>4. files' \in [Students -> Lists \cup {None}]
  BY <1>1, <1>2
<1> QED
  BY <1>3, <1>4 DEF NoneAdded

\* What a look-up reads it leaves, or leaves less of.
LEMMA ReadLists ==
  ASSUME files \in [Students -> Lists \cup {None}], NEW s \in Students,
         look[s].of \in Students, ReadList(s)
  PROVE  files' \in [Students -> Lists \cup {None}] /\ NoneAdded
<1> DEFINE o == look[s].of
<1>1. files[o] \in Lists /\ files[o] # None
  BY DEF ReadList
<1>2. CASE files' = files
  BY <1>2 DEF NoneAdded
<1>3. ASSUME NEW kept \in SUBSET (files[o] \cap PublicUploads),
             NEW null \in SUBSET {None},
             files' = [files EXCEPT ![o] = kept \cup null]
      PROVE  files' \in [Students -> Lists \cup {None}] /\ NoneAdded
  <2>1. kept \subseteq files[o] /\ kept \cup null \in Lists
    BY <1>1, <1>3 DEF Lists
  <2>2. files' \in [Students -> Lists \cup {None}]
    BY <1>3, <2>1
  <2>3. \A t \in Students :
          files'[t] = IF t = o THEN kept \cup null ELSE files[t]
    BY <1>3
  <2>4. ASSUME NEW t \in Students, files'[t] # None,
               NEW u \in files'[t] \ {None}
        PROVE  files[t] # None /\ u \in files[t]
    <3>1. CASE t = o
      <4>1. u \in kept
        BY <2>3, <2>4, <3>1
      <4> QED
        BY <1>1, <2>1, <3>1, <4>1
    <3>2. CASE t # o
      BY <2>3, <2>4, <3>2
    <3> QED
      BY <3>1, <3>2
  <2> QED
    BY <2>2, <2>4 DEF NoneAdded
<1> QED
  BY <1>2, <1>3 DEF ReadList, RemovePrivate

\* Every step of the upload protocol keeps the types.
LEMMA TypeInductive ==
  ASSUME IInv, [Next]_vars
  PROVE  TypeOK'
<1>0. TypeOK /\ Listing
  BY DEF IInv
<1>a. /\ OwnerOf \in [Uploads -> Students] /\ SizeOf \in [Uploads -> Nat]
      /\ MaxBufferSize \in Nat /\ ChunkSizes \subseteq Nat \ {0}
      /\ PublicUploads \subseteq Uploads
  BY UploadAssumption
<1> USE <1>a
<1>1. CASE UNCHANGED vars
  BY <1>0, <1>1 DEF vars, message, fileClient, fileHandler, TypeOK, Handling,
     Looks, NoLook, Types
<1>2. ASSUME NEW u \in Uploads, RequestUpload(u) PROVE TypeOK'
  BY <1>0, <1>2 DEF RequestUpload, message, fileClient, fileHandler, TypeOK,
     Handling, Looks, NoLook, Types
<1>3. ASSUME NEW u \in Uploads, AcceptRequest(u) PROVE TypeOK'
  <2>1. bufferUsed' \in Nat
    BY <1>0, <1>3 DEF AcceptRequest, UseBuffer, TypeOK
  <2>2. chunkSize' \in [Uploads -> ChunkSizes \cup {0}]
    BY <1>0, <1>3 DEF AcceptRequest, TypeOK
  <2> QED
    BY <1>0, <1>3, <2>1, <2>2
      DEF AcceptRequest, fileClient, fileHandler, TypeOK
<1>4. ASSUME NEW u \in Uploads, RefuseRequest(u) PROVE TypeOK'
  BY <1>0, <1>4 DEF RefuseRequest, message, fileClient, fileHandler, TypeOK,
     Handling, Looks, NoLook, Types
<1>5. ASSUME NEW u \in Uploads, ReadRefusal(u) PROVE TypeOK'
  BY <1>0, <1>5 DEF ReadRefusal, message, fileClient, fileHandler, TypeOK,
     Handling, Looks, NoLook, Types
<1>6. ASSUME NEW u \in Uploads, StartFileClient(u) PROVE TypeOK'
  BY <1>0, <1>6 DEF StartFileClient, message, fileClient, fileHandler, TypeOK,
     Handling, Looks, NoLook, Types
<1>7. ASSUME NEW u \in Uploads, SendChunk(u) PROVE TypeOK'
  BY <1>0, <1>7
    DEF SendChunk, message, fileClient, fileHandler, TypeOK, Handling,
     Looks, NoLook, Types
<1>8. ASSUME NEW u \in Uploads, ReadResponse(u) PROVE TypeOK'
  BY <1>0, <1>8 DEF ReadResponse, message, fileClient, fileHandler, TypeOK,
     Handling, Looks, NoLook, Types
<1>9. ASSUME NEW u \in Uploads, CloseSocket(u) PROVE TypeOK'
  BY <1>0, <1>9 DEF CloseSocket, message, fileClient, fileHandler, TypeOK,
     Handling, Looks, NoLook, Types
<1>10. ASSUME NEW u \in Uploads, Break(u) PROVE TypeOK'
  BY <1>0, <1>10 DEF Break, message, fileClient, fileHandler, TypeOK, Handling,
     Looks, NoLook, Types
<1>11. ASSUME NEW u \in Uploads, FSLogin(u) PROVE TypeOK'
  BY <1>0, <1>11
    DEF FSLogin, At, Goto, message, fileClient, fileHandler, TypeOK,
     Handling, Looks, NoLook, Types
<1>12. ASSUME NEW u \in Uploads, ReceiveInit(u) PROVE TypeOK'
  BY <1>0, <1>12 DEF ReceiveInit, At, Goto, message, fileClient, fileHandler,
     TypeOK, Handling, Looks, NoLook, Types
<1>13. ASSUME NEW u \in Uploads, ReceiveChunk(u) PROVE TypeOK'
  <2>1. c2s[u] \in Seq(Nat) /\ c2s[u] # <<>>
    BY <1>0, <1>13 DEF ReceiveChunk, TypeOK
  <2>2. Head(c2s[u]) \in Nat /\ Tail(c2s[u]) \in Seq(Nat)
    BY <2>1
  <2>3. c2s' \in [Uploads -> Seq(Nat)] /\ got' \in [Uploads -> Seq(Nat)]
    BY <1>0, <1>13, <2>2 DEF ReceiveChunk, TypeOK
  <2>4. s2c' \in [Uploads -> Seq(Types)]
    BY <1>0, <1>13 DEF ReceiveChunk, Respond, Serialized, Types, TypeOK
  <2>5. fh' \in [Uploads -> Handling]
    BY <1>0, <1>13 DEF ReceiveChunk, Goto, Handling, TypeOK
  <2> QED
    BY <1>0, <1>13, <2>3, <2>4, <2>5
      DEF ReceiveChunk, message, fileClient, TypeOK
<1>14. ASSUME NEW u \in Uploads, AckFails(u) PROVE TypeOK'
  BY <1>0, <1>14
    DEF AckFails, At, Goto, message, fileClient, fileHandler, TypeOK,
     Handling, Looks, NoLook, Types
<1>15. ASSUME NEW u \in Uploads, UploadLost(u) PROVE TypeOK'
  BY <1>0, <1>15 DEF UploadLost, At, Goto, message, fileClient, fileHandler,
     TypeOK, Handling, Looks, NoLook, Types
<1>16. ASSUME NEW u \in Uploads, WriteComplete(u) PROVE TypeOK'
  BY <1>0, <1>16
    DEF WriteComplete, At, Goto, Respond, Serialized, Types, message,
     fileClient, fileHandler, TypeOK, Handling, Looks, NoLook, Types
<1>17. ASSUME NEW u \in Uploads, CompleteFails(u) PROVE TypeOK'
  BY <1>0, <1>17 DEF CompleteFails, At, Goto, message, fileClient, fileHandler,
     TypeOK, Handling, Looks, NoLook, Types
<1>18. ASSUME NEW u \in Uploads, FindList(u) PROVE TypeOK'
  <2>1. fh' \in [Uploads -> Handling]
    BY <1>0, <1>18 DEF FindList, Goto, EnterPut, Handling, TypeOK
  <2> QED
    BY <1>0, <1>18, <2>1 DEF FindList, message, fileClient, TypeOK
<1>19. ASSUME NEW u \in Uploads, PutList(u) PROVE TypeOK'
  <2>1. files' \in [Students -> Lists \cup {None}]
    BY <1>0, <1>19, PutLists DEF PutList, TypeOK
  <2> QED
    BY <1>0, <1>19, <2>1
      DEF PutList, Goto, message, fileClient, TypeOK, Handling
<1>20. ASSUME NEW u \in Uploads, AddFile(u) PROVE TypeOK'
  <2>1. files \in [Students -> Lists \cup {None}]
          /\ OwnerOf[u] \in Students /\ files[OwnerOf[u]] # None
    BY <1>0, <1>20 DEF AddFile, TypeOK
  <2>2. files[OwnerOf[u]] \cup {u} \in Lists
    BY <2>1 DEF Lists
  <2>3. files' \in [Students -> Lists \cup {None}]
    <3>1. CASE files' = files
      BY <2>1, <3>1
    <3>2. CASE files' = [files EXCEPT ![OwnerOf[u]] = @ \cup {u}]
      BY <2>1, <2>2, <3>2
    <3> QED
      BY <1>20, <3>1, <3>2 DEF AddFile
  <2> QED
    BY <1>0, <1>20, <2>3
      DEF AddFile, Goto, message, fileClient, TypeOK, Handling
<1>26. ASSUME NEW u \in Uploads, AddFails(u) PROVE TypeOK'
  BY <1>0, <1>26 DEF AddFails, Goto, message, fileClient, TypeOK, Handling
<1>21. ASSUME NEW u \in Uploads, SaveFile(u) PROVE TypeOK'
  BY <1>0, <1>21
    DEF SaveFile, At, Goto, message, fileClient, fileHandler, TypeOK,
     Handling, Looks, NoLook, Types
<1>22. ASSUME NEW u \in Uploads, FileConnectionLost(u) PROVE TypeOK'
  BY <1>0, <1>22 DEF FileConnectionLost, At, Goto, message, fileClient,
     fileHandler, TypeOK, Handling, Looks, NoLook, Types
<1>23. ASSUME NEW l \in Lookups, StartLookup(l[1], l[2], l[3])
      PROVE  TypeOK'
  <2>1. l[1] \in Students /\ l[2] \in Students /\ l[3] \in BOOLEAN
    BY UploadAssumption
  <2>2. PICK at \in {"list", EnterPut(l[1])} :
          look' = [look EXCEPT ![l[1]] =
                     [at |-> at, of |-> l[2], public |-> l[3]]]
    BY <1>23 DEF StartLookup
  <2>3. [at |-> at, of |-> l[2], public |-> l[3]] \in Looks
    BY <2>1, <2>2 DEF EnterPut, Looks
  <2>4. look' \in [Students -> Looks]
    BY <1>0, <2>2, <2>3 DEF TypeOK
  <2> QED
    BY <1>0, <1>23, <2>4
      DEF StartLookup, message, fileClient, fileHandler, TypeOK
<1>24. ASSUME NEW s \in Students, LookupPutList(s) PROVE TypeOK'
  <2>1. look[s] \in Looks
    BY <1>0 DEF TypeOK
  <2>2. [look[s] EXCEPT !.at = "list"] \in Looks
    BY <2>1 DEF Looks
  <2>3. look' \in [Students -> Looks]
    BY <1>0, <1>24, <2>2 DEF LookupPutList, TypeOK
  <2>4. files' \in [Students -> Lists \cup {None}]
    BY <1>0, <1>24, PutLists DEF LookupPutList, TypeOK
  <2> QED
    BY <1>0, <1>24, <2>3, <2>4
      DEF LookupPutList, message, fileClient, fileHandler,
       TypeOK
<1>r. ASSUME NEW s \in Students, ReadList(s)
      PROVE  files' \in [Students -> Lists \cup {None}]
  BY <1>0, <1>r, ReadLists DEF ReadList, Listing, TypeOK
<1>n. NoLook \in Looks /\ [NoLook EXCEPT !.at = "died"] \in Looks
  BY DEF NoLook, Looks
<1>25. ASSUME NEW s \in Students, AnswerLookup(s) PROVE TypeOK'
  <2>1. files' \in [Students -> Lists \cup {None}]
    BY <1>25, <1>r DEF AnswerLookup
  <2>2. look' \in [Students -> Looks]
    BY <1>0, <1>25, <1>n DEF AnswerLookup, TypeOK
  <2> QED
    BY <1>0, <1>25, <2>1, <2>2
      DEF AnswerLookup, ReadList, message, fileClient, fileHandler, TypeOK
<1>27. ASSUME NEW s \in Students, LookupFails(s) PROVE TypeOK'
  <2>1. files' \in [Students -> Lists \cup {None}]
    BY <1>0, <1>27, <1>r DEF LookupFails, TypeOK
  <2>2. look' \in [Students -> Looks]
    BY <1>0, <1>27, <1>n DEF LookupFails, TypeOK
  <2> QED
    BY <1>0, <1>27, <2>1, <2>2
      DEF LookupFails, ReadList, message, fileClient, fileHandler, TypeOK
<1> QED
  BY <1>1, <1>2, <1>3, <1>4, <1>5, <1>6, <1>7, <1>8, <1>9, <1>10, <1>11,
     <1>12, <1>13, <1>14, <1>15, <1>16, <1>17, <1>18, <1>19, <1>20, <1>21,
     <1>22, <1>23, <1>24, <1>25, <1>26, <1>27 DEF Next, MessageStep,
     FileClientStep, FileHandlerStep, LookupStep

-----------------------------------------------------------------------------
(* The short sequences a pipe can hold.                                    *)

\* The first chunk behind FILE_INIT.
LEMMA AppendToOne ==
  ASSUME NEW n \in Nat
  PROVE  Append(<<0>>, n) = <<0, n>>
<1>1. /\ <<0>> \in Seq(Nat) /\ Append(<<0>>, n) \in Seq(Nat)
      /\ <<0, n>> \in Seq(Nat)
  OBVIOUS
<1>2. Len(Append(<<0>>, n)) = 2 /\ Len(<<0, n>>) = 2
  OBVIOUS
<1>3. Append(<<0>>, n)[1] = 0 /\ Append(<<0>>, n)[2] = n
  OBVIOUS
<1>4. <<0, n>>[1] = 0 /\ <<0, n>>[2] = n
  OBVIOUS
<1>5. \A i \in 1..2 : i = 1 \/ i = 2
  OBVIOUS
<1>6. \A i \in 1..2 : Append(<<0>>, n)[i] = <<0, n>>[i]
  BY <1>3, <1>4, <1>5
<1> QED
  BY <1>1, <1>2, <1>6, SeqEqual

\* Reading the only message of a pipe empties it.
LEMMA TailOfOne ==
  ASSUME NEW S, NEW q \in Seq(S), Len(q) = 1
  PROVE  Tail(q) = <<>>
<1>1. Tail(q) \in Seq(S) /\ Len(Tail(q)) = 0
  OBVIOUS
<1> QED
  BY <1>1, EmptySeq

\* Reading FILE_INIT, or the chunk behind it.
LEMMA TailOfTwo ==
  ASSUME NEW a \in Nat, NEW b \in Nat
  PROVE  Tail(<<a, b>>) = <<b>> /\ Tail(<<b>>) = <<>>
OBVIOUS

\* What a broken connection delivers of a pipe with one message,
LEMMA PrefixOfOne ==
  ASSUME NEW a \in Nat, NEW n \in 0..1
  PROVE  SubSeq(<<a>>, 1, n) \in {<<a>>, <<>>}
<1>1. <<a>> \in Seq(Nat) /\ Len(<<a>>) = 1
  OBVIOUS
<1>2. CASE n = 0
  BY <1>2, SubSeqEmpty
<1>3. CASE n = 1
  BY <1>1, <1>3, SubSeqFull
<1> QED
  BY <1>2, <1>3

\* or with two.
LEMMA PrefixOfTwo ==
  ASSUME NEW a \in Nat, NEW b \in Nat, NEW n \in 0..2
  PROVE  SubSeq(<<a, b>>, 1, n) \in {<<a, b>>, <<a>>, <<>>}
<1>1. <<a>> \in Seq(Nat) /\ <<a, b>> \in Seq(Nat) /\ Len(<<a, b>>) = 2
  OBVIOUS
<1>2. CASE n = 0
  BY <1>2, SubSeqEmpty
<1>3. CASE n = 1
  <2>1. /\ SubSeq(<<a, b>>, 1, 1) \in Seq(Nat)
        /\ Len(SubSeq(<<a, b>>, 1, 1)) = 1
        /\ SubSeq(<<a, b>>, 1, 1)[1] = a
    OBVIOUS
  <2>2. \A i \in 1..1 : i = 1
    OBVIOUS
  <2>3. <<a>>[1] = a /\ Len(<<a>>) = 1
    OBVIOUS
  <2>4. SubSeq(<<a, b>>, 1, 1) = <<a>>
    BY <1>1, <2>1, <2>2, <2>3, SeqEqual
  <2> QED
    BY <1>3, <2>4
<1>4. CASE n = 2
  BY <1>1, <1>4, SubSeqFull
<1> QED
  BY <1>2, <1>3, <1>4

\* The next chunk in order, appended, keeps the chunks in order.
LEMMA OneToAppend ==
  ASSUME NEW n \in Nat, NEW q \in Seq(Nat), q = OneTo(n)
  PROVE  Append(q, n + 1) = OneTo(n + 1) /\ Len(q) = n
BY DEF OneTo

-----------------------------------------------------------------------------
(* Sums over finite sets.                                                  *)

Pick(S) == CHOOSE x \in S : TRUE

\* g gives every part of S the sum of the sizes of its members.
Summing(g, S, size) ==
  g = [s \in SUBSET S |->
         IF s = {} THEN 0 ELSE size[Pick(s)] + g[s \ {Pick(s)}]]

SumOf(S, size) == (CHOOSE g : Summing(g, S, size))[S]

LEMMA LeastExists ==
  ASSUME NEW S \in SUBSET Nat, S # {}
  PROVE  \E n \in S : \A k \in S : n <= k
<1> DEFINE R == {p \in Nat \X Nat : p[1] < p[2]}
<1>1. IsWellFoundedOn(R, Nat)
  BY NatLessThanWellFounded DEF OpToRel
<1>2. \A j, k \in Nat : <<j, k>> \in R <=> j < k
  OBVIOUS
<1> HIDE DEF R
<1>3. PICK n \in S : \A k \in S : ~(<<k, n>> \in R)
  BY <1>1, WFMin, Zenon
<1>4. \A k \in S : ~(k < n)
  BY <1>2, <1>3
<1>5. \A k \in S : k \in Nat /\ n \in Nat
  OBVIOUS
<1> QED
  BY <1>4, <1>5

\* Among finite sets there is one without a smaller one.
LEMMA SmallestSet ==
  ASSUME NEW B, B # {}, \A s \in B : IsFiniteSet(s)
  PROVE  \E s \in B : \A t \in B : t \subseteq s => t = s
<1> DEFINE Sizes == {Cardinality(s) : s \in B}
<1>1. Sizes \in SUBSET Nat /\ Sizes # {}
  BY FS_CardinalityType
<1>2. \A s \in B : Cardinality(s) \in Sizes
  OBVIOUS
<1> HIDE DEF Sizes
<1>3. PICK n \in Sizes : \A k \in Sizes : n <= k
  BY <1>1, LeastExists
<1>4. PICK s \in B : n = Cardinality(s)
  BY DEF Sizes
<1>5. ASSUME NEW t \in B, t \subseteq s PROVE t = s
  <2>1. /\ Cardinality(t) <= Cardinality(s)
        /\ Cardinality(s) = Cardinality(t) => s = t
    BY <1>5, FS_Subset
  <2>2. /\ Cardinality(s) <= Cardinality(t)
        /\ Cardinality(s) \in Nat /\ Cardinality(t) \in Nat
    BY <1>1, <1>2, <1>3, <1>4
  <2> QED
    BY <2>1, <2>2
<1> QED
  BY <1>5

LEMMA PickIn ==
  ASSUME NEW S, S # {}
  PROVE  Pick(S) \in S
BY DEF Pick

LEMMA SummingUnfold ==
  ASSUME NEW S, NEW size, NEW g, Summing(g, S, size), NEW s \in SUBSET S
  PROVE  g[s] = IF s = {} THEN 0 ELSE size[Pick(s)] + g[s \ {Pick(s)}]
<1> DEFINE e(r) == IF r = {} THEN 0 ELSE size[Pick(r)] + g[r \ {Pick(r)}]
<1>1. g = [r \in SUBSET S |-> e(r)]
  BY DEF Summing
<1> HIDE DEF e
<1>2. g[s] = e(s)
  BY <1>1
<1> QED
  BY <1>2 DEF e

\* The sum of a set does not depend on what it is a part of.
LEMMA SummingAgree ==
  ASSUME NEW S, NEW T, NEW size, NEW g, NEW h, Summing(g, S, size),
         Summing(h, T, size), NEW s \in SUBSET S, s \in SUBSET T,
         IsFiniteSet(s)
  PROVE  g[s] = h[s]
<1> DEFINE Bad == {r \in SUBSET s : g[r] # h[r]}
<1> SUFFICES ASSUME Bad # {} PROVE FALSE
  OBVIOUS
<1>1. \A r \in Bad : r \in SUBSET s /\ IsFiniteSet(r)
  BY FS_Subset
<1>2. PICK r \in Bad : \A t \in Bad : t \subseteq r => t = r
  <2> HIDE DEF Bad
  <2> QED
    BY <1>1, SmallestSet
<1>3. r \in SUBSET S /\ r \in SUBSET T /\ r \in SUBSET s /\ g[r] # h[r]
  OBVIOUS
<1> DEFINE q == r \ {Pick(r)}
<1>4. /\ g[r] = IF r = {} THEN 0 ELSE size[Pick(r)] + g[q]
      /\ h[r] = IF r = {} THEN 0 ELSE size[Pick(r)] + h[q]
  BY <1>3, SummingUnfold
<1>5. CASE r = {}
  BY <1>3, <1>4, <1>5
<1>6. CASE r # {}
  <2>1. Pick(r) \in r
    BY <1>6, PickIn
  <2>2. q \in SUBSET s /\ q \subseteq r /\ q # r
    BY <1>3, <2>1
  <2>3. g[q] = h[q]
    BY <1>2, <2>2
  <2> QED
    BY <1>3, <1>4, <1>6, <2>3
<1> QED
  BY <1>5, <1>6

LEMMA SummingExists ==
  ASSUME NEW S, IsFiniteSet(S), NEW size
  PROVE  \E g : Summing(g, S, size)
<1> DEFINE Bad == {s \in SUBSET S : ~ \E g : Summing(g, s, size)}
<1> SUFFICES ASSUME Bad # {} PROVE FALSE
  OBVIOUS
<1>1. \A s \in Bad : s \in SUBSET S /\ IsFiniteSet(s)
  BY FS_Subset
<1>2. PICK s \in Bad : \A t \in Bad : t \subseteq s => t = s
  <2> HIDE DEF Bad
  <2> QED
    BY <1>1, SmallestSet
<1>3. s \in SUBSET S /\ IsFiniteSet(s) /\ ~ \E g : Summing(g, s, size)
  BY <1>1
<1>4. ASSUME NEW t \in SUBSET s, t # s
      PROVE  Summing(CHOOSE g : Summing(g, t, size), t, size)
  <2>1. t \in SUBSET S /\ t \notin Bad
    BY <1>2, <1>3, <1>4
  <2>2. \E g : Summing(g, t, size)
    BY <2>1
  <2> QED
    BY <2>2
<1> DEFINE v(t) == IF t = {} THEN 0
                   ELSE size[Pick(t)] + SumOf(t \ {Pick(t)}, size)
           h == [t \in SUBSET s |-> v(t)]
<1>5. ASSUME NEW t \in SUBSET s, t # s
      PROVE  SumOf(t, size) = v(t)
  <2> DEFINE g == CHOOSE f : Summing(f, t, size)
             q == t \ {Pick(t)}
             f == CHOOSE e : Summing(e, q, size)
  <2>1. Summing(g, t, size)
    BY <1>4, <1>5
  <2>2. SumOf(t, size) = g[t]
    BY DEF SumOf
  <2> HIDE DEF g
  <2>3. g[t] = IF t = {} THEN 0 ELSE size[Pick(t)] + g[q]
    BY <2>1, SummingUnfold
  <2>4. CASE t # {}
    <3>1. q \in SUBSET s /\ q # s /\ q \in SUBSET t /\ q \in SUBSET q
      BY <1>5, <2>4, PickIn
    <3>2. IsFiniteSet(q)
      BY <1>3, <3>1, FS_Subset
    <3>3. Summing(f, q, size)
      BY <1>4, <3>1
    <3>4. SumOf(q, size) = f[q]
      BY DEF SumOf
    <3> HIDE DEF f, q
    <3>5. g[q] = f[q]
      BY <2>1, <3>1, <3>2, <3>3, SummingAgree
    <3> QED
      BY <2>2, <2>3, <2>4, <3>4, <3>5 DEF q
  <2>5. CASE t = {}
    BY <2>2, <2>3, <2>5
  <2> QED
    BY <2>4, <2>5
<1>6. ASSUME NEW t \in SUBSET s
      PROVE  v(t) = IF t = {} THEN 0 ELSE size[Pick(t)] + h[t \ {Pick(t)}]
  <2>1. CASE t # {}
    <3> DEFINE q == t \ {Pick(t)}
    <3>1. q \in SUBSET s /\ q # s
      BY <2>1, PickIn
    <3> HIDE DEF q
    <3>2. SumOf(q, size) = v(q) /\ h[q] = v(q)
      BY <1>5, <3>1
    <3> QED
      BY <2>1, <3>2 DEF q
  <2>2. CASE t = {}
    BY <2>2
  <2> QED
    BY <2>1, <2>2
<1>7. Summing(h, s, size)
  <2> HIDE DEF v
  <2>1. h = [t \in SUBSET s |->
               IF t = {} THEN 0 ELSE size[Pick(t)] + h[t \ {Pick(t)}]]
    BY <1>6
  <2> QED
    BY <2>1 DEF Summing
<1> QED
  BY <1>3, <1>7

LEMMA SumUnfold ==
  ASSUME NEW S, IsFiniteSet(S), NEW size
  PROVE  SumOf(S, size)
           = IF S = {} THEN 0 ELSE size[Pick(S)] + SumOf(S \ {Pick(S)}, size)
<1> DEFINE g == CHOOSE f : Summing(f, S, size)
           q == S \ {Pick(S)}
           h == CHOOSE f : Summing(f, q, size)
<1>1. Summing(g, S, size)
  BY SummingExists
<1>2. IsFiniteSet(q) /\ q \in SUBSET S /\ q \in SUBSET q /\ S \in SUBSET S
  BY FS_Subset
<1>3. Summing(h, q, size)
  BY <1>2, SummingExists
<1>4. SumOf(S, size) = g[S] /\ SumOf(q, size) = h[q]
  BY DEF SumOf
<1> HIDE DEF g, h
<1>5. g[S] = IF S = {} THEN 0 ELSE size[Pick(S)] + g[q]
  BY <1>1, <1>2, SummingUnfold
<1> HIDE DEF q
<1>6. g[q] = h[q]
  BY <1>1, <1>2, <1>3, SummingAgree
<1> QED
  BY <1>4, <1>5, <1>6 DEF q

\* The order in which the members are picked does not matter.
LEMMA SumWithout ==
  ASSUME NEW U, NEW size \in [U -> Nat], NEW S \in SUBSET U, IsFiniteSet(S)
  PROVE  /\ SumOf(S, size) \in Nat
         /\ \A u \in S : SumOf(S, size) = size[u] + SumOf(S \ {u}, size)
<1> DEFINE Sums(s) ==
             /\ SumOf(s, size) \in Nat
             /\ \A u \in s : SumOf(s, size) = size[u] + SumOf(s \ {u}, size)
           Bad == {s \in SUBSET S : ~Sums(s)}
<1> SUFFICES ASSUME Bad # {} PROVE FALSE
  OBVIOUS
<1>1. \A s \in Bad : s \in SUBSET S /\ IsFiniteSet(s)
  BY FS_Subset
<1>2. PICK s \in Bad : \A t \in Bad : t \subseteq s => t = s
  <2> HIDE DEF Bad
  <2> QED
    BY <1>1, SmallestSet
<1>3. s \in SUBSET S /\ IsFiniteSet(s) /\ ~Sums(s)
  BY <1>1
<1>4. ASSUME NEW t \in SUBSET s, t # s PROVE Sums(t)
  BY <1>2, <1>3, <1>4
<1> HIDE DEF Bad
<1>5. SumOf(s, size) = IF s = {} THEN 0
                       ELSE size[Pick(s)] + SumOf(s \ {Pick(s)}, size)
  BY <1>3, SumUnfold
<1>6. CASE s = {}
  BY <1>3, <1>5, <1>6
<1>7. CASE s # {}
  <2> DEFINE x == Pick(s)
             q == s \ {x}
  <2>1. x \in s /\ x \in U /\ size[x] \in Nat
    BY <1>3, <1>7, PickIn
  <2>2. q \in SUBSET s /\ q # s
    BY <2>1
  <2>3. SumOf(q, size) \in Nat
    BY <1>4, <2>2
  <2>4. SumOf(s, size) = size[x] + SumOf(q, size)
    BY <1>5, <1>7
  <2>5. ASSUME NEW u \in s
        PROVE  SumOf(s, size) = size[u] + SumOf(s \ {u}, size)
    <3>1. CASE u = x
      BY <2>4, <3>1
    <3>2. CASE u # x
      <4> DEFINE p == s \ {u}
                 r == q \ {u}
      <4>1. u \in q /\ p \in SUBSET s /\ p # s /\ x \in p
        BY <2>1, <3>2
      <4>2. SumOf(q, size) = size[u] + SumOf(r, size)
        BY <1>4, <2>2, <4>1
      <4>3. r = p \ {x}
        OBVIOUS
      <4>4. SumOf(p, size) = size[x] + SumOf(p \ {x}, size)
        BY <1>4, <4>1
      <4>5. r \in SUBSET s /\ r # s
        BY <4>1
      <4>6. SumOf(r, size) \in Nat /\ size[u] \in Nat
        BY <1>3, <1>4, <4>5
      <4> DEFINE a == SumOf(s, size)
                 b == SumOf(r, size)
                 c == SumOf(q, size)
                 d == SumOf(p, size)
      <4>7. /\ a = size[x] + c /\ c = size[u] + b /\ d = size[x] + b
            /\ b \in Nat /\ size[u] \in Nat /\ size[x] \in Nat
        BY <2>1, <2>4, <4>2, <4>3, <4>4, <4>6
      <4> HIDE DEF a, b, c, d
      <4>8. a = size[u] + d
        BY <4>7
      <4> QED
        BY <4>8 DEF a, d
    <3> QED
      BY <3>1, <3>2
  <2>6. SumOf(s, size) \in Nat
    BY <2>1, <2>3, <2>4
  <2> QED
    BY <1>3, <2>5, <2>6
<1> QED
  BY <1>6, <1>7

-----------------------------------------------------------------------------
(* One upload.                                                             *)

\* The number of chunks is a natural number, in this state
LEMMA TotalChunksType ==
  ASSUME TypeOK, NEW u \in Uploads
  PROVE  TotalChunks(u) \in Nat
<1>1. CASE chunkSize[u] = 0
  BY <1>1 DEF TotalChunks
<1>2. CASE chunkSize[u] # 0
  <2>1. chunkSize[u] \in Nat \ {0} /\ SizeOf[u] \in Nat
    BY <1>2, UploadAssumption DEF TypeOK
  <2>2. (SizeOf[u] + chunkSize[u] - 1) \in Nat
    BY <2>1
  <2>3. \A a \in Nat, c \in Nat \ {0} : a \div c \in Nat
    OBVIOUS
  <2> QED
    BY <1>2, <2>1, <2>2, <2>3 DEF TotalChunks
<1> QED
  BY <1>1, <1>2

\* and in the next one.
LEMMA TotalChunksTypeNext ==
  ASSUME TypeOK', NEW u \in Uploads
  PROVE  TotalChunks(u)' \in Nat
<1>1. CASE chunkSize'[u] = 0
  BY <1>1 DEF TotalChunks
<1>2. CASE chunkSize'[u] # 0
  <2>1. chunkSize'[u] \in Nat \ {0} /\ SizeOf[u] \in Nat
    BY <1>2, UploadAssumption DEF TypeOK
  <2>2. (SizeOf[u] + chunkSize'[u] - 1) \in Nat
    BY <2>1
  <2>3. \A a \in Nat, c \in Nat \ {0} : a \div c \in Nat
    OBVIOUS
  <2> QED
    BY <1>2, <2>1, <2>2, <2>3 DEF TotalChunks
<1> QED
  BY <1>1, <1>2

\* It changes only when the server draws a chunk size.
LEMMA TotalChunksStable ==
  ASSUME NEW u \in Uploads, chunkSize'[u] = chunkSize[u]
  PROVE  TotalChunks(u)' = TotalChunks(u)
BY DEF TotalChunks

\* A step that leaves an upload alone leaves what is known of it.
Same(u) ==
  /\ phase'[u] = phase[u] /\ verdict'[u] = verdict[u]
  /\ chunkSize'[u] = chunkSize[u]
  /\ fc'[u] = fc[u] /\ next'[u] = next[u] /\ up'[u] = up[u]
  /\ c2s'[u] = c2s[u] /\ s2c'[u] = s2c[u]
  /\ fh'[u] = fh[u] /\ got'[u] = got[u]

\* A step that leaves an upload's own variables alone keeps its invariant.
LEMMA Frame ==
  ASSUME NEW u \in Uploads, UploadInv(u), Same(u)
  PROVE  UploadInv(u)'
BY TotalChunksStable DEF Same, UploadInv, Negotiated, BeforeInit, Transfer,
   Received, Finishing, OneTo

\* Every step keeps the invariant of every upload: the step of another
\* upload by Frame, the steps of this one action by action.
LEMMA UploadInductive ==
  ASSUME IInv, [Next]_vars, NEW v \in Uploads
  PROVE  UploadInv(v)'
<1>i. TypeOK /\ \A u \in Uploads : UploadInv(u)
  BY DEF IInv
<1> USE <1>i
<1> DEFINE Goal == UploadInv(v)'
<1>t. TypeOK' /\ UploadInv(v) /\ TotalChunks(v) \in Nat
        /\ TotalChunks(v)' \in Nat
  BY TypeInductive, TotalChunksType, TotalChunksTypeNext
<1>1. CASE UNCHANGED vars
  BY <1>1, Frame DEF vars, message, fileClient, fileHandler, Same
<1>2. ASSUME NEW u \in Uploads, RequestUpload(u) PROVE Goal
  <2>1. CASE u # v
    BY <1>2, <2>1, Frame DEF RequestUpload, message, fileClient, fileHandler,
       Same, TypeOK
  <2>2. CASE u = v
    BY <1>2, <1>t, <2>2, TotalChunksStable DEF RequestUpload, message,
       fileClient, fileHandler, UploadInv, Negotiated, BeforeInit, Transfer,
       Received, Finishing, TypeOK
  <2> QED
    BY <2>1, <2>2
<1>3. ASSUME NEW u \in Uploads, AcceptRequest(u) PROVE Goal
  <2>1. CASE u # v
    BY <1>3, <2>1, Frame DEF AcceptRequest, UseBuffer, message, fileClient,
       fileHandler, Same, TypeOK
  <2>2. CASE u = v
    BY <1>3, <1>t, <2>2, TotalChunksStable DEF AcceptRequest, UseBuffer,
       message, fileClient, fileHandler, UploadInv, Negotiated, BeforeInit,
       Transfer, Received, Finishing, TypeOK
  <2> QED
    BY <2>1, <2>2
<1>4. ASSUME NEW u \in Uploads, RefuseRequest(u) PROVE Goal
  <2>1. CASE u # v
    BY <1>4, <2>1, Frame DEF RefuseRequest, message, fileClient, fileHandler,
       Same, TypeOK
  <2>2. CASE u = v
    BY <1>4, <1>t, <2>2, TotalChunksStable DEF RefuseRequest, message,
       fileClient, fileHandler, UploadInv, Negotiated, BeforeInit, Transfer,
       Received, Finishing, TypeOK
  <2> QED
    BY <2>1, <2>2
<1>5. ASSUME NEW u \in Uploads, ReadRefusal(u) PROVE Goal
  <2>1. CASE u # v
    BY <1>5, <2>1, Frame DEF ReadRefusal, message, fileClient, fileHandler,
       Same, TypeOK
  <2>2. CASE u = v
    BY <1>5, <1>t, <2>2, TotalChunksStable DEF ReadRefusal, message,
       fileClient, fileHandler, UploadInv, Negotiated, BeforeInit, Transfer,
       Received, Finishing, TypeOK
  <2> QED
    BY <2>1, <2>2
<1>6. ASSUME NEW u \in Uploads, StartFileClient(u) PROVE Goal
  <2>1. CASE u # v
    BY <1>6, <2>1, Frame DEF StartFileClient, message, fileClient,
       fileHandler, Same, TypeOK
  <2>2. CASE u = v
    <3>1. /\ c2s'[u] = <<0>> /\ fh'[u] = "fsLogin" /\ fc'[u] = "send"
          /\ phase'[u] = "accepted" /\ next'[u] = next[u] /\ up'[u] = up[u]
          /\ s2c'[u] = s2c[u] /\ got'[u] = got[u] /\ verdict'[u] = verdict[u]
          /\ chunkSize'[u] = chunkSize[u] /\ verdict[u] = "FILE_ACCEPT"
      BY <1>6 DEF StartFileClient, TypeOK
    <3>2. fc[u] = "off" /\ got[u] = <<>> /\ s2c[u] = <<>> /\ next[u] = 1
      BY <1>6 DEF StartFileClient, UploadInv, Negotiated, TypeOK
    <3>3. <<0>> # <<>> /\ Len(got[u]) = 0
      BY <3>2
    <3>4. up[u]
      BY <3>2 DEF UploadInv, Negotiated
    <3> QED
      BY <1>t, <2>2, <3>1, <3>2, <3>3, <3>4, TotalChunksStable DEF UploadInv,
         Negotiated, BeforeInit, Transfer, Received, Finishing
  <2> QED
    BY <2>1, <2>2
<1>7. ASSUME NEW u \in Uploads, SendChunk(u) PROVE Goal
  <2>1. CASE u # v
    BY <1>7, <2>1, Frame DEF SendChunk, message, fileClient, fileHandler,
       Same, TypeOK
  <2>2. CASE u = v
    <3>1. /\ fc[u] = "send" /\ next[u] <= TotalChunks(u) /\ fc'[u] = "wait"
          /\ c2s'[u] = Append(c2s[u], next[u]) /\ next'[u] = next[u]
          /\ phase'[u] = phase[u] /\ verdict'[u] = verdict[u]
          /\ chunkSize'[u] = chunkSize[u] /\ up'[u] = up[u]
          /\ s2c'[u] = s2c[u] /\ got'[u] = got[u] /\ fh'[u] = fh[u]
      BY <1>7 DEF SendChunk, message, fileHandler, TypeOK
    <3>2. ~Received(u) /\ Len(got[u]) = next[u] - 1 /\ next[u] \in Nat
      BY <1>t, <2>2, <3>1 DEF UploadInv, Transfer, Received, TypeOK
    <3>3. CASE fh[u] \in {"fsLogin", "loop"} /\ c2s[u] = <<0>>
      <4>1. c2s[u] # <<>>
        BY <3>3
      <4>2. got[u] = <<>> /\ s2c[u] = <<>> /\ next[u] = 1
        BY <3>3, <4>1 DEF UploadInv, BeforeInit
      <4>3. c2s'[u] = <<0, 1>> /\ <<0, 1>> # <<>>
        BY <3>1, <3>3, <4>2, AppendToOne
      <4> QED
        BY <1>t, <2>2, <3>1, <3>2, <3>3, <4>2, <4>3, TotalChunksStable
           DEF UploadInv, Negotiated, BeforeInit, Transfer, Received,
               Finishing
    <3>4. CASE fh[u] = "upload" /\ c2s[u] = <<>>
      <4>1. c2s'[u] = <<next[u]>> /\ <<next[u]>> # <<>>
        BY <3>1, <3>2, <3>4
      <4>2. s2c[u] = <<>>
        BY <3>1, <3>2 DEF UploadInv, Transfer
      <4> QED
        BY <1>t, <2>2, <3>1, <3>2, <3>4, <4>1, <4>2, TotalChunksStable
           DEF UploadInv, Negotiated, BeforeInit, Transfer, Received,
               Finishing
    <3> QED
      BY <3>1, <3>2, <3>3, <3>4 DEF UploadInv, Transfer
  <2> QED
    BY <2>1, <2>2
<1>8. ASSUME NEW u \in Uploads, ReadResponse(u) PROVE Goal
  <2>1. CASE u # v
    BY <1>8, <2>1, Frame DEF ReadResponse, message, fileClient, fileHandler,
       Same, TypeOK
  <2>2. CASE u = v
    <3>1. /\ fc[u] = "wait" /\ s2c[u] # <<>> /\ fc'[u] = "send"
          /\ s2c'[u] = Tail(s2c[u]) /\ next'[u] = next[u] + 1
          /\ phase'[u] = phase[u] /\ verdict'[u] = verdict[u]
          /\ chunkSize'[u] = chunkSize[u] /\ up'[u] = up[u]
          /\ c2s'[u] = c2s[u] /\ got'[u] = got[u] /\ fh'[u] = fh[u]
      BY <1>8 DEF ReadResponse, message, fileHandler, TypeOK
    <3>2. s2c[u] \in Seq(Types) /\ next[u] \in Nat
      BY DEF TypeOK
    <3>3. Len(s2c[u]) = 1 => Tail(s2c[u]) = <<>>
      BY <3>2, TailOfOne
    <3>4. Len(got[u]) = next[u]
      BY <3>1 DEF UploadInv, Transfer
    <3> QED
      BY <1>t, <2>2, <3>1, <3>2, <3>3, <3>4, TotalChunksStable DEF UploadInv,
         Negotiated, BeforeInit, Transfer, Received, Finishing
  <2> QED
    BY <2>1, <2>2
<1>9. ASSUME NEW u \in Uploads, CloseSocket(u) PROVE Goal
  <2>1. CASE u # v
    BY <1>9, <2>1, Frame DEF CloseSocket, message, fileClient, fileHandler,
       Same, TypeOK
  <2>2. CASE u = v
    BY <1>9, <1>t, <2>2, TotalChunksStable DEF CloseSocket, message,
       fileClient, fileHandler, UploadInv, Negotiated, BeforeInit, Transfer,
       Received, Finishing, TypeOK
  <2> QED
    BY <2>1, <2>2
<1>10. ASSUME NEW u \in Uploads, Break(u) PROVE Goal
  <2>1. CASE u # v
    BY <1>10, <2>1, Frame DEF Break, message, fileClient, fileHandler, Same,
       TypeOK
  <2>2. CASE u = v
    <3>1. /\ fc[u] \in {"send", "wait", "done"} /\ up[u]
          /\ fc'[u] = IF fc[u] = "done" THEN "done" ELSE "broken"
          /\ s2c'[u] = <<>> /\ next'[u] = next[u]
          /\ phase'[u] = phase[u] /\ verdict'[u] = verdict[u]
          /\ chunkSize'[u] = chunkSize[u]
          /\ got'[u] = got[u] /\ fh'[u] = fh[u]
      BY <1>10 DEF Break, message, fileHandler, TypeOK
    <3>2. PICK n \in 0..Len(c2s[u]) : c2s'[u] = SubSeq(c2s[u], 1, n)
      BY <1>10 DEF Break, TypeOK
    <3>3. c2s[u] \in Seq(Nat) /\ next[u] \in Nat
      BY DEF TypeOK
    <3>4. CASE c2s[u] = <<>>
      <4>1. c2s'[u] = <<>>
        BY <3>2, <3>4, SubSeqEmpty
      <4> QED
        BY <1>t, <2>2, <3>1, <3>4, <4>1, TotalChunksStable DEF UploadInv,
           Negotiated, BeforeInit, Transfer, Received, Finishing
    <3>5. CASE c2s[u] # <<>> /\ fh[u] = "upload"
      <4>1. c2s[u] = <<next[u]>>
        BY <3>5 DEF UploadInv, Transfer
      <4>2. c2s'[u] \in {c2s[u], <<>>}
        BY <3>2, <3>3, <4>1, PrefixOfOne
      <4> QED
        BY <1>t, <2>2, <3>1, <3>5, <4>2, TotalChunksStable DEF UploadInv,
           Negotiated, BeforeInit, Transfer, Received, Finishing
    <3>6. CASE c2s[u] # <<>> /\ fh[u] # "upload"
      <4>1. fh[u] \in {"fsLogin", "loop"}
        BY <3>1, <3>6 DEF UploadInv, Negotiated, Transfer, TypeOK, Handling,
           Finishing
      <4>2. c2s[u] = <<0>> \/ c2s[u] = <<0, 1>>
        BY <3>6, <4>1 DEF UploadInv, BeforeInit
      <4>3. c2s[u] = <<0>> => c2s'[u] \in {<<0>>, <<>>}
        BY <3>2, PrefixOfOne
      <4>4. c2s[u] = <<0, 1>> => c2s'[u] \in {<<0, 1>>, <<0>>, <<>>}
        <5>1. Len(<<0, 1>>) = 2
          OBVIOUS
        <5> QED
          BY <3>2, <5>1, PrefixOfTwo
      <4> QED
        BY <1>t, <2>2, <3>1, <3>6, <4>1, <4>2, <4>3, <4>4, TotalChunksStable
           DEF UploadInv, Negotiated, BeforeInit, Transfer, Received,
               Finishing
    <3> QED
      BY <3>4, <3>5, <3>6
  <2> QED
    BY <2>1, <2>2
<1>11. ASSUME NEW u \in Uploads, FSLogin(u) PROVE Goal
  <2>1. CASE u # v
    BY <1>11, <2>1, Frame DEF FSLogin, At, Goto, message, fileClient,
       fileHandler, Same, TypeOK
  <2>2. CASE u = v
    BY <1>11, <1>t, <2>2, TotalChunksStable DEF FSLogin, At, Goto, message,
       fileClient, fileHandler, UploadInv, Negotiated, BeforeInit, Transfer,
       Received, Finishing, TypeOK
  <2> QED
    BY <2>1, <2>2
<1>12. ASSUME NEW u \in Uploads, ReceiveInit(u) PROVE Goal
  <2>1. CASE u # v
    BY <1>12, <2>1, Frame DEF ReceiveInit, At, Goto, message, fileClient,
       fileHandler, Same, TypeOK
  <2>2. CASE u = v
    <3>1. /\ fh[u] = "loop" /\ c2s[u] # <<>> /\ fh'[u] = "upload"
          /\ c2s'[u] = Tail(c2s[u]) /\ next'[u] = next[u]
          /\ phase'[u] = phase[u] /\ verdict'[u] = verdict[u]
          /\ chunkSize'[u] = chunkSize[u] /\ up'[u] = up[u]
          /\ s2c'[u] = s2c[u] /\ got'[u] = got[u] /\ fc'[u] = fc[u]
      BY <1>12 DEF ReceiveInit, At, Goto, message, fileClient, TypeOK
    <3>2. /\ got[u] = <<>> /\ s2c[u] = <<>> /\ next[u] = 1
          /\ \/ c2s[u] = <<0>> /\ fc[u] # "wait"
             \/ /\ c2s[u] = <<0, 1>> /\ fc[u] \in {"wait", "broken"}
                /\ TotalChunks(u) >= 1
      BY <3>1 DEF UploadInv, BeforeInit
    <3>3. \/ c2s'[u] = <<>> /\ fc[u] # "wait"
          \/ /\ c2s'[u] = <<1>> /\ fc[u] \in {"wait", "broken"}
             /\ TotalChunks(u) >= 1
      <4>1. Tail(<<0>>) = <<>> /\ Tail(<<0, 1>>) = <<1>>
        BY TailOfTwo
      <4> QED
        BY <3>1, <3>2, <4>1
    <3>4. ~Received(u) /\ Len(got[u]) = 0 /\ <<1>> # <<>>
      BY <1>t, <2>2, <3>2 DEF Received
    <3>5. TotalChunks(u)' = TotalChunks(u) /\ ~Received(u)'
      BY <1>t, <2>2, <3>1, <3>2, <3>4, TotalChunksStable DEF Received
    <3>6. Negotiated(u)' /\ BeforeInit(u)'
      BY <1>t, <2>2, <3>1, <3>2, <3>3 DEF UploadInv, Negotiated, BeforeInit
    <3>7. Transfer(u)'
      <4>1. CASE c2s'[u] = <<>> /\ fc[u] # "wait"
        BY <1>t, <2>2, <3>1, <3>2, <3>4, <3>5, <4>1 DEF UploadInv, Transfer,
           Finishing
      <4>2. CASE /\ c2s'[u] = <<1>> /\ fc[u] \in {"wait", "broken"}
                 /\ TotalChunks(u) >= 1
        <5>1. /\ c2s'[u] = <<next'[u]>> /\ next'[u] = Len(got'[u]) + 1
              /\ c2s'[u] # <<>> /\ next'[u] = 1 /\ s2c'[u] = <<>>
              /\ Len(got'[u]) = 0 /\ fc'[u] \in {"wait", "broken"}
              /\ fh'[u] = "upload"
          <6>1. next'[u] = 1 /\ s2c'[u] = <<>> /\ got'[u] = got[u]
            BY <3>1, <3>2
          <6>2. fc'[u] \in {"wait", "broken"} /\ fh'[u] = "upload"
            BY <3>1, <4>2
          <6> QED
            BY <3>4, <4>2, <6>1, <6>2
        <5> QED
          BY <1>t, <2>2, <3>5, <4>2, <5>1 DEF Transfer, Finishing
      <4> QED
        BY <3>3, <4>1, <4>2
    <3> QED
      BY <1>t, <2>2, <3>1, <3>2, <3>5, <3>6, <3>7 DEF UploadInv
  <2> QED
    BY <2>1, <2>2
<1>13. ASSUME NEW u \in Uploads, ReceiveChunk(u) PROVE Goal
  <2>1. CASE u # v
    BY <1>13, <2>1, Frame DEF ReceiveChunk, At, Goto, Respond, Serialized,
       message, fileClient, fileHandler, Same, TypeOK
  <2>2. CASE u = v
    <3>1. /\ fh[u] = "upload" /\ c2s[u] # <<>>
          /\ c2s'[u] = Tail(c2s[u]) /\ next'[u] = next[u]
          /\ got'[u] = Append(got[u], Head(c2s[u]))
          /\ fh'[u] = IF Head(c2s[u]) = TotalChunks(u)
                      THEN "complete" ELSE "upload"
          /\ phase'[u] = phase[u] /\ verdict'[u] = verdict[u]
          /\ chunkSize'[u] = chunkSize[u] /\ up'[u] = up[u]
          /\ fc'[u] = fc[u]
      BY <1>13 DEF ReceiveChunk, At, Goto, message, fileClient, TypeOK
    <3>2. /\ c2s[u] = <<next[u]>> /\ next[u] = Len(got[u]) + 1
          /\ next[u] <= TotalChunks(u) /\ fc[u] \in {"wait", "broken"}
          /\ s2c[u] = <<>>
      BY <3>1 DEF UploadInv, Transfer
    <3>3. c2s'[u] = <<>> /\ Head(c2s[u]) = next[u]
      BY <3>1, <3>2
    <3>4. got[u] \in Seq(Nat) /\ next[u] \in Nat /\ Len(got[u]) \in Nat
      BY DEF TypeOK
    <3>5. got'[u] = OneTo(next[u]) /\ Len(got'[u]) = next[u]
      <4>1. got[u] = OneTo(Len(got[u]))
        BY DEF UploadInv
      <4>2. got'[u] = Append(got[u], Len(got[u]) + 1)
        BY <3>1, <3>2, <3>3
      <4>3. Len(got'[u]) = Len(got[u]) + 1
        BY <3>4, <4>2
      <4> QED
        BY <3>2, <3>4, <4>1, <4>2, <4>3, OneToAppend
    <3>6. fc[u] = "wait" => Len(s2c'[u]) = 1 /\ s2c'[u] # <<>>
      BY <1>13, <3>2 DEF ReceiveChunk, Respond, Serialized, TypeOK
    <3>7. Received(u)' <=> next[u] = TotalChunks(u)
      BY <1>t, <2>2, <3>1, <3>2, <3>4, <3>5, TotalChunksStable DEF Received
    <3> QED
      BY <1>t, <2>2, <3>1, <3>2, <3>3, <3>4, <3>5, <3>6, <3>7,
         TotalChunksStable DEF UploadInv, Negotiated, BeforeInit, Transfer,
         Finishing
  <2> QED
    BY <2>1, <2>2
<1>14. ASSUME NEW u \in Uploads, AckFails(u) PROVE Goal
  <2>1. CASE u # v
    BY <1>14, <2>1, Frame DEF AckFails, At, Goto, message, fileClient,
       fileHandler, Same, TypeOK
  <2>2. CASE u = v
    <3>1. /\ fh[u] = "upload" /\ c2s[u] # <<>> /\ ~up[u] /\ fh'[u] = "loop"
          /\ c2s'[u] = Tail(c2s[u]) /\ next'[u] = next[u]
          /\ phase'[u] = phase[u] /\ verdict'[u] = verdict[u]
          /\ chunkSize'[u] = chunkSize[u] /\ up'[u] = up[u]
          /\ s2c'[u] = s2c[u] /\ got'[u] = got[u] /\ fc'[u] = fc[u]
      BY <1>14 DEF AckFails, At, Goto, message, fileClient, TypeOK
    <3>2. c2s[u] = <<next[u]>>
      BY <3>1 DEF UploadInv, Transfer
    <3>3. c2s'[u] = <<>>
      BY <3>1, <3>2
    <3>4. fc[u] \notin {"send", "wait"}
      BY <3>1 DEF UploadInv, Negotiated
    <3> QED
      BY <1>t, <2>2, <3>1, <3>3, <3>4, TotalChunksStable DEF UploadInv,
         Negotiated, BeforeInit, Transfer, Received, Finishing
  <2> QED
    BY <2>1, <2>2
<1>15. ASSUME NEW u \in Uploads, UploadLost(u) PROVE Goal
  <2>1. CASE u # v
    BY <1>15, <2>1, Frame DEF UploadLost, At, Goto, message, fileClient,
       fileHandler, Same, TypeOK
  <2>2. CASE u = v
    BY <1>15, <1>t, <2>2, TotalChunksStable DEF UploadLost, At, Goto,
       message, fileClient, fileHandler, UploadInv, Negotiated, BeforeInit,
       Transfer, Received, Finishing, TypeOK
  <2> QED
    BY <2>1, <2>2
<1>16. ASSUME NEW u \in Uploads, WriteComplete(u) PROVE Goal
  <2>1. CASE u # v
    BY <1>16, <2>1, Frame DEF WriteComplete, At, Goto, Respond, Serialized,
       message, fileClient, fileHandler, Same, TypeOK
  <2>2. CASE u = v
    <3>1. /\ fh[u] = "complete" /\ fh'[u] = "findList"
          /\ c2s'[u] = c2s[u] /\ next'[u] = next[u]
          /\ phase'[u] = phase[u] /\ verdict'[u] = verdict[u]
          /\ chunkSize'[u] = chunkSize[u] /\ up'[u] = up[u]
          /\ got'[u] = got[u] /\ fc'[u] = fc[u]
      BY <1>16 DEF WriteComplete, At, Goto, message, fileClient, TypeOK
    <3>2. Received(u) /\ c2s[u] = <<>> /\ fc[u] # "off"
      BY <3>1 DEF UploadInv, Negotiated, Transfer, Finishing
    <3>3. fc[u] = "wait" => s2c[u] # <<>>
      BY <3>2 DEF UploadInv, Transfer
    <3>4. Received(u)'
      BY <3>1, <3>2, TotalChunksStable DEF Received
    <3>5. fc[u] = "wait" => s2c'[u] # <<>>
      BY <1>16 DEF WriteComplete, Respond, Serialized, TypeOK
    <3> QED
      BY <1>t, <2>2, <3>1, <3>2, <3>3, <3>4, <3>5, TotalChunksStable
         DEF UploadInv, Negotiated, BeforeInit, Transfer, Finishing
  <2> QED
    BY <2>1, <2>2
<1>17. ASSUME NEW u \in Uploads, CompleteFails(u) PROVE Goal
  <2>1. CASE u # v
    BY <1>17, <2>1, Frame DEF CompleteFails, At, Goto, message, fileClient,
       fileHandler, Same, TypeOK
  <2>2. CASE u = v
    BY <1>17, <1>t, <2>2, TotalChunksStable DEF CompleteFails, At, Goto,
       message, fileClient, fileHandler, UploadInv, Negotiated, BeforeInit,
       Transfer, Received, Finishing, TypeOK
  <2> QED
    BY <2>1, <2>2
<1>18. ASSUME NEW u \in Uploads, FindList(u) PROVE Goal
  <2>1. CASE u # v
    BY <1>18, <2>1, Frame DEF FindList, At, Goto, message, fileClient,
       fileHandler, Same, TypeOK
  <2>2. CASE u = v
    BY <1>18, <1>t, <2>2, TotalChunksStable DEF FindList, EnterPut, At, Goto,
       message, fileClient, fileHandler, UploadInv, Negotiated, BeforeInit,
       Transfer, Received, Finishing, TypeOK
  <2> QED
    BY <2>1, <2>2
<1>19. ASSUME NEW u \in Uploads, PutList(u) PROVE Goal
  <2>1. CASE u # v
    BY <1>19, <2>1, Frame DEF PutList, At, Goto, message, fileClient,
       fileHandler, Same, TypeOK
  <2>2. CASE u = v
    BY <1>19, <1>t, <2>2, TotalChunksStable DEF PutList, At, Goto, message,
       fileClient, fileHandler, UploadInv, Negotiated, BeforeInit, Transfer,
       Received, Finishing, TypeOK
  <2> QED
    BY <2>1, <2>2
<1>20. ASSUME NEW u \in Uploads, AddFile(u) PROVE Goal
  <2>1. CASE u # v
    BY <1>20, <2>1, Frame DEF AddFile, At, Goto, message, fileClient,
       fileHandler, Same, TypeOK
  <2>2. CASE u = v
    BY <1>20, <1>t, <2>2, TotalChunksStable DEF AddFile, At, Goto, message,
       fileClient, fileHandler, UploadInv, Negotiated, BeforeInit, Transfer,
       Received, Finishing, TypeOK
  <2> QED
    BY <2>1, <2>2
<1>26. ASSUME NEW u \in Uploads, AddFails(u) PROVE Goal
  <2>1. CASE u # v
    BY <1>26, <2>1, Frame DEF AddFails, At, Goto, message, fileClient,
       fileHandler, Same, TypeOK
  <2>2. CASE u = v
    BY <1>26, <1>t, <2>2, TotalChunksStable DEF AddFails, At, Goto, message,
       fileClient, fileHandler, UploadInv, Negotiated, BeforeInit, Transfer,
       Received, Finishing, TypeOK
  <2> QED
    BY <2>1, <2>2
<1>21. ASSUME NEW u \in Uploads, SaveFile(u) PROVE Goal
  <2>1. CASE u # v
    BY <1>21, <2>1, Frame DEF SaveFile, At, Goto, message, fileClient,
       fileHandler, Same, TypeOK
  <2>2. CASE u = v
    BY <1>21, <1>t, <2>2, TotalChunksStable DEF SaveFile, At, Goto, message,
       fileClient, fileHandler, UploadInv, Negotiated, BeforeInit, Transfer,
       Received, Finishing, TypeOK
  <2> QED
    BY <2>1, <2>2
<1>22. ASSUME NEW u \in Uploads, FileConnectionLost(u) PROVE Goal
  <2>1. CASE u # v
    BY <1>22, <2>1, Frame DEF FileConnectionLost, At, Goto, message,
       fileClient, fileHandler, Same, TypeOK
  <2>2. CASE u = v
    BY <1>22, <1>t, <2>2, TotalChunksStable DEF FileConnectionLost, At, Goto,
       message, fileClient, fileHandler, UploadInv, Negotiated, BeforeInit,
       Transfer, Received, Finishing, TypeOK
  <2> QED
    BY <2>1, <2>2
<1>23. ASSUME NEW l \in Lookups, StartLookup(l[1], l[2], l[3])
      PROVE  Goal
  BY <1>23, Frame DEF StartLookup, message, fileClient, fileHandler, Same
<1>24. ASSUME NEW s \in Students, LookupPutList(s) PROVE Goal
  BY <1>24, Frame DEF LookupPutList, message, fileClient, fileHandler, Same
<1>25. ASSUME NEW s \in Students, AnswerLookup(s) PROVE Goal
  BY <1>25, Frame DEF AnswerLookup, ReadList, message, fileClient,
     fileHandler, Same
<1>27. ASSUME NEW s \in Students, LookupFails(s) PROVE Goal
  BY <1>27, Frame DEF LookupFails, ReadList, message, fileClient,
     fileHandler, Same
<1> QED
  BY <1>1, <1>2, <1>3, <1>4, <1>5, <1>6, <1>7, <1>8, <1>9, <1>10, <1>11,
     <1>12, <1>13, <1>14, <1>15, <1>16, <1>17, <1>18, <1>19, <1>20, <1>21,
     <1>22, <1>23, <1>24, <1>25, <1>26, <1>27 DEF Next, MessageStep,
     FileClientStep, FileHandlerStep, LookupStep

-----------------------------------------------------------------------------
(* The budget and the lists.                                               *)

\* Every step keeps the budget: only useBuffer spends, after its test.
LEMMA BudgetInductive ==
  ASSUME IInv, [Next]_vars
  PROVE  BufferBounded'
<1>1. ASSUME NEW u \in Uploads, AcceptRequest(u) PROVE BufferBounded'
  <2>1. SizeOf[u] \in Nat /\ MaxBufferSize \in Nat /\ bufferUsed \in Nat
    BY UploadAssumption DEF IInv, TypeOK
  <2>2. ~(SizeOf[u] > MaxBufferSize - bufferUsed)
          /\ bufferUsed' = bufferUsed + SizeOf[u]
    BY <1>1 DEF AcceptRequest, UseBuffer
  <2> QED
    BY <2>1, <2>2 DEF BufferBounded
<1>2. CASE bufferUsed' = bufferUsed
  BY <1>2 DEF IInv, BufferBounded
<1>3. bufferUsed' = bufferUsed \/ \E u \in Uploads : AcceptRequest(u)
  BY DEF vars, message, Next, MessageStep, FileClientStep, FileHandlerStep,
     LookupStep, RequestUpload, RefuseRequest, ReadRefusal, StartFileClient,
     SendChunk, ReadResponse, CloseSocket, Break, FSLogin, ReceiveInit,
     ReceiveChunk, AckFails, UploadLost, WriteComplete, CompleteFails,
     FindList, PutList, AddFile, AddFails, SaveFile, FileConnectionLost,
     StartLookup, LookupPutList, AnswerLookup, LookupFails, ReadList
<1> QED
  BY <1>1, <1>2, <1>3

\* The budget is the sum of the sizes of the uploads accepted so far.
Accounts == IsFiniteSet(Accepted) /\ bufferUsed = SumOf(Accepted, SizeOf)

LEMMA AccountsInductive ==
  ASSUME TypeOK, Accounts, [Next]_vars
  PROVE  Accounts'
<1>1. ASSUME NEW u \in Uploads, AcceptRequest(u) PROVE Accounts'
  <2>1. u \notin Accepted /\ Accepted' = Accepted \cup {u}
    BY <1>1 DEF AcceptRequest, Accepted, TypeOK
  <2>2. IsFiniteSet(Accepted')
    BY <2>1, FS_AddElement DEF Accounts
  <2>3. Accepted' \ {u} = Accepted /\ u \in Accepted'
    BY <2>1
  <2>4. Accepted' \in SUBSET Uploads /\ SizeOf \in [Uploads -> Nat]
    BY UploadAssumption DEF Accepted
  <2> DEFINE A == Accepted'
  <2>5. SumOf(A, SizeOf) = SizeOf[u] + SumOf(A \ {u}, SizeOf)
    <3> HIDE DEF A
    <3> QED
      BY <2>2, <2>3, <2>4, SumWithout DEF A
  <2>6. bufferUsed' = bufferUsed + SizeOf[u]
    BY <1>1 DEF AcceptRequest, UseBuffer
  <2>7. bufferUsed \in Nat /\ SizeOf[u] \in Nat
    BY <2>4 DEF TypeOK
  <2>8. bufferUsed = SumOf(A \ {u}, SizeOf)
    BY <2>3, Zenon DEF Accounts
  <2>9. bufferUsed' = SumOf(A, SizeOf)
    <3> HIDE DEF A
    <3> QED
      BY <2>5, <2>6, <2>7, <2>8
  <2> QED
    BY <2>2, <2>9 DEF Accounts
<1>2. ASSUME NEW u \in Uploads, RefuseRequest(u) PROVE Accounts'
  <2>1. Accepted' = Accepted
    BY <1>2 DEF RefuseRequest, Accepted, TypeOK
  <2>2. bufferUsed' = bufferUsed
    BY <1>2 DEF RefuseRequest
  <2> QED
    BY <2>1, <2>2 DEF Accounts
<1>3. CASE bufferUsed' = bufferUsed /\ verdict' = verdict
  BY <1>3 DEF Accounts, Accepted
<1>4. \/ bufferUsed' = bufferUsed /\ verdict' = verdict
      \/ \E u \in Uploads : AcceptRequest(u) \/ RefuseRequest(u)
  BY DEF vars, message, Next, MessageStep, FileClientStep, FileHandlerStep,
     LookupStep, RequestUpload, ReadRefusal, StartFileClient,
     SendChunk, ReadResponse, CloseSocket, Break, FSLogin, ReceiveInit,
     ReceiveChunk, AckFails, UploadLost, WriteComplete, CompleteFails,
     FindList, PutList, AddFile, AddFails, SaveFile, FileConnectionLost,
     StartLookup, LookupPutList, AnswerLookup, LookupFails, ReadList
<1> QED
  BY <1>1, <1>2, <1>3, <1>4

\* The sum that the runs compute is this one.
LEMMA SameSum ==
  MapThenSumSet(LAMBDA u : SizeOf[u], Accepted) = SumOf(Accepted, SizeOf)
BY DEF MapThenSumSet, MapThenFoldSet, SumOf, Summing, Pick

\* What was received completely stays so: later steps neither add to the
\* chunks nor change their number.
LEMMA ReceivedStable ==
  ASSUME IInv, [Next]_vars, NEW v \in Uploads, Received(v)
  PROVE  Received(v)'
<1>i. TypeOK /\ UploadInv(v)
  BY DEF IInv
<1>1. CASE got'[v] = got[v] /\ chunkSize'[v] = chunkSize[v]
  BY <1>1, TotalChunksStable DEF Received
<1>2. ASSUME NEW u \in Uploads, AcceptRequest(u) PROVE Received(v)'
  <2>1. got'[v] = got[v]
    BY <1>2 DEF AcceptRequest, fileHandler
  <2>2. CASE u = v
    <3>1. fc[v] = "off"
      BY <1>2, <1>i, <2>2 DEF AcceptRequest, UploadInv, Negotiated
    <3>2. Len(got[v]) = 0
      BY <1>i, <3>1 DEF UploadInv, Negotiated
    <3> QED
      BY <3>2 DEF Received
  <2>3. CASE u # v
    BY <1>1, <1>2, <1>i, <2>1, <2>3 DEF AcceptRequest, TypeOK
  <2> QED
    BY <2>2, <2>3
<1>3. ASSUME NEW u \in Uploads, ReceiveChunk(u) PROVE Received(v)'
  <2>1. u # v
    BY <1>3, <1>i DEF ReceiveChunk, At, UploadInv, Transfer
  <2> QED
    BY <1>1, <1>3, <1>i, <2>1 DEF ReceiveChunk, message, TypeOK
<1>4. \/ got' = got /\ chunkSize' = chunkSize
      \/ \E u \in Uploads : AcceptRequest(u) \/ ReceiveChunk(u)
  BY DEF vars, message, fileHandler, Next, MessageStep, FileClientStep,
     FileHandlerStep, LookupStep, RequestUpload, RefuseRequest, ReadRefusal,
     StartFileClient, SendChunk, ReadResponse, CloseSocket, Break, FSLogin,
     ReceiveInit, AckFails, UploadLost, WriteComplete, CompleteFails,
     FindList, PutList, AddFile, AddFails, SaveFile, FileConnectionLost,
     StartLookup, LookupPutList, AnswerLookup, LookupFails, ReadList
<1> QED
  BY <1>1, <1>2, <1>3, <1>4

\* Only AddFile puts an upload in a list: another step adds nothing ...
LEMMA OnlyAddFileAdds ==
  ASSUME IInv, [Next]_vars, ~\E u \in Uploads : AddFile(u)
  PROVE  NoneAdded
<1>i. files \in [Students -> Lists \cup {None}] /\ Listing
  BY DEF IInv, TypeOK
<1>1. CASE files' = files
  BY <1>1 DEF NoneAdded
<1>2. ASSUME NEW u \in Uploads, PutList(u) PROVE NoneAdded
  BY <1>2, <1>i, PutLists DEF PutList
<1>3. ASSUME NEW s \in Students, LookupPutList(s) PROVE NoneAdded
  BY <1>3, <1>i, PutLists DEF LookupPutList
<1>4. ASSUME NEW s \in Students, ReadList(s) PROVE NoneAdded
  BY <1>4, <1>i, ReadLists DEF ReadList, Listing
<1>5. \/ files' = files
      \/ \E u \in Uploads : PutList(u)
      \/ \E s \in Students : LookupPutList(s) \/ ReadList(s)
  BY DEF vars, Next, MessageStep, FileClientStep, FileHandlerStep,
     LookupStep, RequestUpload, AcceptRequest, RefuseRequest, ReadRefusal,
     StartFileClient, SendChunk, ReadResponse, CloseSocket, Break, FSLogin,
     ReceiveInit, ReceiveChunk, AckFails, UploadLost, WriteComplete,
     CompleteFails, FindList, AddFails, SaveFile, FileConnectionLost,
     StartLookup, AnswerLookup, LookupFails
<1> QED
  BY <1>1, <1>2, <1>3, <1>4, <1>5

\* ... and AddFile, unless its entry is lost, its own upload.
LEMMA AddFileAdds ==
  ASSUME TypeOK, NEW u \in Uploads, AddFile(u)
  PROVE  \/ files' = files
         \/ \A s \in Students :
              /\ files'[s] = IF s = OwnerOf[u] THEN files[s] \cup {u}
                                               ELSE files[s]
              /\ files'[s] # None <=> files[s] # None
<1>i. /\ files \in [Students -> Lists \cup {None}]
      /\ OwnerOf[u] \in Students /\ files[OwnerOf[u]] # None
  BY UploadAssumption DEF TypeOK, AddFile
<1>1. CASE files' = [files EXCEPT ![OwnerOf[u]] = @ \cup {u}]
  <2>1. files[OwnerOf[u]] \cup {u} \in Lists
    BY <1>i DEF Lists
  <2>2. files[OwnerOf[u]] \cup {u} # None
    BY <2>1, ListsThere
  <2>3. \A s \in Students :
          files'[s] = IF s = OwnerOf[u] THEN files[s] \cup {u} ELSE files[s]
    BY <1>i, <1>1
  <2> QED
    BY <1>i, <2>2, <2>3
<1> QED
  BY <1>1 DEF AddFile

-----------------------------------------------------------------------------
(* Listings, and the invariant as a whole.                                *)

\* Every step keeps what is listed or saved complete.
LEMMA ListingInductive ==
  ASSUME IInv, [Next]_vars
  PROVE  Listing'
<1>i. /\ TypeOK /\ Listing
      /\ \A u \in Uploads : UploadInv(u)
      /\ OwnerOf \in [Uploads -> Students]
  BY UploadAssumption DEF IInv
<1>2. ASSUME NEW s \in Students
      PROVE  look'[s].at \notin {"idle", "died"} => look'[s].of \in Students
  <2>t. look \in [Students -> Looks]
    BY <1>i DEF TypeOK
  <2>1. CASE look'[s] = look[s]
    BY <1>i, <2>1 DEF Listing
  <2>2. ASSUME NEW l \in Lookups, StartLookup(l[1], l[2], l[3]), l[1] = s
        PROVE  look'[s].of \in Students
    <3>1. l[2] \in Students
      BY UploadAssumption
    <3>2. look'[s].of = l[2]
      BY <2>2, <2>t DEF StartLookup
    <3> QED
      BY <3>1, <3>2
  <2>3. CASE LookupPutList(s)
    <3>1. look'[s].of = look[s].of /\ look[s].of \in Students
      BY <1>i, <2>3, <2>t DEF LookupPutList, Listing, Looks
    <3> QED
      BY <3>1
  <2>4. CASE AnswerLookup(s) \/ LookupFails(s)
    <3>1. look'[s].at \in {"idle", "died"}
      BY <2>4, <2>t DEF AnswerLookup, LookupFails, NoLook
    <3> QED
      BY <3>1
  <2>5. \/ look' = look
        \/ \E l \in Lookups : StartLookup(l[1], l[2], l[3])
        \/ \E t \in Students : LookupStep(t)
    BY DEF vars, Next, MessageStep, FileClientStep, FileHandlerStep,
       RequestUpload, AcceptRequest, RefuseRequest, ReadRefusal,
       StartFileClient, SendChunk, ReadResponse, CloseSocket, Break, FSLogin,
       ReceiveInit, ReceiveChunk, AckFails, UploadLost, WriteComplete,
       CompleteFails, FindList, PutList, AddFile, AddFails, SaveFile,
       FileConnectionLost
  <2>6. \/ look'[s] = look[s]
        \/ \E l \in Lookups : StartLookup(l[1], l[2], l[3]) /\ l[1] = s
        \/ LookupPutList(s) \/ AnswerLookup(s) \/ LookupFails(s)
    BY <2>5, <2>t
      DEF LookupStep, StartLookup, LookupPutList, AnswerLookup, LookupFails
  <2> QED
    BY <2>1, <2>2, <2>3, <2>4, <2>6
<1>3. ASSUME NEW u \in saved' PROVE Received(u)'
  <2>1. saved \subseteq Uploads
    BY <1>i DEF TypeOK
  <2>2. saved' = saved \/ \E v \in Uploads : SaveFile(v)
    BY DEF vars, message, fileHandler, Next, MessageStep, FileClientStep,
       FileHandlerStep, LookupStep, RequestUpload, AcceptRequest,
       RefuseRequest, ReadRefusal, StartFileClient, SendChunk, ReadResponse,
       CloseSocket, Break, FSLogin, ReceiveInit, ReceiveChunk, AckFails,
       UploadLost, WriteComplete, CompleteFails, FindList, PutList, AddFile,
       AddFails, FileConnectionLost, StartLookup, LookupPutList,
       AnswerLookup, LookupFails, ReadList
  <2>3. u \in saved \/ (u \in Uploads /\ fh[u] = "save")
    BY <2>2 DEF SaveFile, At
  <2>4. u \in Uploads /\ Received(u)
    BY <1>i, <2>1, <2>3 DEF Listing, UploadInv, Transfer, Finishing
  <2> QED
    BY <2>4, ReceivedStable
<1>4. ASSUME NEW s \in Students, files'[s] # None,
             NEW u \in files'[s] \ {None}
      PROVE  Received(u)'
  <2>1. files[s] # None => files[s] \ {None} \subseteq Uploads
    BY <1>i DEF TypeOK, Lists
  <2>2. CASE files[s] # None /\ u \in files[s]
    <3>1. u \in Uploads /\ Received(u)
      BY <1>i, <1>4, <2>1, <2>2 DEF Listing
    <3> QED
      BY <3>1, ReceivedStable
  <2>3. ASSUME NEW v \in Uploads, AddFile(v)
        PROVE  (files[s] # None /\ u \in files[s]) \/ u = v
    <3>1. CASE files' = files
      BY <1>4, <3>1
    <3>2. CASE \A t \in Students :
                 /\ files'[t] = IF t = OwnerOf[v] THEN files[t] \cup {v}
                                                  ELSE files[t]
                 /\ files'[t] # None <=> files[t] # None
      BY <1>4, <3>2
    <3> QED
      BY <1>i, <2>3, <3>1, <3>2, AddFileAdds
  <2>4. ASSUME NEW v \in Uploads, AddFile(v), u = v PROVE Received(u)'
    <3>1. Received(u)
      BY <1>i, <2>4 DEF AddFile, At, UploadInv, Transfer, Finishing
    <3> QED
      BY <2>4, <3>1, ReceivedStable
  <2>5. CASE ~\E v \in Uploads : AddFile(v)
    BY <1>4, <2>2, <2>5, OnlyAddFileAdds DEF NoneAdded
  <2> QED
    BY <2>2, <2>3, <2>4, <2>5
<1> QED
  BY <1>2, <1>3, <1>4 DEF Listing

\* The server starts with no list, no upload and an empty budget.
LEMMA InitialState == Init => IInv
<1> SUFFICES ASSUME Init PROVE IInv
  OBVIOUS
<1>a. MaxBufferSize \in Nat
  BY UploadAssumption
<1>1. TypeOK
  BY DEF Init, TypeOK, Handling, Looks, NoLook
<1>2. BufferBounded
  BY <1>a DEF Init, BufferBounded
<1>3. ASSUME NEW u \in Uploads PROVE UploadInv(u)
  <2>1. /\ phase[u] = "idle" /\ verdict[u] = "none" /\ chunkSize[u] = 0
        /\ fc[u] = "off" /\ next[u] = 1 /\ up[u] = TRUE
        /\ c2s[u] = <<>> /\ s2c[u] = <<>> /\ fh[u] = "idle"
        /\ got[u] = <<>>
    BY DEF Init
  <2>2. TotalChunks(u) = 0 /\ Len(got[u]) = 0
    BY <2>1 DEF TotalChunks
  <2>3. got[u] = OneTo(0)
    BY <2>1, SeqEqual, EmptySeq DEF OneTo
  <2> QED
    BY <2>1, <2>2, <2>3 DEF UploadInv, Negotiated, BeforeInit, Transfer,
       Finishing, Received
<1>4. Listing
  BY DEF Init, Listing, NoLook
<1> QED
  BY <1>1, <1>2, <1>3, <1>4 DEF IInv

\* The four parts together: IInv is inductive.
LEMMA InductiveStep == IInv /\ [Next]_vars => IInv'
BY TypeInductive, UploadInductive, BudgetInductive, ListingInductive DEF IInv

\* The inductive invariant of the upload protocol holds in every reachable
\* state; the theorems below read it off.
THEOREM AlwaysIInv == Spec => []IInv
BY InitialState, InductiveStep, PTL DEF Spec

-----------------------------------------------------------------------------
(* The theorems.                                                           *)

\* Every variable keeps its type (the declarations of Server, Handler,
\* Client and FileClient).
THEOREM TypeCorrect == Spec => []TypeOK
<1>1. IInv => TypeOK
  BY DEF IInv
<1> QED
  BY <1>1, AlwaysIInv, PTL

\* With the requests of several students in flight the budget is, in every
\* state, exactly the sum of the accepted sizes, and within MAX_BUFFER_SIZE
\* (Server.java 91-97).
THEOREM BudgetAccounts == Spec => []BufferAccounts
<1>1. Init => Accounts
  <2>1. SUFFICES ASSUME Init PROVE Accounts
    OBVIOUS
  <2>2. Accepted = {} /\ bufferUsed = 0
    BY <2>1 DEF Init, Accepted
  <2>3. IsFiniteSet({})
    BY FS_EmptySet
  <2>4. SumOf({}, SizeOf) = 0
    BY <2>3, SumUnfold
  <2> QED
    BY <2>2, <2>3, <2>4 DEF Accounts
<1>2. IInv /\ Accounts /\ [Next]_vars => Accounts'
  BY AccountsInductive DEF IInv
<1>3. IInv /\ Accounts => BufferAccounts
  BY SameSum DEF IInv, Accounts, BufferAccounts
<1> QED
  BY <1>1, <1>2, <1>3, AlwaysIInv, PTL DEF Spec

\* The stop-and-wait transfer keeps both ends within one chunk of each other,
\* an acknowledged chunk is held, and a client that sent its file to the end
\* knows that the server has it (Client.java 47-51, Server.java 371-381).
THEOREM TransferSafe == Spec => [](LockStep /\ DoneIsReceived)
<1>1. IInv => LockStep /\ DoneIsReceived
  BY DEF IInv, UploadInv, LockStep, DoneIsReceived
<1> QED
  BY <1>1, AlwaysIInv, PTL

\* A client that sent its file to the end knows that the server has it
\* (Client.java 47-51, Server.java 371-381).
THEOREM DoneSafe == Spec => []DoneIsReceived
BY TransferSafe, PTL

\* Only complete files are listed or saved (Server.java 377-386).
THEOREM OnlyCompleteFiles == Spec => []ListedIsComplete
<1>1. IInv => ListedIsComplete
  BY UploadAssumption DEF IInv, Listing, ListedIsComplete, Shown
<1> QED
  BY <1>1, AlwaysIInv, PTL

-----------------------------------------------------------------------------
(* FileUpload implements UploadService.                                    *)

\* The abstract status of an upload depends on three of its variables.
LEMMA StatusStable ==
  ASSUME NEW v \in Uploads,
         phase'[v] = "idle" <=> phase[v] = "idle",
         verdict'[v] = verdict[v],
         Received(v)' <=> Received(v)
  PROVE  Status(v)' = Status(v)
BY DEF Status

\* What a step of one upload does to the abstract state.
LEMMA StatusMoves ==
  ASSUME NEW u \in Uploads, NEW from, NEW to,
         Status(u) = from, Status(u)' = to,
         \A v \in Uploads \ {u} : Status(v)' = Status(v)
  PROVE  Service!Move(u, from, to)
<1> DEFINE S == [w \in Uploads |-> Status(w)]
           T == [w \in Uploads |-> Status(w)']
<1>1. T = [S EXCEPT ![u] = to]
  OBVIOUS
<1>2. S[u] = from
  OBVIOUS
<1> QED
  BY <1>1, <1>2 DEF Service!Move

\* The lists only lose uploads unless AddFile runs.
LEMMA ShownSteps ==
  ASSUME IInv, [Next]_vars
  PROVE  Shown' \subseteq Shown \/ \E u \in Uploads : AddFile(u)
<1> SUFFICES ASSUME ~\E u \in Uploads : AddFile(u)
             PROVE  Shown' \subseteq Shown
  OBVIOUS
<1>1. NoneAdded /\ None \notin Uploads
  BY OnlyAddFileAdds, UploadAssumption
<1> QED
  BY <1>1 DEF Shown, NoneAdded

\* AddFile shows its upload, or, when an overlapped update is lost, nothing.
LEMMA AddFileShows ==
  ASSUME IInv, NEW u \in Uploads, AddFile(u)
  PROVE  Shown' = Shown \/ Shown' = Shown \cup {u}
<1>i. OwnerOf[u] \in Students /\ files[OwnerOf[u]] # None /\ TypeOK
  BY UploadAssumption DEF IInv, AddFile
<1>1. CASE files' = files
  BY <1>1 DEF Shown
<1>2. CASE \A s \in Students :
             /\ files'[s] = IF s = OwnerOf[u] THEN files[s] \cup {u}
                                              ELSE files[s]
             /\ files'[s] # None <=> files[s] # None
  <2>1. ASSUME NEW x
        PROVE  x \in Shown' <=> x \in Shown \/ x = u
    <3>1. x \in Shown' <=> /\ x \in Uploads
            /\ \E s \in Students : files'[s] # None /\ x \in files'[s]
      BY DEF Shown
    <3>2. x \in Shown <=> /\ x \in Uploads
            /\ \E s \in Students : files[s] # None /\ x \in files[s]
      BY DEF Shown
    <3> QED
      BY <1>i, <1>2, <3>1, <3>2
  <2> QED
    BY <2>1
<1> QED
  BY <1>i, <1>1, <1>2, AddFileAdds

\* Every step of the threads is a step of UploadService or none.
LEMMA StepRefines ==
  ASSUME IInv, [Next]_vars
  PROVE  Service!Next \/ UNCHANGED Service!vars
<1>i. /\ TypeOK
      /\ \A u \in Uploads : UploadInv(u)
      /\ SizeOf \in [Uploads -> Nat] /\ MaxBufferSize \in Nat
  BY UploadAssumption DEF IInv
<1>r. \A v \in Uploads : Received(v) => Received(v)'
  BY ReceivedStable
<1>s. files' = files => Shown' = Shown
  BY DEF Shown
<1>q. \A v \in Uploads :
        got'[v] = got[v] /\ chunkSize'[v] = chunkSize[v] =>
          (Received(v)' <=> Received(v))
  BY TotalChunksStable DEF Received
<1>1. ASSUME NEW u \in Uploads, RequestUpload(u) PROVE Service!Next
  <2>1. Status(u) = "idle" /\ Status(u)' = "asked"
    <3>1. /\ phase[u] = "idle" /\ phase'[u] = "asked"
          /\ verdict[u] = "none" /\ verdict'[u] = "none"
      BY <1>1, <1>i DEF RequestUpload, TypeOK, UploadInv, Negotiated
    <3> QED
      BY <3>1 DEF Status
  <2>2. \A v \in Uploads \ {u} : Status(v)' = Status(v)
    <3> SUFFICES ASSUME NEW v \in Uploads, v # u PROVE Status(v)' = Status(v)
      OBVIOUS
    <3>1. phase'[v] = phase[v] /\ verdict'[v] = verdict[v]
          /\ got'[v] = got[v] /\ chunkSize'[v] = chunkSize[v]
      BY <1>1, <1>i DEF RequestUpload, fileHandler, TypeOK
    <3> QED
      BY <1>q, <3>1, StatusStable
  <2>3. Service!Move(u, "idle", "asked")
    BY <2>1, <2>2, StatusMoves
  <2>4. UNCHANGED <<bufferUsed, Shown>>
    BY <1>1, <1>s DEF RequestUpload
  <2> QED
    BY <2>3, <2>4 DEF Service!Next, Service!Ask
<1>2. ASSUME NEW u \in Uploads, AcceptRequest(u) PROVE Service!Next
  <2>1. Status(u) = "asked" /\ Status(u)' = "reserved"
    <3>1. /\ phase[u] = "asked" /\ verdict[u] = "none"
          /\ phase'[u] = "asked" /\ verdict'[u] = "FILE_ACCEPT"
          /\ got'[u] = <<>>
      BY <1>2, <1>i DEF AcceptRequest, fileHandler, TypeOK, UploadInv,
         Negotiated
    <3>2. ~Received(u)'
      BY <3>1 DEF Received
    <3> QED
      BY <3>1, <3>2 DEF Status
  <2>2. \A v \in Uploads \ {u} : Status(v)' = Status(v)
    <3> SUFFICES ASSUME NEW v \in Uploads, v # u PROVE Status(v)' = Status(v)
      OBVIOUS
    <3>1. phase'[v] = phase[v] /\ verdict'[v] = verdict[v]
          /\ got'[v] = got[v] /\ chunkSize'[v] = chunkSize[v]
      BY <1>2, <1>i DEF AcceptRequest, fileHandler, TypeOK
    <3> QED
      BY <1>q, <3>1, StatusStable
  <2>3. Service!Move(u, "asked", "reserved")
    BY <2>1, <2>2, StatusMoves
  <2>4. /\ bufferUsed + SizeOf[u] <= MaxBufferSize
        /\ bufferUsed' = bufferUsed + SizeOf[u]
        /\ Shown' = Shown
    <3>1. bufferUsed \in Nat /\ SizeOf[u] \in Nat
      BY <1>i DEF TypeOK
    <3> QED
      BY <1>2, <1>i, <1>s, <3>1 DEF AcceptRequest, UseBuffer
  <2> QED
    BY <2>3, <2>4 DEF Service!Next, Service!Reserve
<1>3. ASSUME NEW u \in Uploads, RefuseRequest(u) PROVE Service!Next
  <2>1. Status(u) = "asked" /\ Status(u)' = "refused"
    <3>1. /\ phase[u] = "asked" /\ verdict[u] = "none"
          /\ phase'[u] = "asked" /\ verdict'[u] = "BUFFER_FULL"
      BY <1>3, <1>i DEF RefuseRequest, TypeOK
    <3> QED
      BY <3>1 DEF Status
  <2>2. \A v \in Uploads \ {u} : Status(v)' = Status(v)
    <3> SUFFICES ASSUME NEW v \in Uploads, v # u PROVE Status(v)' = Status(v)
      OBVIOUS
    <3>1. phase'[v] = phase[v] /\ verdict'[v] = verdict[v]
          /\ got'[v] = got[v] /\ chunkSize'[v] = chunkSize[v]
      BY <1>3, <1>i DEF RefuseRequest, fileHandler, TypeOK
    <3> QED
      BY <1>q, <3>1, StatusStable
  <2>3. Service!Move(u, "asked", "refused")
    BY <2>1, <2>2, StatusMoves
  <2>4. /\ bufferUsed + SizeOf[u] > MaxBufferSize
        /\ UNCHANGED <<bufferUsed, Shown>>
    <3>1. bufferUsed \in Nat /\ SizeOf[u] \in Nat
      BY <1>i DEF TypeOK
    <3> QED
      BY <1>3, <1>i, <1>s, <3>1 DEF RefuseRequest
  <2> QED
    BY <2>3, <2>4 DEF Service!Next, Service!Refuse
<1>4. ASSUME NEW u \in Uploads, ReceiveChunk(u)
      PROVE  Service!Next \/ UNCHANGED Service!vars
  <2>1. \A v \in Uploads \ {u} : Status(v)' = Status(v)
    <3> SUFFICES ASSUME NEW v \in Uploads, v # u PROVE Status(v)' = Status(v)
      OBVIOUS
    <3>1. phase'[v] = phase[v] /\ verdict'[v] = verdict[v]
          /\ got'[v] = got[v] /\ chunkSize'[v] = chunkSize[v]
      BY <1>4, <1>i DEF ReceiveChunk, message, TypeOK
    <3> QED
      BY <1>q, <3>1, StatusStable
  <2>2. /\ phase[u] = "accepted" /\ verdict[u] = "FILE_ACCEPT"
        /\ UNCHANGED <<phase, verdict, bufferUsed, Shown>>
    BY <1>4, <1>i, <1>s DEF ReceiveChunk, At, message, TypeOK, UploadInv,
       Negotiated
  <2>3. ~Received(u)
    BY <1>4, <1>i DEF ReceiveChunk, At, UploadInv, Transfer
  <2>4. Status(u) = "reserved"
    BY <2>2, <2>3 DEF Status
  <2>5. CASE Received(u)'
    <3>1. Status(u)' = "received"
      BY <2>2, <2>5 DEF Status
    <3>2. Service!Move(u, "reserved", "received")
      BY <2>1, <2>4, <3>1, StatusMoves
    <3> QED
      BY <2>2, <3>2 DEF Service!Next, Service!Receive
  <2>6. CASE ~Received(u)'
    <3>1. Status(u)' = Status(u)
      BY <2>2, <2>4, <2>6 DEF Status
    <3>2. \A v \in Uploads : Status(v)' = Status(v)
      BY <2>1, <3>1
    <3> QED
      BY <2>2, <3>2 DEF Service!vars
  <2> QED
    BY <2>5, <2>6
<1>5. ASSUME NEW u \in Uploads, AddFile(u)
      PROVE  Service!Next \/ UNCHANGED Service!vars
  <2>1. \A v \in Uploads : Status(v)' = Status(v)
    <3> SUFFICES ASSUME NEW v \in Uploads PROVE Status(v)' = Status(v)
      OBVIOUS
    <3>1. phase'[v] = phase[v] /\ verdict'[v] = verdict[v]
          /\ got'[v] = got[v] /\ chunkSize'[v] = chunkSize[v]
      BY <1>5 DEF AddFile, message
    <3> QED
      BY <1>q, <3>1, StatusStable
  <2>2. Status(u) = "received"
    <3>1. phase[u] = "accepted" /\ verdict[u] = "FILE_ACCEPT" /\ Received(u)
      BY <1>5, <1>i DEF AddFile, At, TypeOK, UploadInv, Negotiated, Transfer,
         Finishing
    <3> QED
      BY <3>1 DEF Status
  <2>3. bufferUsed' = bufferUsed
    BY <1>5 DEF AddFile, message
  <2>4. CASE Shown' = Shown
    BY <2>1, <2>3, <2>4 DEF Service!vars
  <2>5. CASE Shown' = Shown \cup {u}
    BY <2>1, <2>2, <2>3, <2>5 DEF Service!Next, Service!Show
  <2> QED
    BY <1>5, <2>4, <2>5, AddFileShows
<1>6. ASSUME UNCHANGED <<verdict, got, chunkSize, bufferUsed>>,
             \A v \in Uploads : phase'[v] = "idle" <=> phase[v] = "idle",
             ~\E u \in Uploads : AddFile(u)
      PROVE  Service!Next
  <2>1. \A v \in Uploads : Status(v)' = Status(v)
    BY <1>6, <1>q, StatusStable
  <2>2. Shown' \subseteq Shown
    BY <1>6, ShownSteps
  <2> QED
    BY <1>6, <2>1, <2>2 DEF Service!Next, Service!Hide
<1>7. \/ \E u \in Uploads :
           \/ RequestUpload(u) \/ AcceptRequest(u) \/ RefuseRequest(u)
           \/ ReceiveChunk(u) \/ AddFile(u)
      \/ /\ UNCHANGED <<verdict, got, chunkSize, bufferUsed>>
         /\ \A v \in Uploads : phase'[v] = "idle" <=> phase[v] = "idle"
  <2>1. \/ \E u \in Uploads :
             \/ RequestUpload(u) \/ AcceptRequest(u) \/ RefuseRequest(u)
             \/ ReceiveChunk(u) \/ AddFile(u)
             \/ ReadRefusal(u) \/ StartFileClient(u)
        \/ UNCHANGED <<verdict, got, chunkSize, bufferUsed, phase>>
    BY DEF vars, message, fileHandler, Next, MessageStep, FileClientStep,
       FileHandlerStep, LookupStep, SendChunk, ReadResponse, CloseSocket,
       Break, FSLogin, ReceiveInit, AckFails, UploadLost, WriteComplete,
       CompleteFails, FindList, PutList, AddFails, SaveFile,
       FileConnectionLost, StartLookup, LookupPutList, AnswerLookup,
       LookupFails, ReadList
  <2>2. ASSUME NEW u \in Uploads, ReadRefusal(u) \/ StartFileClient(u)
        PROVE  /\ UNCHANGED <<verdict, got, chunkSize, bufferUsed>>
               /\ \A v \in Uploads : phase'[v] = "idle" <=> phase[v] = "idle"
    BY <1>i, <2>2 DEF ReadRefusal, StartFileClient, fileHandler, TypeOK
  <2> QED
    BY <2>1, <2>2
<1> QED
  BY <1>1, <1>2, <1>3, <1>4, <1>5, <1>6, <1>7

\* The server starts as UploadService starts.
LEMMA InitRefines == Init => Service!Init
<1> SUFFICES ASSUME Init PROVE Service!Init
  OBVIOUS
<1>1. \A u \in Uploads : Status(u) = "idle"
  BY DEF Init, Status
<1>2. Shown = {} /\ bufferUsed = 0
  BY DEF Init, Shown
<1> QED
  BY <1>1, <1>2 DEF Service!Init

\* The threads, sockets, chunks and shared lists of the program implement the
\* promise of UploadService: a reservation never exceeds the budget, a refusal
\* only happens when it would, and only received files are shown
\* (Server.java 91-97, 108-126, 272-291, 363-402).
THEOREM Implements == Spec => ImplementsService
<1>1. Init => Service!Init
  BY InitRefines
<1>2. IInv /\ [Next]_vars => [Service!Next]_Service!vars
  BY StepRefines
<1> QED
  BY <1>1, <1>2, AlwaysIInv, PTL DEF Spec, ImplementsService, Service!Spec

-----------------------------------------------------------------------------
(* What the missing lock of Server.files costs.                            *)

\* No handler ended by an unchecked exception of addFile, getFileList or
\* getPublicFileList.
NobodyDies ==
  /\ \A u \in Uploads : fh[u] # "died"
  /\ \A s \in Students : look[s].at # "died"

\* Without overlap a list that was found or made is there when it is used,
\* and holds no null.
Orderly ==
  /\ \A u \in Uploads :
       /\ fh[u] \notin {"putRaced", "died"}
       /\ fh[u] = "add" => files[OwnerOf[u]] # None
  /\ \A s \in Students :
       /\ look[s].at \notin {"putRaced", "died"}
       /\ look[s].at = "list" => files[look[s].of] # None
  /\ \A s \in Students : files[s] # None => None \notin files[s]

\* Lists, once made, stay, and no null gets into them.
ListsKept == \A s \in Students :
  /\ files[s] # None => files'[s] # None
  /\ (files[s] # None => None \notin files[s]) /\ files'[s] # None =>
       None \notin files'[s]

LEMMA ListsKeptStep ==
  ASSUME ~Overlapping, IInv, Orderly, [Next]_vars
  PROVE  ListsKept
<1>i. /\ files \in [Students -> Lists \cup {None}] /\ Listing /\ TypeOK
      /\ OwnerOf \in [Uploads -> Students] /\ None \notin Uploads
  BY UploadAssumption DEF IInv, TypeOK
<1>1. CASE files' = files
  BY <1>1 DEF ListsKept
<1>p. ASSUME NEW o \in Students, Put(o, FALSE) PROVE ListsKept
  <2>1. files' = [s \in Students |-> IF s = o THEN {} ELSE files[s]]
    <3>1. PICK lost \in SUBSET Students :
            /\ lost # {} => FALSE
            /\ files' = [s \in Students |-> IF s \in lost THEN None
                                    ELSE IF s = o THEN {} ELSE files[s]]
      BY <1>p DEF Put
    <3> QED
      BY <3>1
  <2>2. {} # None
    BY ListsThere DEF Lists
  <2>3. \A s \in Students : files'[s] = IF s = o THEN {} ELSE files[s]
    BY <2>1
  <2> QED
    BY <2>2, <2>3 DEF ListsKept
<1>2. ASSUME NEW u \in Uploads, PutList(u) PROVE ListsKept
  <2>1. ~At(u, "putRaced") /\ OwnerOf[u] \in Students
    BY <1>2, <1>i DEF Orderly, At
  <2>2. Put(OwnerOf[u], FALSE)
    BY <1>2, <2>1 DEF PutList, Put
  <2> QED
    BY <1>p, <2>1, <2>2
<1>3. ASSUME NEW u \in Uploads, AddFile(u) PROVE ListsKept
  <2>1. u # None
    BY <1>i
  <2>2. CASE \A s \in Students :
               /\ files'[s] = IF s = OwnerOf[u] THEN files[s] \cup {u}
                                                ELSE files[s]
               /\ files'[s] # None <=> files[s] # None
    <3> SUFFICES ASSUME NEW s \in Students, files[s] # None
                 PROVE  /\ files'[s] # None
                        /\ None \notin files[s] => None \notin files'[s]
      BY <2>2 DEF ListsKept
    <3> QED
      BY <2>1, <2>2
  <2> QED
    BY <1>1, <1>3, <1>i, <2>2, AddFileAdds
<1>4. ASSUME NEW s \in Students, LookupPutList(s) PROVE ListsKept
  <2>1. look[s].at = "putList" /\ look[s].of \in Students
    BY <1>4, <1>i DEF LookupPutList, Orderly, Listing
  <2>2. Put(look[s].of, FALSE)
    BY <1>4, <2>1 DEF LookupPutList, Put
  <2> QED
    BY <1>p, <2>1, <2>2
<1>5. ASSUME NEW s \in Students, ReadList(s) PROVE ListsKept
  <2> DEFINE o == look[s].of
  <2>1. o \in Students /\ files[o] # None /\ files[o] \in Lists
    BY <1>5, <1>i DEF ReadList, Listing
  <2>2. ASSUME files' # files
        PROVE  files' = [files EXCEPT ![o] = files[o] \cap PublicUploads]
    BY <1>5, <2>2 DEF ReadList, RemovePrivate, Overlapped
  <2>3. /\ files[o] \cap PublicUploads \in Lists
        /\ None \notin files[o] \cap PublicUploads
    BY <1>i, UploadAssumption DEF Lists
  <2>4. files[o] \cap PublicUploads # None
    BY <2>3, ListsThere
  <2>5. CASE files' = [files EXCEPT ![o] = files[o] \cap PublicUploads]
    BY <1>i, <2>1, <2>3, <2>4, <2>5 DEF ListsKept
  <2> QED
    BY <1>1, <2>2, <2>5
<1>6. \/ files' = files
      \/ \E u \in Uploads : PutList(u) \/ AddFile(u)
      \/ \E s \in Students : LookupPutList(s) \/ ReadList(s)
  BY DEF vars, Next, MessageStep, FileClientStep, FileHandlerStep,
     LookupStep, RequestUpload, AcceptRequest, RefuseRequest, ReadRefusal,
     StartFileClient, SendChunk, ReadResponse, CloseSocket, Break, FSLogin,
     ReceiveInit, ReceiveChunk, AckFails, UploadLost, WriteComplete,
     CompleteFails, FindList, AddFails, SaveFile, FileConnectionLost,
     StartLookup, AnswerLookup, LookupFails
<1> QED
  BY <1>1, <1>2, <1>3, <1>4, <1>5, <1>6

\* Without overlap nobody dies, whatever is interleaved.
LEMMA OrderlyInductive ==
  ASSUME ~Overlapping, IInv, Orderly, [Next]_vars
  PROVE  Orderly'
<1>i. /\ TypeOK /\ Listing /\ fh \in [Uploads -> Handling]
      /\ look \in [Students -> Looks]
      /\ OwnerOf \in [Uploads -> Students]
  BY UploadAssumption DEF IInv, TypeOK
<1>k. ListsKept
  BY ListsKeptStep
<1>o. \A x, threads : ~Overlapped(x, threads)
  BY DEF Overlapped
<1>1. ASSUME NEW u \in Uploads
      PROVE  /\ fh'[u] \notin {"putRaced", "died"}
             /\ fh'[u] = "add" => files'[OwnerOf[u]] # None
  <2>1. CASE fh'[u] = fh[u]
    BY <1>i, <1>k, <2>1 DEF Orderly, ListsKept
  <2>2. CASE FindList(u)
    BY <1>i, <1>k, <1>o, <2>2
      DEF FindList, Goto, EnterPut, ListsKept
  <2>3. CASE PutList(u)
    <3>1. Put(OwnerOf[u], FALSE) /\ fh'[u] = "add"
      BY <1>1, <1>i, <2>3 DEF PutList, Put, Goto, At, Orderly
    <3>2. files'[OwnerOf[u]] = {}
      BY <1>i, <3>1 DEF Put
    <3>3. {} # None
      BY ListsThere DEF Lists
    <3> QED
      BY <3>1, <3>2, <3>3
  <2>4. ~AddFails(u)
    BY <1>i, <1>o DEF AddFails, At, MissesList, Orderly
  <2>5. \/ fh' = fh
        \/ \E v \in Uploads : FileHandlerStep(v) \/ StartFileClient(v)
    BY DEF vars, message, fileHandler, Next, MessageStep, FileClientStep,
       LookupStep, RequestUpload, AcceptRequest, RefuseRequest,
       ReadRefusal, SendChunk, ReadResponse, CloseSocket, Break,
       StartLookup, LookupPutList, AnswerLookup, LookupFails, ReadList
  <2>6. ASSUME NEW v \in Uploads, FileHandlerStep(v) \/ StartFileClient(v),
               v # u
        PROVE  fh'[u] = fh[u]
    BY <1>i, <2>6 DEF FileHandlerStep, FSLogin, ReceiveInit, ReceiveChunk,
       AckFails, UploadLost, WriteComplete, CompleteFails, FindList, PutList,
       AddFile, AddFails, SaveFile, FileConnectionLost, StartFileClient, Goto
  <2>7. ASSUME FileHandlerStep(u) \/ StartFileClient(u),
               ~FindList(u), ~PutList(u)
        PROVE  fh'[u] \notin {"putRaced", "died", "add"}
    BY <1>1, <1>i, <2>4, <2>7 DEF FileHandlerStep, FSLogin, ReceiveInit,
       ReceiveChunk, AckFails, UploadLost, WriteComplete, CompleteFails,
       AddFile, SaveFile, FileConnectionLost, StartFileClient, Goto
  <2> QED
    BY <2>1, <2>2, <2>3, <2>5, <2>6, <2>7
<1>2. ASSUME NEW s \in Students
      PROVE  /\ look'[s].at \notin {"putRaced", "died"}
             /\ look'[s].at = "list" => files'[look'[s].of] # None
  <2>1. CASE look'[s] = look[s]
    BY <1>i, <1>k, <2>1 DEF Orderly, ListsKept, Listing
  <2>2. ASSUME NEW l \in Lookups, StartLookup(l[1], l[2], l[3]), l[1] = s
        PROVE  /\ look'[s].at \notin {"putRaced", "died"}
               /\ look'[s].at = "list" => files'[look'[s].of] # None
    <3>1. PICK at \in {"list", EnterPut(s)} :
            /\ IF at = "list" THEN files[l[2]] # None
               ELSE MissesList(s, l[2])
            /\ look' = [look EXCEPT ![s] =
                          [at |-> at, of |-> l[2], public |-> l[3]]]
      BY <2>2 DEF StartLookup
    <3>2. look'[s] = [at |-> at, of |-> l[2], public |-> l[3]]
      BY <1>i, <3>1
    <3>3. EnterPut(s) = "putList" /\ files' = files
      BY <1>o, <2>2 DEF EnterPut, StartLookup
    <3> QED
      BY <3>1, <3>2, <3>3
  <2>3. CASE LookupPutList(s)
    <3>1. /\ look'[s].at = "list" /\ look'[s].of = look[s].of
          /\ look[s].of \in Students /\ look[s].at # "putRaced"
      BY <1>i, <2>3 DEF LookupPutList, Listing, Looks, Orderly
    <3>2. Put(look[s].of, FALSE)
      BY <2>3, <3>1 DEF LookupPutList, Put
    <3>3. files'[look[s].of] = {}
      BY <3>1, <3>2 DEF Put
    <3>4. {} # None
      BY ListsThere DEF Lists
    <3> QED
      BY <3>1, <3>3, <3>4
  <2>4. CASE AnswerLookup(s)
    BY <1>i, <2>4 DEF AnswerLookup, NoLook
  <2>5. ~LookupFails(s)
    <3>1. look[s].at = "list" =>
            look[s].of \in Students /\ files[look[s].of] # None
      BY <1>i DEF Orderly, Listing
    <3> QED
      BY <1>o, <3>1 DEF LookupFails, MissesList, Orderly
  <2>6. \/ look' = look
        \/ \E l \in Lookups : StartLookup(l[1], l[2], l[3])
        \/ \E t \in Students : LookupStep(t)
    BY DEF vars, Next, MessageStep, FileClientStep, FileHandlerStep,
       RequestUpload, AcceptRequest, RefuseRequest, ReadRefusal,
       StartFileClient, SendChunk, ReadResponse, CloseSocket, Break, FSLogin,
       ReceiveInit, ReceiveChunk, AckFails, UploadLost, WriteComplete,
       CompleteFails, FindList, PutList, AddFile, AddFails, SaveFile,
       FileConnectionLost
  <2>7. \/ look'[s] = look[s]
        \/ \E l \in Lookups : StartLookup(l[1], l[2], l[3]) /\ l[1] = s
        \/ LookupPutList(s) \/ AnswerLookup(s) \/ LookupFails(s)
    BY <1>i, <2>6
      DEF LookupStep, StartLookup, LookupPutList, AnswerLookup, LookupFails
  <2> QED
    BY <2>1, <2>2, <2>3, <2>4, <2>5, <2>7
<1>3. ASSUME NEW s \in Students, files'[s] # None
      PROVE  None \notin files'[s]
  BY <1>3, <1>k DEF Orderly, ListsKept
<1> QED
  BY <1>1, <1>2, <1>3 DEF Orderly

\* If the calls on files and its lists never overlapped, as under a lock held
\* for each single call, no handler would end in addFile or a look-up,
\* although addFile and getFileList still test, put and get in separate calls
\* (Server.java 108-126, 317-329).
THEOREM DiesOfOverlapOnly ==
  ASSUME ~Overlapping
  PROVE  Spec => []NobodyDies
<1>1. Init => Orderly
  BY DEF Init, Orderly, NoLook
<1>2. IInv /\ Orderly /\ [Next]_vars => Orderly'
  BY OrderlyInductive
<1>3. Orderly => NobodyDies
  BY DEF Orderly, NobodyDies
<1> QED
  BY <1>1, <1>2, <1>3, AlwaysIInv, PTL DEF Spec

=============================================================================

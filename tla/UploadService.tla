---------------------------- MODULE UploadService ----------------------------
(***************************************************************************)
(* What the file server promises about uploads, with no threads, sockets   *)
(* or chunks: an upload is asked for, reserved or refused against a        *)
(* bounded budget, received as a whole, and only then shown in its owner's *)
(* list.  FileUpload is shown to implement this.                           *)
(***************************************************************************)
EXTENDS Naturals

CONSTANTS
  Uploads,        \* upload attempts, each asked for once
  SizeOf,         \* the file size each one announces
  MaxBufferSize   \* the budget

VARIABLES
  status,   \* the progress of each upload
  used,     \* the budget that is reserved
  shown     \* the uploads that appear in their owner's list

vars == <<status, used, shown>>

Statuses == {"idle", "asked", "refused", "reserved", "received"}

Init ==
  /\ status = [u \in Uploads |-> "idle"]
  /\ used = 0
  /\ shown = {}

Move(u, from, to) ==
  /\ status[u] = from
  /\ status' = [status EXCEPT ![u] = to]

Ask(u) == Move(u, "idle", "asked") /\ UNCHANGED <<used, shown>>

\* A reservation never takes the budget over its limit ...
Reserve(u) ==
  /\ Move(u, "asked", "reserved")
  /\ used + SizeOf[u] <= MaxBufferSize
  /\ used' = used + SizeOf[u]
  /\ UNCHANGED shown

\* ... and is refused only when it would.
Refuse(u) ==
  /\ Move(u, "asked", "refused")
  /\ used + SizeOf[u] > MaxBufferSize
  /\ UNCHANGED <<used, shown>>

Receive(u) == Move(u, "reserved", "received") /\ UNCHANGED <<used, shown>>

\* A received upload is put in its owner's list.
Show(u) ==
  /\ status[u] = "received"
  /\ shown' = shown \cup {u}
  /\ UNCHANGED <<status, used>>

\* Uploads can disappear from the lists again; nothing else may appear.
Hide ==
  /\ shown' \subseteq shown
  /\ UNCHANGED <<status, used>>

Next ==
  \/ \E u \in Uploads :
       Ask(u) \/ Reserve(u) \/ Refuse(u) \/ Receive(u) \/ Show(u)
  \/ Hide

Spec == Init /\ [][Next]_vars
=============================================================================

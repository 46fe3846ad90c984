---------------------------- MODULE MCFileUpload ----------------------------
(* Instances of FileUpload for TLC.  alice uploads a private file u1 and a   *)
(* public one u2, of one chunk each, into the same list at the same time;    *)
(* together they fill the budget.  bob's u3 has two chunks, the second one   *)
(* short; it is refused once one of hers is accepted, or the other way       *)
(* round.                                                                    *)
EXTENDS FileUpload, TLC

CONSTANTS u1, u2, u3, alice, bob

\* bob asks for the public files of alice and for his own.
BobAsks == {<<bob, alice, TRUE>>, <<bob, bob, FALSE>>}
AllAsk == {l \in Students \X Students \X BOOLEAN : l[3] \/ l[1] = l[2]}

Owners2 == (u1 :> alice) @@ (u2 :> alice)
Sizes2 == (u1 :> 2) @@ (u2 :> 1)

Owners3 == (u1 :> alice) @@ (u2 :> alice) @@ (u3 :> bob)
Sizes3 == (u1 :> 2) @@ (u2 :> 2) @@ (u3 :> 3)
=============================================================================

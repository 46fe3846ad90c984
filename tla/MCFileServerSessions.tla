------------------------ MODULE MCFileServerSessions ------------------------
(* Instances of FileServerSessions for TLC.                                *)
EXTENDS FileServerSessions, TLC

Symmetry == Permutations(Connections) \cup Permutations(Students)
              \cup Permutations(Addrs)
=============================================================================

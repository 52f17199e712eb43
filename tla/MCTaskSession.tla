---------------------------- MODULE MCTaskSession ----------------------------
(***************************************************************************)
(* TaskSession for TLC.  Task slots are interchangeable, and so are users: *)
(* the runs without liveness properties may use the symmetry.              *)
(***************************************************************************)
EXTENDS TaskSession, TLC

Symm == Permutations(Tasks) \union Permutations(Users)

=============================================================================

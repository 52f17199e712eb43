---------------------------- MODULE MCPendingTools ----------------------------
(***************************************************************************)
(* PendingTools for TLC.  Jobs are interchangeable.                        *)
(***************************************************************************)
EXTENDS PendingTools, TLC

Symm == Permutations(Jobs)

=============================================================================

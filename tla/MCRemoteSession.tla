--------------------------- MODULE MCRemoteSession ---------------------------
(***************************************************************************)
(* RemoteSession for TLC: which file each operation writes.                *)
(***************************************************************************)
EXTENDS RemoteSession

CONSTANTS f1

OneFile == [c \in Ops |-> f1]

=============================================================================

---------------------------- MODULE ChunkChannel ----------------------------
(***************************************************************************)
(* What the agent loop relies on when it reads a model response through    *)
(* StreamChunkCoordinator: the chunks arrive one by one, in the order the  *)
(* provider produced them; the channel reports a normal end only when      *)
(* nothing is left to read; and once it is closed the provider is read no  *)
(* further.  Chunks are numbered, so a count stands for a prefix.          *)
(***************************************************************************)
EXTENDS Naturals

VARIABLES sent,      \* chunks the provider has produced
          received,  \* chunks the agent loop has been given
          outcome    \* "open", or how the reading ended

vars == <<sent, received, outcome>>

Init == sent = 0 /\ received = 0 /\ outcome = "open"

Produce == /\ outcome = "open"
           /\ sent' = sent + 1
           /\ UNCHANGED <<received, outcome>>

Deliver == /\ outcome = "open"
           /\ received < sent
           /\ received' = received + 1
           /\ UNCHANGED <<sent, outcome>>

End == /\ outcome = "open"
       /\ received = sent
       /\ outcome' = "ended"
       /\ UNCHANGED <<sent, received>>

\* An error of the stream, or the loop giving up (abort, rejected tool).
Break == /\ outcome = "open"
         /\ outcome' \in {"failed", "stopped"}
         /\ UNCHANGED <<sent, received>>

Next == Produce \/ Deliver \/ End \/ Break

Spec == Init /\ [][Next]_vars
=============================================================================

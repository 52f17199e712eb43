----------------------------- MODULE RemoteCalls -----------------------------
(***************************************************************************)
(* What callers rely on when they work through a RemoteEnvironment: what   *)
(* they ask for is done once at most, and only if they asked; the response *)
(* comes when it is done and behind all output of the command; and a       *)
(* request that was given up stays so, whatever is done for it later.      *)
(***************************************************************************)
EXTENDS Naturals

CONSTANTS Requests, Commands

VARIABLES fate,     \* what the caller knows of a request
          work,     \* what has been done for it
          written,  \* how much output of a command there is
          seen      \* how much of it the caller was given

vars == <<fate, work, written, seen>>

Init == /\ fate = [r \in Requests |-> "idle"] /\ work = [r \in Requests |-> "none"]
        /\ written = [c \in Commands |-> 0] /\ seen = [c \in Commands |-> 0]

Issue(r) == /\ fate[r] = "idle"
            /\ \E f \in {"sent", "rejected"} : fate' = [fate EXCEPT ![r] = f]
            /\ UNCHANGED <<work, written, seen>>

Advance(r) == /\ fate[r] # "idle" /\ work[r] # "done"
              /\ \E w \in {"running", "done"} : work' = [work EXCEPT ![r] = w]
              /\ UNCHANGED <<fate, written, seen>>

Write(c) == /\ work[c] = "running"
            /\ written' = [written EXCEPT ![c] = @ + 1]
            /\ UNCHANGED <<fate, work, seen>>

Deliver(c) == /\ fate[c] = "sent" /\ seen[c] < written[c]
              /\ seen' = [seen EXCEPT ![c] = @ + 1]
              /\ UNCHANGED <<fate, work, written>>

Answer(r) == /\ fate[r] = "sent" /\ work[r] = "done"
             /\ r \in Commands => seen[r] = written[r]
             /\ fate' = [fate EXCEPT ![r] = "answered"]
             /\ UNCHANGED <<work, written, seen>>

\* The connection is lost, or the environment disposed of.
GiveUp == /\ fate' = [r \in Requests |-> IF fate[r] = "sent" THEN "rejected" ELSE fate[r]]
          /\ UNCHANGED <<work, written, seen>>

Next == \/ \E r \in Requests : Issue(r) \/ Advance(r) \/ Answer(r)
        \/ \E c \in Commands : Write(c) \/ Deliver(c)
        \/ GiveUp

Spec == Init /\ [][Next]_vars

=============================================================================

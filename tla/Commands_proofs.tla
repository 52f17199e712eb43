---------------------------- MODULE Commands_proofs ----------------------------
(***************************************************************************)
(* Proofs about Commands for any set of commands.                          *)
(*                                                                         *)
(* TeardownKills needs that every process that runs is in the map that     *)
(* disposeAll goes through, or was displaced from it (Held);               *)
(* BusyIsRunning that a process runs in a terminal (Placed); and           *)
(* CancelledWasAtWork that the flag was raised when all commands at work   *)
(* were (FlagCovers): any command that starts lowers it.                   *)
(***************************************************************************)
EXTENDS Commands, TLAPS

Placed == \A c \in Cmds : /\ at[c] \in {"idle", "env", "terminal"} => proc[c] = "none"
                          /\ at[c] \in {"terminal", "running", "continued"} => term[c] \in Cmds
                          /\ at[c] \in {"running", "continued"} => proc[c] # "none"
                          /\ proc[c] # "none" => term[c] \in Cmds

Held == \A c \in Cmds : proc[c] = "running" => c \in processes \union displaced

FlagCovers == flagged => AtWork \subseteq hit

Aborting == abort # "none" => aborts < MaxAborts

IInv == TypeOK /\ Aborting /\ Placed /\ Held /\ FlagCovers /\ BusyIsRunning

-----------------------------------------------------------------------------
LEMMA InitIInv == Init => IInv
<1> SUFFICES ASSUME Init PROVE IInv
  OBVIOUS
<1>1. TypeOK
  <2>1. at \in [Cmds -> Awaits \union Answers]
    BY DEF Init, Awaits
  <2>2. /\ term \in [Cmds -> Cmds \union {None}] /\ id \in [Cmds -> Nat]
        /\ proc \in [Cmds -> {"none", "running", "dying", "closed"}]
        /\ track \in [Cmds -> {"none", "running", "over"}]
    BY DEF Init
  <2>3. aborts \in 0..MaxAborts
    BY CommandsAssumption DEF Init
  <2>4. /\ registry \subseteq Cmds /\ busy \subseteq Cmds /\ processes \subseteq Cmds /\ signal \subseteq Cmds
        /\ heard \subseteq Cmds /\ displaced \subseteq Cmds /\ hit \subseteq Cmds
    BY DEF Init
  <2>5. nextId \in Nat \ {0} /\ current \in Cmds \union {None}
        /\ abort \in {"none", "cancelling", "disposing"}
    BY DEF Init
  <2>6. shared \in BOOLEAN /\ flagged \in BOOLEAN
    BY Zenon DEF Init
  <2> QED BY <2>1, <2>2, <2>3, <2>4, <2>5, <2>6 DEF TypeOK
<1>2. Aborting /\ Placed /\ Held /\ FlagCovers /\ BusyIsRunning
  BY DEF Init, Aborting, Placed, Held, FlagCovers, BusyIsRunning
<1> QED BY <1>1, <1>2 DEF IInv

\* The parts of a cancellation.
LEMMA CancelParts ==
  ASSUME TypeOK, Cancel \/ NoCancel
  PROVE  /\ track' \in [Cmds -> {"none", "running", "over"}]
         /\ proc' \in [Cmds -> {"none", "running", "dying", "closed"}]
         /\ \A c \in Cmds : proc'[c] = proc[c] \/ (proc[c] = "running" /\ proc'[c] = "dying")
         /\ current' \in Cmds \union {None} /\ flagged' \in BOOLEAN /\ hit' \subseteq Cmds
         /\ hit \subseteq hit'
         /\ flagged' => flagged \/ AtWork \subseteq hit'
<1>1. CASE NoCancel
  BY <1>1 DEF NoCancel, TypeOK
<1>2. CASE Cancel
  <2>1. track' \in [Cmds -> {"none", "running", "over"}]
    BY <1>2 DEF Cancel, TypeOK
  <2>2. /\ proc' \in [Cmds -> {"none", "running", "dying", "closed"}]
        /\ \A c \in Cmds : proc'[c] = proc[c] \/ (proc[c] = "running" /\ proc'[c] = "dying")
    BY <1>2 DEF Cancel, Terminate, TypeOK
  <2>3. AtWork \subseteq Cmds
    BY DEF AtWork
  <2>4. current' \in Cmds \union {None} /\ flagged' \in BOOLEAN /\ hit' \subseteq Cmds /\ hit \subseteq hit'
    BY <1>2, <2>3 DEF Cancel, TypeOK
  <2>5. flagged' => flagged \/ AtWork \subseteq hit'
    BY <1>2 DEF Cancel, TypeOK
  <2> QED BY <2>1, <2>2, <2>4, <2>5
<1> QED BY <1>1, <1>2

\* Processes that are only killed, by whatever, keep the invariant.
LEMMA KillingKeeps ==
  ASSUME IInv, TypeOK',
         UNCHANGED <<at, term, busy>>,
         \A c \in Cmds : proc'[c] = proc[c] \/ (proc[c] = "running" /\ proc'[c] = "dying"),
         \A c \in Cmds : proc'[c] = "running" => c \in processes' \union displaced',
         flagged' => AtWork \subseteq hit', Aborting'
  PROVE  IInv'
<1>1. Placed'
  BY DEF IInv, Placed
<1>2. Held'
  BY DEF Held
<1>3. FlagCovers'
  BY DEF FlagCovers, AtWork
<1>4. BusyIsRunning'
  <2> SUFFICES ASSUME NEW t \in busy PROVE \E c \in Alive' : term[c] = t
    BY DEF BusyIsRunning
  <2>1. PICK c \in Alive : term[c] = t
    BY DEF IInv, BusyIsRunning
  <2>2. c \in Alive'
    BY DEF Alive
  <2> QED BY <2>1, <2>2
<1> QED BY <1>1, <1>2, <1>3, <1>4 DEF IInv

LEMMA UserCancelsKeeps == ASSUME IInv, UserCancels PROVE IInv'
<1>1. UNCHANGED <<shared, at, term, registry, id, nextId, busy, processes, signal, heard, abort, aborts, displaced>>
  BY DEF UserCancels, calls, terminals, task
<1>2. TypeOK'
  BY <1>1, CancelParts DEF UserCancels, IInv, TypeOK
<1>3. \A c \in Cmds : proc'[c] = "running" => c \in processes' \union displaced'
  BY <1>1, CancelParts DEF UserCancels, IInv, Held
<1>4. flagged' => AtWork \subseteq hit'
  BY CancelParts DEF UserCancels, IInv, FlagCovers
<1>5. Aborting'
  BY <1>1 DEF IInv, Aborting
<1> QED BY <1>5, <1>1, <1>2, <1>3, <1>4, CancelParts, KillingKeeps DEF UserCancels, IInv

LEMMA CancelAllKeeps == ASSUME IInv, CancelAll PROVE IInv'
<1>1. UNCHANGED <<shared, at, term, registry, id, nextId, busy, processes, aborts, displaced>>
      /\ abort' = "cancelling"
  BY DEF CancelAll, calls, terminals
<1>2. Cancel \/ NoCancel
  BY DEF CancelAll, Fire
<1>3. signal' \subseteq Cmds /\ heard' \subseteq Cmds
  BY CommandsAssumption DEF CancelAll, Fire, AtWork, IInv, TypeOK
<1>4. TypeOK'
  BY <1>1, <1>2, <1>3, CancelParts DEF IInv, TypeOK
<1>5. \A c \in Cmds : proc'[c] = "running" => c \in processes' \union displaced'
  BY <1>1, <1>2, CancelParts DEF IInv, Held
<1>6. flagged' => AtWork \subseteq hit'
  BY <1>2, CancelParts DEF IInv, FlagCovers
<1>7. Aborting'
  BY <1>1 DEF CancelAll, Aborting
<1> QED BY <1>7, <1>1, <1>2, <1>4, <1>5, <1>6, CancelParts, KillingKeeps DEF IInv

LEMMA StopCommandsKeeps == ASSUME IInv, StopCommands PROVE IInv'
<1>1. UNCHANGED <<shared, at, term, registry, id, nextId, busy, processes, signal, heard, aborts, displaced>>
      /\ abort' = "disposing" /\ (Cancel \/ NoCancel)
  BY DEF StopCommands, calls, terminals
<1>2. TypeOK'
  BY <1>1, CancelParts DEF IInv, TypeOK
<1>3. \A c \in Cmds : proc'[c] = "running" => c \in processes' \union displaced'
  BY <1>1, CancelParts DEF IInv, Held
<1>4. flagged' => AtWork \subseteq hit'
  BY <1>1, CancelParts DEF IInv, FlagCovers
<1>5. Aborting'
  BY <1>1 DEF StopCommands, IInv, Aborting
<1> QED BY <1>5, <1>1, <1>2, <1>3, <1>4, CancelParts, KillingKeeps DEF IInv

\* What disposeAll leaves running was displaced.
LEMMA DisposeLeaves ==
  ASSUME IInv, Dispose
  PROVE  /\ \A c \in Cmds : proc'[c] = proc[c] \/ (proc[c] = "running" /\ proc'[c] = "dying")
         /\ shared => \A c \in Cmds : proc'[c] = "running" => c \in displaced
<1>1. CASE shared
  <2>1. Terminate(processes)
    BY <1>1 DEF Dispose
  <2> QED BY <2>1 DEF Terminate, IInv, TypeOK, Held
<1>2. CASE ~shared
  BY <1>2 DEF Dispose
<1> QED BY <1>1, <1>2

LEMMA DisposeKeeps == ASSUME IInv, Dispose PROVE IInv'
<1>1. UNCHANGED <<shared, at, term, id, busy, current, flagged, signal, heard, displaced, hit>>
      /\ abort' = "none" /\ aborts' = aborts + 1
  BY DEF Dispose, calls
<1>2. /\ track' \in [Cmds -> {"none", "running", "over"}]
      /\ proc' \in [Cmds -> {"none", "running", "dying", "closed"}]
      /\ registry' \subseteq Cmds /\ nextId' \in Nat \ {0} /\ processes' \subseteq Cmds
  BY DEF Dispose, Terminate, IInv, TypeOK
<1>3. aborts' \in 0..MaxAborts
  BY <1>1, CommandsAssumption DEF Dispose, IInv, TypeOK, Aborting
<1>4. TypeOK'
  BY <1>1, <1>2, <1>3 DEF IInv, TypeOK
<1>5. \A c \in Cmds : proc'[c] = "running" => c \in processes' \union displaced'
  <2>1. CASE shared
    BY <1>1, <2>1, DisposeLeaves
  <2>2. CASE ~shared
    BY <1>1, <2>2 DEF Dispose, IInv, Held
  <2> QED BY <2>1, <2>2
<1>6. flagged' => AtWork \subseteq hit'
  BY <1>1 DEF IInv, FlagCovers
<1>7. Aborting'
  BY <1>1 DEF Aborting
<1> QED BY <1>7, <1>1, <1>4, <1>5, <1>6, DisposeLeaves, KillingKeeps

-----------------------------------------------------------------------------
\* The steps of one command.

\* Its place moves, and no process does.
LEMMA MovesKeep ==
  ASSUME IInv, NEW c \in Cmds, TypeOK', UNCHANGED <<proc, busy, processes, displaced, flagged, abort, aborts>>,
         \A d \in Cmds \ {c} : at'[d] = at[d] /\ term'[d] = term[d],
         \/ proc[c] = "none" /\ at'[c] \in {"env", "terminal", "aborted"}
            /\ (at'[c] = "terminal" => term'[c] \in Cmds)
         \/ at[c] \in {"running", "continued"} /\ term' = term
            /\ at'[c] \in {"continued", "result", "cancelled", "aborted"},
         \A d \in hit : d \in hit' \/ (d = c /\ at'[c] \notin {"running", "continued"})
  PROVE  IInv'
<1>1. Placed'
  BY DEF IInv, Placed
<1>2. Held' /\ Aborting'
  BY DEF IInv, Held, Aborting
<1>3. FlagCovers'
  BY DEF IInv, FlagCovers, AtWork
<1>4. BusyIsRunning'
  <2> SUFFICES ASSUME NEW t \in busy PROVE \E d \in Alive' : term'[d] = t
    BY DEF BusyIsRunning
  <2>1. PICK d \in Alive : term[d] = t
    BY DEF IInv, BusyIsRunning
  <2>2. d \in Alive' /\ term'[d] = term[d]
    BY DEF Alive
  <2> QED BY <2>1, <2>2
<1> QED BY <1>1, <1>2, <1>3, <1>4 DEF IInv

LEMMA ExecuteKeeps == ASSUME IInv, NEW c \in Cmds, Execute(c) PROVE IInv'
<1>1. UNCHANGED <<shared, term, registry, id, nextId, busy, processes, proc, current, flagged, track, signal, heard,
                 abort, aborts, displaced, hit>>
  BY DEF Execute, terminals, task
<1>2. /\ at' \in [Cmds -> Awaits \union Answers] /\ at'[c] \in {"env", "aborted"}
      /\ \A d \in Cmds \ {c} : at'[d] = at[d]
  BY DEF Execute, IInv, TypeOK, Awaits, Answers
<1>3. TypeOK'
  BY <1>1, <1>2 DEF IInv, TypeOK
<1>4. proc[c] = "none"
  BY DEF Execute, IInv, Placed
<1> QED BY <1>1, <1>2, <1>3, <1>4, MovesKeep

LEMMA GotEnvKeeps == ASSUME IInv, NEW c \in Cmds, GotEnv(c) PROVE IInv'
<1>1. UNCHANGED <<shared, busy, processes, proc, current, flagged, track, signal, heard, abort, aborts, displaced,
                 hit>>
  BY DEF GotEnv, task
<1>2. /\ at' \in [Cmds -> Awaits \union Answers] /\ at'[c] = "terminal"
      /\ \A d \in Cmds \ {c} : at'[d] = at[d]
  BY DEF GotEnv, IInv, TypeOK, Awaits
<1>3. /\ term' \in [Cmds -> Cmds \union {None}] /\ term'[c] \in Cmds
      /\ \A d \in Cmds \ {c} : term'[d] = term[d]
      /\ registry' \subseteq Cmds /\ id' \in [Cmds -> Nat] /\ nextId' \in Nat \ {0}
  BY DEF GotEnv, IInv, TypeOK
<1>4. TypeOK'
  BY <1>1, <1>2, <1>3 DEF IInv, TypeOK
<1>5. proc[c] = "none"
  BY DEF GotEnv, IInv, Placed
<1> QED BY <1>1, <1>2, <1>3, <1>4, <1>5, MovesKeep

LEMMA ContinueKeeps == ASSUME IInv, NEW c \in Cmds, Continue(c) PROVE IInv'
<1>1. UNCHANGED <<shared, term, registry, id, nextId, busy, processes, proc, current, flagged, track, signal, heard,
                 abort, aborts, displaced, hit>>
  BY DEF Continue, terminals, task
<1>2. /\ at' \in [Cmds -> Awaits \union Answers] /\ at[c] = "running" /\ at'[c] = "continued"
      /\ \A d \in Cmds \ {c} : at'[d] = at[d]
  BY DEF Continue, IInv, TypeOK, Awaits
<1>3. TypeOK'
  BY <1>1, <1>2 DEF IInv, TypeOK
<1> QED BY <1>1, <1>2, <1>3, MovesKeep

LEMMA ReplyKeeps == ASSUME IInv, NEW c \in Cmds, Reply(c) PROVE IInv'
<1>1. UNCHANGED <<shared, term, registry, id, nextId, busy, processes, proc, current, flagged, track, abort, aborts,
                 displaced>>
  BY DEF Reply, terminals, task
<1>2. /\ at' \in [Cmds -> Awaits \union Answers] /\ at[c] \in {"running", "continued"}
      /\ at'[c] \in {"result", "cancelled", "aborted"}
      /\ \A d \in Cmds \ {c} : at'[d] = at[d]
  BY DEF Reply, IInv, TypeOK, Answers
<1>3. signal' \subseteq Cmds /\ heard' \subseteq Cmds /\ hit' = hit \ {c}
  BY DEF Reply, IInv, TypeOK
<1>4. TypeOK'
  BY <1>1, <1>2, <1>3 DEF IInv, TypeOK
<1> QED BY <1>1, <1>2, <1>3, <1>4, MovesKeep

LEMMA TrackKeeps == ASSUME IInv, NEW c \in Cmds, Track(c) PROVE IInv'
<1>1. UNCHANGED <<shared, at, term, registry, id, nextId, busy, processes, proc, current, flagged, signal, heard,
                 abort, aborts, displaced, hit>>
  BY DEF Track, calls, terminals, task
<1>2. TypeOK'
  BY <1>1 DEF Track, IInv, TypeOK
<1> QED BY <1>1, <1>2, KillingKeeps DEF IInv, Held, FlagCovers, Aborting

LEMMA HardLimitKeeps == ASSUME IInv, NEW c \in Cmds, HardLimit(c) PROVE IInv'
<1>1. UNCHANGED <<shared, at, term, registry, id, nextId, busy, processes, current, flagged, signal, heard, abort,
                 aborts, displaced, hit>>
  BY DEF HardLimit, calls, terminals, task
<1>2. /\ proc' \in [Cmds -> {"none", "running", "dying", "closed"}]
      /\ \A d \in Cmds : proc'[d] = proc[d] \/ (proc[d] = "running" /\ proc'[d] = "dying")
  BY DEF HardLimit, Terminate, IInv, TypeOK
<1>3. TypeOK'
  BY <1>1, <1>2 DEF HardLimit, IInv, TypeOK
<1> QED BY <1>1, <1>2, <1>3, KillingKeeps DEF IInv, Held, FlagCovers, Aborting

LEMMA RunKeeps == ASSUME IInv, NEW c \in Cmds, Run(c) PROVE IInv'
<1>1. /\ term[c] \in Cmds /\ at[c] = "terminal" /\ proc[c] = "none"
      /\ UNCHANGED <<shared, term, registry, id, nextId, track, signal, heard, abort, aborts, hit>>
  BY DEF Run, IInv, Placed, task
<1>2. at' = [at EXCEPT ![c] = "running"] /\ proc' = [proc EXCEPT ![c] = "running"]
      /\ current' = c /\ flagged' = FALSE /\ busy' = busy \union {term[c]}
      /\ processes' = (processes \ SameId(c)) \union {c}
      /\ displaced' = displaced \union (SameId(c) \intersect Alive)
  BY DEF Run
<1>3. TypeOK'
  <2>1. at' \in [Cmds -> Awaits \union Answers]
    BY <1>2 DEF IInv, TypeOK, Awaits
  <2>2. proc' \in [Cmds -> {"none", "running", "dying", "closed"}]
    BY <1>2 DEF IInv, TypeOK
  <2>3. processes' \subseteq Cmds /\ displaced' \subseteq Cmds /\ busy' \subseteq Cmds
    BY <1>1, <1>2 DEF IInv, TypeOK, SameId, Alive
  <2> QED BY <1>1, <1>2, <2>1, <2>2, <2>3 DEF IInv, TypeOK
<1>4. Placed'
  BY <1>1, <1>2 DEF IInv, TypeOK, Placed
<1>5. Held'
  BY <1>2 DEF IInv, TypeOK, Held, Alive
<1>6. FlagCovers' /\ Aborting'
  BY <1>1, <1>2 DEF IInv, FlagCovers, Aborting
<1>7. BusyIsRunning'
  <2> SUFFICES ASSUME NEW t \in busy' PROVE \E d \in Alive' : term[d] = t
    BY <1>1 DEF BusyIsRunning
  <2>1. c \in Alive' /\ Alive \subseteq Alive'
    BY <1>2 DEF IInv, TypeOK, Alive
  <2>2. CASE t = term[c]
    BY <2>1, <2>2
  <2>3. CASE t \in busy
    BY <2>1, <2>3 DEF IInv, BusyIsRunning
  <2> QED BY <1>2, <2>2, <2>3
<1> QED BY <1>3, <1>4, <1>5, <1>6, <1>7 DEF IInv

\* A process is gone, with the busy flag of its terminal.
LEMMA GoneKeeps ==
  ASSUME IInv, NEW c \in Cmds, TypeOK', c \in Alive,
         proc' = [proc EXCEPT ![c] = "closed"], displaced' = displaced \ {c}, busy' = busy \ {term[c]},
         UNCHANGED <<term, processes, flagged, hit, abort, aborts>>,
         at' = at \/ (at' = [at EXCEPT ![c] = "error"])
  PROVE  IInv'
<1>1. Placed'
  <2>1. \A d \in Cmds \ {c} : at'[d] = at[d] /\ proc'[d] = proc[d]
    BY DEF IInv, TypeOK
  <2>2. at'[c] \in {at[c], "error"} /\ proc'[c] = "closed" /\ proc[c] # "none"
    BY DEF IInv, TypeOK, Alive
  <2> QED BY <2>1, <2>2 DEF IInv, Placed
<1>2. Held' /\ Aborting'
  BY DEF IInv, TypeOK, Held, Aborting
<1>3. FlagCovers'
  BY DEF IInv, TypeOK, FlagCovers, AtWork
<1>4. BusyIsRunning'
  <2> SUFFICES ASSUME NEW t \in busy, t # term[c] PROVE \E d \in Alive' : term[d] = t
    BY DEF BusyIsRunning
  <2>1. PICK d \in Alive : term[d] = t
    BY DEF IInv, BusyIsRunning
  <2>2. d # c /\ d \in Alive'
    BY <2>1 DEF IInv, TypeOK, Alive
  <2> QED BY <2>1, <2>2
<1> QED BY <1>1, <1>2, <1>3, <1>4 DEF IInv

LEMMA EndsKeeps == ASSUME IInv, NEW c \in Cmds, Ends(c) PROVE IInv'
<1>1. /\ c \in Alive /\ proc' = [proc EXCEPT ![c] = "closed"] /\ displaced' = displaced \ {c}
      /\ busy' = busy \ {term[c]} /\ current' = None
      /\ UNCHANGED <<shared, at, term, registry, id, nextId, processes, flagged, signal, heard, hit, abort, aborts>>
  BY DEF Ends, calls, task
<1>2. track' \in [Cmds -> {"none", "running", "over"}]
  BY DEF Ends, IInv, TypeOK
<1>3. TypeOK'
  BY <1>1, <1>2 DEF IInv, TypeOK
<1> QED BY <1>1, <1>3, GoneKeeps

LEMMA SpawnFailsKeeps == ASSUME IInv, NEW c \in Cmds, SpawnFails(c) PROVE IInv'
<1>1. /\ proc' = [proc EXCEPT ![c] = "closed"] /\ displaced' = displaced \ {c}
      /\ busy' = busy \ {term[c]} /\ current' = None /\ at' = [at EXCEPT ![c] = "error"]
      /\ UNCHANGED <<shared, term, registry, id, nextId, processes, flagged, track, signal, heard, hit, abort, aborts>>
  BY DEF SpawnFails, task
<1>2. c \in Alive
  BY DEF SpawnFails, Alive
<1>3. TypeOK'
  BY <1>1 DEF IInv, TypeOK, Answers
<1> QED BY <1>1, <1>2, <1>3, GoneKeeps

-----------------------------------------------------------------------------
LEMMA StepKeepsIInv == ASSUME IInv, [Next]_vars PROVE IInv'
<1>1. CASE UNCHANGED vars
  <2>1. UNCHANGED <<shared, at, term, registry, id, nextId, busy, processes, proc, current, flagged, track, signal,
                   heard, abort, aborts, displaced, hit>>
    BY <1>1 DEF vars, calls, terminals, task
  <2>2. TypeOK'
    BY <2>1 DEF IInv, TypeOK
  <2> QED BY <2>1, <2>2, KillingKeeps DEF IInv, Held, FlagCovers, Aborting
<1>2. CASE Next
  BY <1>2, ExecuteKeeps, GotEnvKeeps, RunKeeps, EndsKeeps, SpawnFailsKeeps, TrackKeeps, ContinueKeeps, ReplyKeeps,
     HardLimitKeeps, UserCancelsKeeps, CancelAllKeeps, StopCommandsKeeps, DisposeKeeps DEF Next
<1> QED BY <1>1, <1>2

LEMMA IInvHolds == Spec => []IInv
BY InitIInv, StepKeepsIInv, PTL DEF Spec

\* The executor's and the manager's state is well typed for any set of commands: every
\* command with a process has a terminal, and an abort runs only while one is allowed.
THEOREM TypeCorrect == Spec => []TypeOK
<1>1. IInv => TypeOK
  BY DEF IInv
<1> QED BY <1>1, IInvHolds, PTL

\* Whatever commands end, fail, are cancelled or torn down together, no terminal stays
\* marked busy without a process.
THEOREM BusyTerminalsRun == Spec => []BusyIsRunning
<1>1. IInv => BusyIsRunning
  BY DEF IInv
<1> QED BY <1>1, IInvHolds, PTL

\* A command answers that the user cancelled it only if it was at work when a current
\* process was cancelled.
THEOREM CancelledWereAtWork == Spec => CancelledWasAtWork
<1>1. ASSUME IInv, [Next]_vars
      PROVE  \A c \in Cmds : at[c] # "cancelled" /\ at'[c] = "cancelled" => c \in hit
  <2> SUFFICES ASSUME NEW c \in Cmds, at[c] # "cancelled", at'[c] = "cancelled" PROVE c \in hit
    OBVIOUS
  <2>1. at \in [Cmds -> Awaits \union Answers]
    BY <1>1 DEF IInv, TypeOK
  <2>2. PICK d \in Cmds : Execute(d) \/ GotEnv(d) \/ Run(d) \/ SpawnFails(d) \/ Continue(d) \/ Reply(d)
    <3>1. at' # at
      OBVIOUS
    <3> QED BY <1>1, <3>1 DEF Next, vars, Ends, Track, HardLimit, UserCancels, CancelAll, StopCommands, Dispose,
             calls
  <2>3. Reply(c)
    BY <2>1, <2>2 DEF Execute, GotEnv, Run, SpawnFails, Continue, Reply
  <2>4. flagged /\ c \in AtWork
    BY <2>1, <2>3 DEF Reply, AtWork
  <2> QED BY <1>1, <2>4 DEF IInv, FlagCovers
<1> QED BY <1>1, IInvHolds, PTL DEF Spec, CancelledWasAtWork

\* For any number of commands, terminals and teardowns: what a teardown leaves running in
\* the task's own manager was displaced from its map.
THEOREM TeardownLeavesOnlyDisplaced == Spec => TeardownKills
<1>1. ASSUME IInv, [Next]_vars
      PROVE  aborts' # aborts /\ shared => \A c \in Cmds : proc'[c] = "running" => c \in displaced
  <2> SUFFICES ASSUME aborts' # aborts, shared PROVE \A c \in Cmds : proc'[c] = "running" => c \in displaced
    OBVIOUS
  <2>1. Dispose
    BY <1>1 DEF Next, vars, Execute, GotEnv, Run, Ends, SpawnFails, Track, Continue, Reply, HardLimit, UserCancels,
             CancelAll, StopCommands, task
  <2> QED BY <1>1, <2>1, DisposeLeaves
<1> QED BY <1>1, IInvHolds, PTL DEF Spec, TeardownKills
================================================================================

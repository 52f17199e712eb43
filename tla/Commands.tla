------------------------------- MODULE Commands --------------------------------
(***************************************************************************)
(* The commands of one task in standalone terminals: which terminal each   *)
(* gets, which process the cancel button and an abort signal stop, which   *)
(* commands are tracked in the background, and what the teardown of the    *)
(* task leaves running.                                                    *)
(*                                                                         *)
(* Sources: src/integrations/terminal/CommandExecutor.ts and               *)
(* standalone/StandaloneTerminalManager.ts, with the calls of abortTask in *)
(* core/task/index.ts and LifecycleManager.ts.  What orchestrates one      *)
(* command is in CommandOutput; here it returns when the process ends, is  *)
(* tracked or is continued by the user.  A terminal is named after the     *)
(* command it was created for.  All commands have the task's directory, so *)
(* a free terminal always matches.  Text and messages are left out.        *)
(***************************************************************************)
EXTENDS Naturals

CONSTANTS Cmds,         \* calls of execute with a standalone terminal
          Signalled,    \* those that were given an abort signal
          Interactive,  \* those whose output asks the user
          MaxAborts,    \* bound on calls of abortTask
          None

ASSUME CommandsAssumption == /\ Signalled \subseteq Cmds /\ Interactive \subseteq Cmds
                             /\ MaxAborts \in Nat /\ None \notin Cmds

VARIABLES shared,       \* the manager is the task's own terminalManager (backgroundExec mode)
          at,           \* the await of execute at which the command stands, or what it answered
          term,         \* its terminal
          registry,     \* the terminals of the registry
          id,           \* id of each terminal
          nextId,
          busy,         \* terminals whose busy flag is set
          processes,    \* the processes of the map by terminal id
          proc,         \* the child process of each command
          current,      \* currentProcess
          flagged,      \* wasCancelledExternally
          track,        \* its BackgroundCommand, "over" when completed, in error, timed out or
                        \* forgotten; the ten-minute timeout is armed while it is "running"
          signal,       \* abort signals that have fired
          heard,        \* those whose listener has set abortError
          abort,        \* where abortTask is
          aborts,       \* how often it has come to its end
          displaced,    \* history variable: running, but processes was given another for their id
          hit           \* history variable: at work at a cancellation that had a current process

terminals == <<term, registry, id, nextId, busy, processes>>
calls == <<shared, at>>
task == <<abort, aborts>>
vars == <<calls, terminals, proc, current, flagged, track, signal, heard, task, displaced, hit>>

Awaits == {"idle", "env", "terminal", "running", "continued"}
Answers == {"result", "cancelled", "aborted", "error"}
AtWork == {c \in Cmds : at[c] \in {"running", "continued"}}
Alive == {c \in Cmds : proc[c] \in {"running", "dying"}}

TypeOK == /\ shared \in BOOLEAN /\ flagged \in BOOLEAN
          /\ at \in [Cmds -> Awaits \union Answers]
          /\ term \in [Cmds -> Cmds \union {None}]
          /\ registry \subseteq Cmds /\ busy \subseteq Cmds
          /\ id \in [Cmds -> Nat] /\ nextId \in Nat \ {0}
          /\ processes \subseteq Cmds
          /\ proc \in [Cmds -> {"none", "running", "dying", "closed"}]
          /\ current \in Cmds \union {None}
          /\ track \in [Cmds -> {"none", "running", "over"}]
          /\ signal \subseteq Cmds /\ heard \subseteq Cmds
          /\ abort \in {"none", "cancelling", "disposing"} /\ aborts \in 0..MaxAborts
          /\ displaced \subseteq Cmds /\ hit \subseteq Cmds

Init == /\ shared \in BOOLEAN
        /\ at = [c \in Cmds |-> "idle"]
        /\ term = [c \in Cmds |-> None] /\ registry = {} /\ busy = {}
        /\ id = [c \in Cmds |-> 0] /\ nextId = 1
        /\ processes = {} /\ proc = [c \in Cmds |-> "none"]
        /\ current = None /\ flagged = FALSE
        /\ track = [c \in Cmds |-> "none"]
        /\ signal = {} /\ heard = {}
        /\ abort = "none" /\ aborts = 0 /\ displaced = {} /\ hit = {}

-----------------------------------------------------------------------------
\* terminate: a process that has ended is left alone.
Terminate(cs) == proc' = [c \in Cmds |-> IF c \in cs /\ proc[c] = "running" THEN "dying" ELSE proc[c]]

Tracked == {c \in Cmds : track[c] = "running"}

\* cancelBackgroundCommand: what is tracked, and the current process.
Cancel ==
  /\ track' = [c \in Cmds |-> IF c \in Tracked THEN "over" ELSE track[c]]
  /\ Terminate(Tracked \union {current})
  /\ current' = None
  /\ flagged' = (flagged \/ current # None)
  /\ hit' = IF current # None THEN hit \union AtWork ELSE hit

NoCancel == UNCHANGED <<track, proc, current, flagged, hit>>

-----------------------------------------------------------------------------
\* execute: the signal is tested once, before the environment is fetched.  The handlers
\* that are on their way to it do not test whether the task is aborted.
Execute(c) ==
  /\ at[c] = "idle"
  /\ IF c \in signal
       THEN at' = [at EXCEPT ![c] = "aborted"]
       ELSE at' = [at EXCEPT ![c] = "env"]
  /\ UNCHANGED <<shared, terminals, proc, current, flagged, track, signal, heard, task, displaced, hit>>

\* getOrCreateTerminal: a terminal that is free now, or a new one.
GotEnv(c) ==
  /\ at[c] = "env" /\ at' = [at EXCEPT ![c] = "terminal"]
  /\ \/ /\ \E t \in registry \ busy : term' = [term EXCEPT ![c] = t]
        /\ UNCHANGED <<registry, id, nextId>>
     \/ /\ registry \subseteq busy
        /\ term' = [term EXCEPT ![c] = c]
        /\ registry' = registry \union {c}
        /\ id' = [id EXCEPT ![c] = nextId] /\ nextId' = nextId + 1
  /\ UNCHANGED <<shared, busy, processes, proc, current, flagged, track, signal, heard, task, displaced, hit>>

\* The process that the map has for the id of its terminal.
SameId(c) == {d \in processes : id[term[d]] = id[term[c]]}

\* Mutant: the flag of an earlier cancellation stays.
RunFlagged(c) ==
  /\ at[c] = "terminal" /\ at' = [at EXCEPT ![c] = "running"]
  /\ busy' = busy \union {term[c]}
  /\ processes' = (processes \ SameId(c)) \union {c}
  /\ displaced' = displaced \union (SameId(c) \intersect Alive)
  /\ proc' = [proc EXCEPT ![c] = "running"]
  /\ current' = c
  /\ UNCHANGED <<shared, term, registry, id, nextId, flagged, track, signal, heard, task, hit>>

\* runCommand, and what execute sets up: the terminal may have been taken since, and a
\* signal that has fired since the test is not heard.
Run(c) ==
  /\ at[c] = "terminal" /\ at' = [at EXCEPT ![c] = "running"]
  /\ busy' = busy \union {term[c]}
  /\ processes' = (processes \ SameId(c)) \union {c}
  /\ displaced' = displaced \union (SameId(c) \intersect Alive)
  /\ proc' = [proc EXCEPT ![c] = "running"]
  /\ current' = c /\ flagged' = FALSE
  /\ UNCHANGED <<shared, term, registry, id, nextId, track, signal, heard, task, hit>>

\* The process ends: its terminal is free, and no process is current, whichever was.
Ends(c) ==
  /\ c \in Alive
  /\ proc' = [proc EXCEPT ![c] = "closed"] /\ displaced' = displaced \ {c}
  /\ busy' = busy \ {term[c]} /\ current' = None
  /\ track' = IF c \in Tracked THEN [track EXCEPT ![c] = "over"] ELSE track
  /\ UNCHANGED <<calls, term, registry, id, nextId, processes, flagged, signal, heard, task, hit>>

\* The child could not be spawned: "error", and execute throws.
SpawnFails(c) ==
  /\ at[c] = "running" /\ proc[c] = "running" /\ track[c] = "none"
  /\ proc' = [proc EXCEPT ![c] = "closed"] /\ displaced' = displaced \ {c}
  /\ busy' = busy \ {term[c]} /\ current' = None
  /\ at' = [at EXCEPT ![c] = "error"]
  /\ UNCHANGED <<shared, term, registry, id, nextId, processes, flagged, track, signal, heard, task, hit>>

\* trackBackgroundCommand, at the time limit or when the user proceeds; a pending ask may
\* be answered after the process has ended.
Track(c) ==
  /\ track[c] = "none"
  /\ \/ at[c] = "running" /\ c \in Alive
     \/ c \in Interactive /\ at[c] \in {"running", "continued", "result", "cancelled"}
  /\ track' = [track EXCEPT ![c] = "running"]
  /\ UNCHANGED <<calls, terminals, proc, current, flagged, signal, heard, task, displaced, hit>>

\* A message in answer to the output, or its cancel button: the process goes on.
Continue(c) ==
  /\ c \in Interactive /\ at[c] = "running" /\ at' = [at EXCEPT ![c] = "continued"]
  /\ UNCHANGED <<shared, terminals, proc, current, flagged, track, signal, heard, task, displaced, hit>>

\* execute returns.
Reply(c) ==
  /\ at[c] = "continued" \/ (at[c] = "running" /\ (proc[c] = "closed" \/ track[c] # "none"))
  /\ at' = [at EXCEPT ![c] = IF c \in heard THEN "aborted"
                             ELSE IF flagged THEN "cancelled" ELSE "result"]
  /\ signal' = signal \ {c} /\ heard' = heard \ {c} /\ hit' = hit \ {c}
  /\ UNCHANGED <<shared, terminals, proc, current, flagged, track, task, displaced>>

\* Mutant: the process is left to itself.
HardLimitMarks(c) ==
  /\ c \in Tracked
  /\ track' = [track EXCEPT ![c] = "over"]
  /\ UNCHANGED <<calls, terminals, proc, current, flagged, signal, heard, task, displaced, hit>>

\* Ten minutes after it was tracked.
HardLimit(c) ==
  /\ c \in Tracked
  /\ track' = [track EXCEPT ![c] = "over"]
  /\ Terminate({c})
  /\ UNCHANGED <<calls, terminals, current, flagged, signal, heard, task, displaced, hit>>

-----------------------------------------------------------------------------
\* The cancel button, and a subagent that is aborted.
UserCancels ==
  /\ Cancel
  /\ UNCHANGED <<calls, terminals, signal, heard, task, displaced>>

\* Signals fire: each listener remembers it and cancels as the button does.
Fire(cs) == /\ signal' = signal \union cs
            /\ heard' = heard \union (cs \intersect AtWork)
            /\ IF cs \intersect AtWork # {} THEN Cancel ELSE NoCancel

\* abortTask: cancelAll fires the signals of registered commands.
CancelAll ==
  /\ abort = "none" /\ aborts < MaxAborts /\ abort' = "cancelling"
  /\ \E waiting \in SUBSET {c \in Signalled : at[c] = "idle"} :
       Fire((waiting \union {c \in Signalled : at[c] \in Awaits \ {"idle"}}) \ signal)
  /\ UNCHANGED <<calls, terminals, aborts, displaced>>

\* Then the button's function runs, if anything is tracked.
StopCommands ==
  /\ abort = "cancelling" /\ abort' = "disposing"
  /\ IF Tracked # {} THEN Cancel ELSE NoCancel
  /\ UNCHANGED <<calls, terminals, signal, heard, aborts, displaced>>

\* Mutant: disposeAll forgets to terminate.
DisposeTerminals ==
  /\ abort = "disposing" /\ abort' = "none" /\ aborts' = aborts + 1
  /\ IF shared
       THEN /\ track' = [c \in Cmds |-> IF c \in Tracked THEN "over" ELSE track[c]]
            /\ processes' = {} /\ registry' = {} /\ nextId' = 1
            /\ UNCHANGED proc
       ELSE UNCHANGED <<track, proc, processes, registry, nextId>>
  /\ UNCHANGED <<calls, term, id, busy, current, flagged, signal, heard, displaced, hit>>

\* disposeAll of the task's terminalManager.  In VS Code mode that is another manager.
Dispose ==
  /\ abort = "disposing" /\ abort' = "none" /\ aborts' = aborts + 1
  /\ IF shared
       THEN /\ track' = [c \in Cmds |-> IF c \in Tracked THEN "over" ELSE track[c]]
            /\ Terminate(processes)
            /\ processes' = {} /\ registry' = {} /\ nextId' = 1
       ELSE UNCHANGED <<track, proc, processes, registry, nextId>>
  /\ UNCHANGED <<calls, term, id, busy, current, flagged, signal, heard, displaced, hit>>

-----------------------------------------------------------------------------
Next == \/ \E c \in Cmds : \/ Execute(c) \/ GotEnv(c) \/ Run(c) \/ Ends(c) \/ SpawnFails(c)
                           \/ Track(c) \/ Continue(c) \/ Reply(c) \/ HardLimit(c)
        \/ UserCancels \/ CancelAll \/ StopCommands \/ Dispose

Spec == Init /\ [][Next]_vars

\* Timers fire, and a process that is killed ends (SIGKILL follows after two seconds).
FairSpec == Spec /\ \A c \in Cmds : /\ WF_vars(HardLimit(c))
                                    /\ WF_vars(proc[c] = "dying" /\ Ends(c))
                                    /\ WF_vars(Reply(c))

-----------------------------------------------------------------------------
\* A terminal is marked busy only while a command runs in it: no end of a command,
\* failed spawn, cancellation or teardown leaves one that nobody can use.
BusyIsRunning == \A t \in busy : \E c \in Alive : term[c] = t

\* "Command was cancelled by the user" is never said of a command that started after the
\* last cancellation: the flag is one for all commands, and stays up when a cancelled
\* command has replied.
CancelledWasAtWork ==
  [][\A c \in Cmds : at[c] # "cancelled" /\ at'[c] = "cancelled" => c \in hit]_vars

\* When the task is torn down no command of its manager goes on running, but for one
\* whose terminal was given away before its process was noted (two calls of execute may
\* be given the same free terminal, and ids are used again after a teardown).
TeardownKills ==
  [][aborts' # aborts /\ shared => \A c \in Cmds : proc'[c] = "running" => c \in displaced]_vars

\* Left to itself: displaced from the map of processes and tracked when a teardown had just
\* cancelled what was tracked; disposeAll disarms its limit and kills what the map holds.
Stranded == {c \in displaced : track[c] = "over" /\ proc[c] = "running"}

\* A command in the background ends, by itself, by a cancellation or by the ten-minute
\* limit, displaced or not, unless a teardown strands it (which happens: NoZombies).
\* StandaloneTerminalManager.ts, trackBackgroundCommand and disposeAll.
TrackedEnds ==
  \A c \in Cmds : (track[c] = "running") ~> (proc[c] = "closed" \/ c \in Stranded)

\* StandaloneTerminalManager.ts, at its head and on trackBackgroundCommand: "10-minute hard
\* timeout to prevent zombie processes".  Violated by a stranded command (MCCommandsZombie).
NoZombies == \A c \in Cmds : (track[c] = "running") ~> (proc[c] = "closed")

\* core/task/index.ts: "cancel any background async tools so they cannot outlive the task.
\* AbortController.abort() is propagated to their underlying I/O."
JobsDieWithTask == [][aborts' # aborts => \A c \in heard : proc'[c] # "running"]_vars

=============================================================================

----------------------------- MODULE PendingTools -----------------------------
(***************************************************************************)
(* Tools that go on in the background of a task: the registry of pending   *)
(* jobs, the notifier that announces their end, the handlers that start    *)
(* them and race them with a 500 ms timer, get_tool_result, and the        *)
(* teardown of the task.                                                   *)
(*                                                                         *)
(* Sources: src/core/task/PendingToolRegistry.ts, AsyncToolNotifier.ts,    *)
(* the handlers of execute_command, search_files, list_files and           *)
(* get_tool_result, Task.abortTask, and what TaskMessenger.say does to a   *)
(* pending ask.  The agent runs one tool call at a time; a call may start  *)
(* several jobs (the commands of execute_command).  Registry operations    *)
(* are synchronous and call their listeners, so each is one step.          *)
(***************************************************************************)
EXTENDS Naturals

CONSTANTS Jobs,   \* registry entries a task creates
          NoJob

ASSUME NoJobAssumption == NoJob \notin Jobs

VARIABLES status,     \* entry.status; "none" before register, "pruned" once deleted
          signal,     \* entry.abortController.signal.aborted
          io,         \* the promise of the command, search or listing
          background, \* the handler has left the job to the background
          listener,   \* the notifier listens for the job
          notices,    \* calls of say for the end of the job
          agent,      \* the agent's tool call and the job it handles
          superseded, \* a message has come after the agent's pending ask
          teardown    \* how far abortTask is

vars == <<status, signal, io, background, listener, notices, agent, superseded, teardown>>

Terminal == {"completed", "failed", "cancelled"}
Ended == {"ok", "error", "aborted"}
Busy == {"announcing", "racing", "approving", "waiting"}

TypeOK == /\ status \in [Jobs -> {"none", "running", "pruned"} \union Terminal]
          /\ signal \in [Jobs -> BOOLEAN]
          /\ io \in [Jobs -> {"none", "running"} \union Ended]
          /\ background \in [Jobs -> BOOLEAN]
          /\ listener \in [Jobs -> BOOLEAN]
          /\ notices \in [Jobs -> 0..1]
          /\ agent \in [at : {"idle", "tool"}, job : {NoJob}] \union [at : Busy, job : Jobs]
          /\ superseded \in BOOLEAN
          /\ teardown \in {"no", "cancelled", "aborted"}

Init == /\ status = [j \in Jobs |-> "none"]
        /\ signal = [j \in Jobs |-> FALSE]
        /\ io = [j \in Jobs |-> "none"]
        /\ background = [j \in Jobs |-> FALSE]
        /\ listener = [j \in Jobs |-> FALSE]
        /\ notices = [j \in Jobs |-> 0]
        /\ agent = [at |-> "idle", job |-> NoJob]
        /\ superseded = FALSE
        /\ teardown = "no"

At(stage, j) == agent = [at |-> stage, job |-> j]
Goto(stage, j) == agent' = [at |-> stage, job |-> j]
InTool == At("tool", NoJob)

-----------------------------------------------------------------------------
\* The registry.

\* complete, fail and cancel do nothing for an entry that is not running.
Running(K) == {j \in K : status[j] = "running"}

\* The "updated" event.  The notifier takes its listener off and says the end of the
\* job.  say is refused once the task is aborted; otherwise it is the newest message,
\* and an ask that is still pending takes itself for superseded.
Emit(K) ==
  LET told == {j \in K : listener[j]} IN
    /\ listener' = [j \in Jobs |-> listener[j] /\ j \notin told]
    /\ notices' = [j \in Jobs |-> IF j \in told THEN notices[j] + 1 ELSE notices[j]]
    /\ superseded' = /\ agent.at = "approving" /\ agent'.at = "approving"
                     /\ superseded \/ (told # {} /\ teardown # "aborted")

\* complete, fail (s is their status) and cancel, for the jobs of K.
Settle(K, s) ==
  /\ status' = [j \in Jobs |-> IF j \in Running(K) THEN s ELSE status[j]]
  /\ Emit(Running(K))

\* A mutated event that get_tool_result does not hear.
WakeNobody(K) == UNCHANGED agent

\* A get_tool_result that waits for one of them resolves in the same event.
Wake(K) == IF agent.at = "waiting" /\ agent.job \in Running(K) THEN Goto("tool", NoJob)
                                                               ELSE UNCHANGED agent

Result(j) == IF io[j] = "ok" THEN "completed" ELSE "failed"

-----------------------------------------------------------------------------
\* The agent's tool calls.

\* handleCompleteBlock tests abort.  Before a job of the same call only a PreToolUse hook
\* does, and awaits follow it: that test is left out.
BeginTool ==
  /\ At("idle", NoJob) /\ teardown # "aborted"
  /\ Goto("tool", NoJob)
  /\ UNCHANGED <<status, signal, io, background, listener, notices, superseded, teardown>>

EndTool ==
  /\ InTool
  /\ Goto("idle", NoJob)
  /\ UNCHANGED <<status, signal, io, background, listener, notices, superseded, teardown>>

\* register, then the notifier awaits its "running" message.
Register(j) ==
  /\ InTool /\ status[j] = "none"
  /\ status' = [status EXCEPT ![j] = "running"]
  /\ Goto("announcing", j)
  /\ UNCHANGED <<signal, io, background, listener, notices, superseded, teardown>>

\* A mutated notifier without its look at the entry after the await.
ListenOnly(j) ==
  /\ listener' = [listener EXCEPT ![j] = TRUE]
  /\ UNCHANGED notices

\* The notifier listens; a job that ended during the await is announced at once.
Listen(j) ==
  IF status[j] = "running"
    THEN listener' = [listener EXCEPT ![j] = TRUE] /\ UNCHANGED notices
    ELSE notices' = [notices EXCEPT ![j] = @ + 1] /\ UNCHANGED listener

Launch(j) ==
  /\ At("announcing", j)
  /\ Listen(j)
  /\ io' = [io EXCEPT ![j] = "running"]
  /\ Goto("racing", j)
  /\ UNCHANGED <<status, signal, background, superseded, teardown>>

\* The command, search or listing ends; it may heed the signal or not.
IOEnds(j, outcome) ==
  /\ io[j] = "running"
  /\ outcome = "aborted" => signal[j]
  /\ io' = [io EXCEPT ![j] = outcome]
  /\ UNCHANGED <<status, signal, background, listener, notices, agent, superseded, teardown>>

\* A search or a listing asks for its approval when it has run, or while it runs.
NextStage(j) == Goto("tool", NoJob) \/ Goto("approving", j)

\* It ended before the timer: the handler settles the entry.
FastPath(j) ==
  /\ At("racing", j) /\ io[j] \in Ended
  /\ NextStage(j)
  /\ Settle({j}, Result(j))
  /\ UNCHANGED <<signal, io, background, teardown>>

\* The timer fires first: the promise keeps running.
GoBackground(j) ==
  /\ At("racing", j) /\ io[j] = "running"
  /\ background' = [background EXCEPT ![j] = TRUE]
  /\ NextStage(j)
  /\ UNCHANGED <<status, signal, io, listener, notices, superseded, teardown>>

\* A mutated settlement that drops errors.
SettleSuccess(j) ==
  /\ background[j] /\ io[j] = "ok"
  /\ background' = [background EXCEPT ![j] = FALSE]
  /\ Wake({j})
  /\ Settle({j}, "completed")
  /\ UNCHANGED <<signal, io, teardown>>

\* The promise of a background job settles its entry; an AbortError is ignored, the
\* entry being cancelled already.
BackgroundSettles(j) ==
  /\ background[j] /\ io[j] \in Ended
  /\ background' = [background EXCEPT ![j] = FALSE]
  /\ IF io[j] = "aborted"
       THEN UNCHANGED <<status, listener, notices, agent, superseded>>
       ELSE Wake({j}) /\ Settle({j}, Result(j))
  /\ UNCHANGED <<signal, io, teardown>>

\* registry.cancel: abort the signal, set the status, emit.
Cancel(K) ==
  /\ signal' = [j \in Jobs |-> signal[j] \/ j \in Running(K)]
  /\ Settle(K, "cancelled")

\* The answer to the approval.  Denied, or vetoed by the PreToolUse hook, the job is
\* cancelled.
Answered(j, approved) ==
  /\ At("approving", j) /\ ~superseded
  /\ Goto("tool", NoJob)
  /\ IF approved THEN UNCHANGED <<status, signal, listener, notices, superseded>>
                 ELSE Cancel({j})
  /\ UNCHANGED <<io, background, teardown>>

\* "Current ask promise was ignored": the ask throws and the tool call fails.
AskIgnored(j) ==
  /\ At("approving", j) /\ superseded
  /\ Goto("idle", NoJob)
  /\ superseded' = FALSE
  /\ UNCHANGED <<status, signal, io, background, listener, notices, teardown>>

-----------------------------------------------------------------------------
\* get_tool_result.

\* prune keeps the running entries.
Prunable == {j \in Jobs : status[j] \in Terminal}

\* The entry is looked up, then old entries are dropped; a terminal entry is answered at
\* once, a running one is waited for unless wait is false.
GetResult(j, old, wait) ==
  /\ InTool /\ status[j] \notin {"none", "pruned"}
  /\ old \subseteq Prunable
  /\ status' = [k \in Jobs |-> IF k \in old THEN "pruned" ELSE status[k]]
  /\ IF status[j] = "running" /\ wait THEN Goto("waiting", j) ELSE UNCHANGED agent
  /\ UNCHANGED <<signal, io, background, listener, notices, superseded, teardown>>

WaitTimeout(j) ==
  /\ At("waiting", j)
  /\ Goto("tool", NoJob)
  /\ UNCHANGED <<status, signal, io, background, listener, notices, superseded, teardown>>

-----------------------------------------------------------------------------
\* Task.abortTask.

\* First every running job is cancelled, in one step.
CancelAll ==
  /\ teardown = "no"
  /\ teardown' = "cancelled"
  /\ Wake(Jobs) /\ Cancel(Jobs)
  /\ UNCHANGED <<io, background>>

\* LifecycleManager.abortTask sets the flag, after an await.
SetAbort ==
  /\ teardown = "cancelled"
  /\ teardown' = "aborted"
  /\ UNCHANGED <<status, signal, io, background, listener, notices, agent, superseded>>

\* Its TaskCancel hook asks resume_task, which supersedes a pending ask.
AskResume ==
  /\ teardown = "aborted" /\ agent.at = "approving"
  /\ superseded' = TRUE
  /\ UNCHANGED <<status, signal, io, background, listener, notices, agent, teardown>>

-----------------------------------------------------------------------------
Handle(j) == Launch(j) \/ FastPath(j) \/ GoBackground(j)

Next == \/ BeginTool \/ EndTool \/ CancelAll \/ SetAbort \/ AskResume
        \/ \E j \in Jobs :
             \/ Register(j) \/ Handle(j) \/ BackgroundSettles(j) \/ AskIgnored(j) \/ WaitTimeout(j)
             \/ \E outcome \in Ended : IOEnds(j, outcome)
             \/ \E approved \in BOOLEAN : Answered(j, approved)
             \/ \E old \in SUBSET Prunable, wait \in BOOLEAN : GetResult(j, old, wait)

Spec == Init /\ [][Next]_vars

\* Promises settle, and the handlers and callbacks that wait for them or for a timer run.
Fairness == \A j \in Jobs : /\ WF_vars(Handle(j))
                            /\ WF_vars(\E outcome \in Ended : IOEnds(j, outcome))
                            /\ WF_vars(BackgroundSettles(j))

FairSpec == Spec /\ Fairness

-----------------------------------------------------------------------------
\* The comments of complete, fail and cancel: an entry becomes running, then reaches one
\* terminal status, and only then may prune drop it.  A late result of a cancelled job,
\* or a prune beside a running one, changes nothing.
SettlesOnce ==
  [][\A j \in Jobs : status'[j] # status[j] =>
       \/ status[j] = "none" /\ status'[j] = "running"
       \/ status[j] = "running" /\ status'[j] \in Terminal
       \/ status[j] \in Terminal /\ status'[j] = "pruned"]_vars

\* The notifier announces the end of every job it was given exactly once, also of one
\* that ends while its "running" message is being awaited.
AnnouncedOnce ==
  \A j \in Jobs : io[j] # "none" => notices[j] = (IF status[j] = "running" THEN 0 ELSE 1)

\* get_tool_result waits for a running job only: whatever settles, cancels or prunes the
\* job tells it (GetToolResultToolHandler.ts and the registry's events).
WaiterIsTold == \A j \in Jobs : At("waiting", j) => status[j] = "running"

\* Task.abortTask's comment: background tools "cannot outlive the task".
JobsDieWithTask == teardown = "aborted" => \A j \in Jobs : status[j] # "running"

\* The ask marks "that Isaac is waiting for user input": only an answer, or the end of the
\* task, ends the wait for an approval.
ApprovalWaitsForUser ==
  [][\A j \in Jobs : AskIgnored(j) => teardown # "no"]_vars

\* Every job that starts ends in the registry, whatever its promise does.
EveryJobSettles == \A j \in Jobs : status[j] = "running" ~> status[j] # "running"

=============================================================================

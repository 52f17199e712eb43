----------------------------- MODULE TaskSession -----------------------------
(***************************************************************************)
(* The life of a task: the Controller, which owns at most one current Task *)
(* object, the Task objects it has created, each a coroutine of its own,   *)
(* and the API calls (new, show, clear, cancel) that replace them.         *)
(*                                                                         *)
(* Sources: src/core/controller/index.ts, src/core/task/LifecycleManager,  *)
(* AgentLoopRunner, ApiRequestHandler, TaskMessenger (the response slot).  *)
(* The runtime interleaves the coroutines at their awaits: one action is   *)
(* the code between two of them.  gRPC handlers are not serialised, so two *)
(* calls interleave too.  Modelled are the awaits after which the code     *)
(* reads this.task, taskState.abort or the response slot again.            *)
(***************************************************************************)
EXTENDS Naturals, FiniteSets

CONSTANTS Tasks,        \* slots for Task objects alive together; reused when garbage
          Users,        \* API calls the user interface may have in flight together
          NoTask,       \* controller.task === undefined
          MaxRetry,     \* the 3 of autoRetryAttempts
          HooksEnabled  \* the hooksEnabled setting (true by default)

ASSUME SessionAssumption == /\ NoTask \notin Tasks
                            /\ Tasks \cap Users = {}
                            /\ MaxRetry \in Nat
                            /\ HooksEnabled \in BOOLEAN

VARIABLES current,          \* controller.task
          cancelInProgress, \* controller.cancelInProgress
          call,             \* the controller coroutines, by caller
          phase,            \* where each Task coroutine stands
          abort,            \* taskState.abort
          abandoned,        \* taskState.abandoned
          response,         \* taskState.askResponse
          retries,          \* taskState.autoRetryAttempts
          timer             \* the task has an auto-retry timer pending

control == <<current, cancelInProgress, call>>
flags == <<abort, abandoned>>
vars == <<control, phase, flags, response, retries, timer>>

\* A task re-initialises itself after a stream failure: it is a caller as well.
Callers == Users \union Tasks

Ops == {"new", "show", "clear", "cancel", "reopen", "close", "reinit"}
InitOps == {"new", "show", "reopen", "reinit"}
CancelOps == {"cancel", "reopen", "close"}

Stages == {"idle", "settings", "aborting", "asking", "aborted", "clearing", "setup",
           "waiting", "lookup"}

Calls == [op : Ops, at : Stages, target : Tasks \union {NoTask}]

Idle == [op |-> "clear", at |-> "idle", target |-> NoTask]

AskPhases == {"resumeAsk", "retryAsk", "toolAsk"}
Streaming == {"firstChunk", "backoff", "retryAsk", "chunks", "toolAsk", "executing",
              "failing", "reopening"}
Phases == {"none", "starting", "restoring", "resumeAsk", "dead"} \union Streaming

Responses == {"none", "yes", "no", "timer"}

TypeOK == /\ current \in Tasks \union {NoTask}
          /\ cancelInProgress \in BOOLEAN
          /\ call \in [Callers -> Calls]
          /\ phase \in [Tasks -> Phases]
          /\ abort \in [Tasks -> BOOLEAN]
          /\ abandoned \in [Tasks -> BOOLEAN]
          /\ response \in [Tasks -> Responses]
          /\ retries \in [Tasks -> 0..MaxRetry]
          /\ timer \in [Tasks -> BOOLEAN]

Init == /\ current = NoTask
        /\ cancelInProgress = FALSE
        /\ call = [c \in Callers |-> Idle]
        /\ phase = [t \in Tasks |-> "none"]
        /\ abort = [t \in Tasks |-> FALSE]
        /\ abandoned = [t \in Tasks |-> FALSE]
        /\ response = [t \in Tasks |-> "none"]
        /\ retries = [t \in Tasks |-> 0]
        /\ timer = [t \in Tasks |-> FALSE]

-----------------------------------------------------------------------------
\* Controller coroutines.

At(c, stage) == call[c].at = stage

Move(c, op, stage, target) ==
  call' = [call EXCEPT ![c] = [op |-> op, at |-> stage, target |-> target]]

Goto(c, stage) == Move(c, call[c].op, stage, call[c].target)

\* Entry of clearTask: it awaits the settings cache only when there is a task.
EnterClear(c, op) ==
  Move(c, op, IF current = NoTask THEN "clearing" ELSE "settings", NoTask)

\* newTask and showTaskWithId go through initTask, whose first statement is
\* await this.clearTask().
StartCall(u, op) ==
  /\ At(u, "idle")
  /\ EnterClear(u, op)
  /\ UNCHANGED <<current, cancelInProgress, phase, flags, response, retries, timer>>

\* cancelTask returns at once when a cancellation runs or there is no task.
\* Otherwise it aborts the task that is current now.
StartCancel(u) ==
  /\ At(u, "idle") /\ ~cancelInProgress /\ current # NoTask
  /\ cancelInProgress' = TRUE
  /\ Move(u, "cancel", "aborting", current)
  /\ UNCHANGED <<current, phase, flags, response, retries, timer>>

\* A mutated clearTask that drops the task without aborting it.
DropWithoutAbort(c) ==
  /\ At(c, "settings")
  /\ Goto(c, "clearing")
  /\ UNCHANGED <<current, cancelInProgress, phase, flags, response, retries, timer>>

\* this.task?.abortTask() is evaluated after the await: it may be another task.
AbortCurrent(c) ==
  /\ At(c, "settings")
  /\ Move(c, call[c].op, IF current = NoTask THEN "clearing" ELSE "aborting", current)
  /\ UNCHANGED <<current, cancelInProgress, phase, flags, response, retries, timer>>

\* LifecycleManager.abortTask sets the flag after shouldRunTaskCancelHook, which
\* is false for a task that only shows its resume button.
SetAbort(c) ==
  /\ At(c, "aborting")
  /\ LET t == call[c].target IN
       /\ abort' = [abort EXCEPT ![t] = TRUE]
       /\ Goto(c, IF HooksEnabled /\ phase[t] # "resumeAsk" THEN "asking" ELSE "aborted")
  /\ UNCHANGED <<current, cancelInProgress, phase, abandoned, response, retries, timer>>

\* After the TaskCancel hook abortTask asks resume_task itself: a pending ask of the
\* task is superseded and throws, which ends an aborted task's coroutine.
AskResumeOnAbort(c) ==
  /\ At(c, "asking")
  /\ Goto(c, "aborted")
  /\ LET t == call[c].target IN
       /\ phase' = [phase EXCEPT ![t] = IF @ \in AskPhases THEN "dead" ELSE @]
       /\ response' = [response EXCEPT ![t] = "none"]
  /\ UNCHANGED <<current, cancelInProgress, flags, retries, timer>>

\* The rest of abortTask tears down the terminal, the browser and the watchers.
AbortReturns(c) ==
  /\ At(c, "aborted")
  /\ Move(c, call[c].op, IF call[c].op = "cancel" THEN "waiting" ELSE "clearing", NoTask)
  /\ UNCHANGED <<current, cancelInProgress, phase, flags, response, retries, timer>>

Return(c) == Move(c, "clear", "idle", NoTask)

\* A mutated finally that is left out when there is nothing to reopen.
ReleaseReopened(c) ==
  cancelInProgress' = IF call[c].op = "reopen" THEN FALSE ELSE cancelInProgress

\* cancelTask's finally.
ReleaseCancel(c) ==
  cancelInProgress' = IF call[c].op \in CancelOps THEN FALSE ELSE cancelInProgress

\* clearTask ends with this.task = undefined, whichever task that is.
DropCurrent(c) ==
  /\ At(c, "clearing")
  /\ current' = NoTask
  /\ IF call[c].op \in InitOps THEN Goto(c, "setup") /\ UNCHANGED cancelInProgress
                               ELSE Return(c) /\ ReleaseCancel(c)
  /\ UNCHANGED <<phase, flags, response, retries, timer>>

\* A slot no coroutine can use any more.  A task that is not current is never
\* answered: at an ask with an empty slot it polls for ever.
Garbage(t) == /\ t # current
              /\ \A c \in Callers : call[c].at # "idle" => call[c].target # t
              /\ At(t, "idle")
              /\ ~timer[t]
              /\ \/ phase[t] \in {"none", "dead"}
                 \/ phase[t] \in AskPhases /\ response[t] = "none"

\* initTask after its awaits on the workspace, the lock and the settings:
\* this.task = new Task(...), then resumeTaskFromHistory or startTask, not awaited.
Launch(c, t) ==
  /\ At(c, "setup") /\ Garbage(t)
  /\ current' = t
  /\ phase' = [phase EXCEPT ![t] = IF call[c].op = "new" THEN "starting" ELSE "restoring"]
  /\ abort' = [abort EXCEPT ![t] = FALSE]
  /\ abandoned' = [abandoned EXCEPT ![t] = FALSE]
  /\ response' = [response EXCEPT ![t] = "none"]
  /\ retries' = [retries EXCEPT ![t] = 0]
  /\ Return(c) /\ ReleaseCancel(c)
  /\ UNCHANGED timer

\* cancelTask waits until the task no longer streams, or for 3 s: the wait may end in
\* any state.  Then whatever task is current is abandoned and looked up.  Without a
\* task, reading its id throws, which is caught.
AbandonCurrent(c) ==
  /\ At(c, "waiting")
  /\ IF current = NoTask
       THEN EnterClear(c, "close") /\ UNCHANGED abandoned
       ELSE Goto(c, "lookup") /\ abandoned' = [abandoned EXCEPT ![current] = TRUE]
  /\ UNCHANGED <<current, cancelInProgress, phase, abort, response, retries, timer>>

\* getTaskWithId: a task with saved messages is found, a task without is not.
\* cancelTask then reopens or clears; reinitExistingTaskFromId reopens or throws.
Found(c) ==
  /\ At(c, "lookup")
  /\ EnterClear(c, IF call[c].op = "cancel" THEN "reopen" ELSE "reinit")
  /\ UNCHANGED <<current, cancelInProgress, phase, flags, response, retries, timer>>

\* A mutated cancelTask without the branch that clears.
NotFoundLeaves(c) ==
  /\ At(c, "lookup")
  /\ Return(c) /\ ReleaseCancel(c)
  /\ UNCHANGED <<current, phase, flags, response, retries, timer>>

NotFound(c) ==
  /\ At(c, "lookup")
  /\ IF call[c].op = "cancel" THEN EnterClear(c, "close") ELSE Return(c)
  /\ UNCHANGED <<current, cancelInProgress, phase, flags, response, retries, timer>>

CallStep(c) == \/ AbortCurrent(c) \/ SetAbort(c) \/ AskResumeOnAbort(c)
               \/ AbortReturns(c) \/ DropCurrent(c) \/ AbandonCurrent(c)
               \/ Found(c) \/ NotFound(c)
               \/ \E t \in Tasks : Launch(c, t)

-----------------------------------------------------------------------------
\* Task coroutines.

Phase(t, p) == phase[t] = p
To(t, p) == phase' = [phase EXCEPT ![t] = p]
Die(t) == To(t, "dead")

\* ask() clears the response slot before it waits.
Ask(t, p) == To(t, p) /\ response' = [response EXCEPT ![t] = "none"]

\* startTask, and resumeTaskFromHistory after its ask: the last test of abort
\* before the first request.
EnterLoop(t) ==
  /\ Phase(t, "starting")
  /\ To(t, IF abort[t] THEN "dead" ELSE "firstChunk")
  /\ UNCHANGED <<control, flags, response, retries, timer>>

\* resumeTaskFromHistory has read the saved messages: it resets abort and asks.
Restored(t) ==
  /\ Phase(t, "restoring")
  /\ abort' = [abort EXCEPT ![t] = FALSE]
  /\ Ask(t, "resumeAsk")
  /\ UNCHANGED <<control, abandoned, retries, timer>>

\* Any answer resumes the task.
Resumed(t) ==
  /\ Phase(t, "resumeAsk") /\ response[t] # "none"
  /\ Ask(t, "starting")
  /\ UNCHANGED <<control, flags, retries, timer>>

FirstChunk(t) ==
  /\ Phase(t, "firstChunk")
  /\ To(t, "chunks")
  /\ UNCHANGED <<control, flags, response, retries, timer>>

MoreRetries(t) == retries[t] < MaxRetry

\* The request fails before its first chunk.  say and ask throw once aborted.
FirstChunkFails(t, transient) ==
  /\ Phase(t, "firstChunk")
  /\ IF abort[t]
       THEN Die(t) /\ UNCHANGED <<response, retries>>
       ELSE IF transient /\ MoreRetries(t)
         THEN /\ To(t, "backoff")
              /\ retries' = [retries EXCEPT ![t] = @ + 1]
              /\ UNCHANGED response
         ELSE Ask(t, "retryAsk") /\ UNCHANGED retries
  /\ UNCHANGED <<control, flags, timer>>

BackoffOver(t) ==
  /\ Phase(t, "backoff")
  /\ To(t, IF abort[t] THEN "dead" ELSE "firstChunk")
  /\ UNCHANGED <<control, flags, response, retries, timer>>

\* makeRequest's catch around the stream.  A live task schedules the auto-retry
\* timer (while attempts are left), aborts itself and will reopen its chat; an
\* abandoned one goes on as if the turn were over; for an aborted one say throws.
StreamError(t) ==
  IF abort[t]
    THEN Die(t) /\ UNCHANGED <<abort, retries, timer>>
  ELSE IF abandoned[t]
    THEN /\ To(t, "firstChunk")
         /\ retries' = [retries EXCEPT ![t] = 0]
         /\ UNCHANGED <<abort, timer>>
  ELSE /\ To(t, "failing")
       /\ abort' = [abort EXCEPT ![t] = TRUE]
       /\ timer' = [timer EXCEPT ![t] = MoreRetries(t)]
       /\ retries' = [retries EXCEPT ![t] = IF MoreRetries(t) THEN @ + 1 ELSE @]

StreamFails(t) ==
  /\ Phase(t, "chunks")
  /\ StreamError(t)
  /\ UNCHANGED <<control, abandoned, response>>

\* abortStream has saved the interrupted reply: reinitExistingTaskFromId starts.
Reinit(t) ==
  /\ Phase(t, "failing")
  /\ To(t, "reopening")
  /\ Move(t, "reinit", "lookup", NoTask)
  /\ UNCHANGED <<current, cancelInProgress, flags, response, retries, timer>>

\* Back from the re-initialisation: "Isaac instance aborted".
ReinitReturns(t) ==
  /\ Phase(t, "reopening") /\ At(t, "idle")
  /\ Die(t)
  /\ UNCHANGED <<control, flags, response, retries, timer>>

\* A mutated timer that does not hand its count to the reopened task.
TimerForgets(t) ==
  /\ timer[t]
  /\ timer' = [timer EXCEPT ![t] = FALSE]
  /\ IF current = NoTask THEN UNCHANGED response
                         ELSE response' = [response EXCEPT ![current] = "timer"]
  /\ UNCHANGED <<control, phase, flags, retries>>

\* The timer answers yes for whatever task is current when it fires.
TimerFires(t) ==
  /\ timer[t]
  /\ timer' = [timer EXCEPT ![t] = FALSE]
  /\ IF current = NoTask
       THEN UNCHANGED <<response, retries>>
       ELSE /\ response' = [response EXCEPT ![current] = "timer"]
            /\ retries' = [retries EXCEPT ![current] = retries[t]]
  /\ UNCHANGED <<control, phase, flags>>

\* The answer to api_req_failed: yes retries from zero, anything else throws.
RetryAnswered(t) ==
  /\ Phase(t, "retryAsk") /\ response[t] # "none"
  /\ response' = [response EXCEPT ![t] = "none"]
  /\ IF response[t] = "no"
       THEN StreamError(t)
       ELSE /\ To(t, IF abort[t] THEN "dead" ELSE "firstChunk")
            /\ retries' = [retries EXCEPT ![t] = 0]
            /\ UNCHANGED <<abort, timer>>
  /\ UNCHANGED <<control, abandoned>>

\* After each chunk the loop tests abort.
StreamAborted(t) ==
  /\ Phase(t, "chunks") /\ abort[t]
  /\ Die(t)
  /\ UNCHANGED <<control, flags, response, retries, timer>>

\* A complete tool call that needs approval: handleCompleteBlock and ask test abort.
ToolCall(t) ==
  /\ Phase(t, "chunks") /\ ~abort[t]
  /\ Ask(t, "toolAsk")
  /\ UNCHANGED <<control, flags, retries, timer>>

\* The tool runs on yesButtonClicked.  runPreToolUseIfEnabled tests abort again, but
\* returns before that when hooks are off.
ToolAnswered(t) ==
  /\ Phase(t, "toolAsk") /\ response[t] # "none"
  /\ To(t, IF response[t] = "no" \/ (HooksEnabled /\ abort[t]) THEN "chunks"
                                                               ELSE "executing")
  /\ response' = [response EXCEPT ![t] = "none"]
  /\ UNCHANGED <<control, flags, retries, timer>>

ToolDone(t) ==
  /\ Phase(t, "executing")
  /\ To(t, "chunks")
  /\ UNCHANGED <<control, flags, response, retries, timer>>

\* The reply is complete: the loop sends the results as the next request.
TurnDone(t) ==
  /\ Phase(t, "chunks") /\ ~abort[t]
  /\ To(t, "firstChunk")
  /\ retries' = [retries EXCEPT ![t] = 0]
  /\ UNCHANGED <<control, flags, response, timer>>

\* The model completes the task.
Complete(t) ==
  /\ Phase(t, "chunks") /\ ~abort[t]
  /\ Die(t)
  /\ UNCHANGED <<control, flags, response, retries, timer>>

TaskStep(t) == \/ EnterLoop(t) \/ Restored(t) \/ Resumed(t) \/ FirstChunk(t)
               \/ \E transient \in BOOLEAN : FirstChunkFails(t, transient)
               \/ BackoffOver(t) \/ RetryAnswered(t) \/ StreamFails(t) \/ Reinit(t)
               \/ ReinitReturns(t) \/ StreamAborted(t) \/ ToolCall(t) \/ ToolAnswered(t)
               \/ ToolDone(t) \/ TurnDone(t) \/ Complete(t)

-----------------------------------------------------------------------------
\* The user answers the ask on the screen, which is the current task's.
Respond(r) ==
  /\ current # NoTask
  /\ phase[current] \in AskPhases /\ response[current] = "none"
  /\ response' = [response EXCEPT ![current] = r]
  /\ UNCHANGED <<control, phase, flags, retries, timer>>

UserStep == \/ \E u \in Users, op \in {"new", "show", "clear"} : StartCall(u, op)
            \/ \E u \in Users : StartCancel(u)
            \/ \E r \in {"yes", "no"} : Respond(r)

Next == \/ UserStep
        \/ \E c \in Callers : CallStep(c)
        \/ \E t \in Tasks : TaskStep(t) \/ TimerFires(t)

Spec == Init /\ [][Next]_vars

\* No call is in flight and no failed task is about to make one.
Settled == \A c \in Callers : At(c, "idle") /\ (c \in Tasks => ~Phase(c, "failing"))

\* One failure at a time: a stream fails only with no call in flight and no timer pending.
CalmTaskStep(t) ==
  TaskStep(t) /\ (phase'[t] = "failing" => Settled /\ \A s \in Tasks : ~timer[s])

\* One call at a time: the user and the timers wait for the calls in flight.
SerialNext == \/ Settled /\ UserStep
              \/ \E c \in Callers : CallStep(c)
              \/ \E t \in Tasks : CalmTaskStep(t) \/ (Settled /\ TimerFires(t))

SerialSpec == Init /\ [][SerialNext]_vars

\* Awaits of the controller and of the tasks return, providers answer, timers fire;
\* the user may do nothing.
Fairness == /\ \A c \in Callers : WF_vars(CallStep(c))
            /\ \A t \in Tasks : WF_vars(CalmTaskStep(t)) /\ WF_vars(Settled /\ TimerFires(t))

FairSerialSpec == SerialSpec /\ Fairness

-----------------------------------------------------------------------------
\* A task that is sending requests or running tools.
Working(t) == phase[t] \in Streaming \ {"failing", "reopening"} /\ ~abort[t]

\* At most one task works at a time.
OneWorker == \A s, t \in Tasks : Working(s) /\ Working(t) => s = t

\* Only the current task works.
WorkerIsCurrent == \A t \in Tasks : Working(t) => t = current

\* The callers that run a cancellation.
Cancelling(c) == ~At(c, "idle") /\ call[c].op \in CancelOps

\* cancelTask's comment "Prevent duplicate cancellations from spam clicking": at most
\* one caller runs a cancellation, and the flag is up exactly while one does.
OneCancel == /\ cancelInProgress <=> \E c \in Callers : Cancelling(c)
             /\ \A c, d \in Callers : Cancelling(c) /\ Cancelling(d) => c = d

\* An abandoned task stays on screen only while the cancellation is running.
AbandonedOnlyInCancel ==
  current # NoTask /\ abandoned[current] => cancelInProgress

\* A tool that needs approval starts only by a task that is current.
OrphanRunsNoTool ==
  [][\A t \in Tasks : phase[t] = "toolAsk" /\ phase'[t] = "executing" => t = current]_vars

\* Per-action approval: such a tool starts only on the user's own yes.
ToolsNeedTheUser ==
  [][\A t \in Tasks : phase[t] = "toolAsk" /\ phase'[t] = "executing"
                         => response[t] = "yes"]_vars

\* initTask's comment: no task exists when a new one starts.
NoTaskAtLaunch ==
  [][\A c \in Callers : At(c, "setup") /\ call'[c].at = "idle" => current = NoTask]_vars

\* The cancel button always works again in the end.
CancelReleases == cancelInProgress ~> ~cancelInProgress

\* The timer that a failure leaves behind is the only one of its chain: without
\* an answer of the user or a completed turn, automatic retries come to an end.
RetriesEnd == \/ <>[](\A t \in Tasks : ~timer[t])
              \/ []<><<UserStep>>_vars
              \/ []<><<\E t \in Tasks : TurnDone(t)>>_vars

=============================================================================

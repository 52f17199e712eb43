------------------------------ MODULE Subagents ------------------------------
(***************************************************************************)
(* The subagents of one use_subagents call: each sends requests of its own *)
(* with retries, runs the tools that the replies call, and is ended by its *)
(* answer, its turns, its time with one more chance after it, a failure or *)
(* the abort of the task, which the handler polls.                         *)
(*                                                                         *)
(* Sources: src/core/task/tools/subagent/SubagentRunner.ts and             *)
(* tools/handlers/SubagentToolHandler.ts.  The replies are the model's     *)
(* choice: per call only whether it is an answer, a tool that runs, or one *)
(* refused at once.  Left out: the approval, the progress shown, usage,    *)
(* skills, and what compaction removes (ConversationHistory).              *)
(***************************************************************************)
EXTENDS Naturals, Sequences

CONSTANTS Agents,
          MaxTurns,     \* max_turns, where the call gives it
          MaxEmpty,     \* MAX_EMPTY_ASSISTANT_RETRIES
          MaxAttempts,  \* MAX_INITIAL_STREAM_ATTEMPTS
          MaxCalls      \* bound on the calls of one reply

ASSUME SubagentsAssumption == /\ MaxTurns \in Nat \ {0} /\ MaxEmpty \in Nat
                              /\ MaxAttempts \in Nat \ {0} /\ MaxCalls \in Nat

VARIABLES limit,  \* max_turns of this call; 0 when it has none
          run,    \* the coroutine of each runner and its fields
          jobs,   \* runners that have a tool running in the background
          abort,  \* taskState.abort of the task
          poll    \* the interval of the handler: "armed", "fired", or "off" when it has returned

agentVars == <<limit, run, jobs, abort, poll>>

Kinds == {"answer", "tool", "refused"}
Over == {"answered", "limited", "failed"}
Calls == [kind : Kinds, attempt : 1..MaxAttempts]

Places == {"setup", "loop", "request", "backoff", "tool"} \union Over

Runners == [at : Places, timer : {"none", "limit", "wrapup"}, warned : BOOLEAN, aborted : BOOLEAN,
            reason : {"none", "time", "late", "turns"}, turns : 0..MaxTurns, empties : 0..MaxEmpty,
            attempt : 1..MaxAttempts, calls : Seq(Calls), next : 0..MaxCalls,
            replies : Nat, late : Nat]

AgentsTypeOK ==
  /\ limit \in {0, MaxTurns} /\ abort \in BOOLEAN /\ poll \in {"armed", "fired", "off"}
  /\ jobs \subseteq Agents
  /\ run \in [Agents -> Runners] /\ \A a \in Agents : Len(run[a].calls) <= MaxCalls

\* replies and late are history: the replies read to their end, where turns are limited,
\* and the requests begun after the task was aborted.
Fresh == [at |-> "setup", timer |-> "none", warned |-> FALSE, aborted |-> FALSE, reason |-> "none",
          turns |-> 0, empties |-> 0, attempt |-> 1, calls |-> <<>>, next |-> 0,
          replies |-> 0, late |-> 0]

AgentsInit == /\ limit \in {0, MaxTurns}
              /\ run = [a \in Agents |-> Fresh]
              /\ jobs = {} /\ abort = FALSE /\ poll = "armed"

-----------------------------------------------------------------------------
ShouldAbort(r) == r.aborted \/ abort

\* The finally clause: no timer outlives the run.
End(r, how) == [r EXCEPT !.at = how, !.timer = "none"]

\* A run that is stopped is completed with what it has when a limit was the reason; the
\* reason of the second timer does not say "timed out".
Stop(r) == End(r, IF r.reason \in {"time", "turns"} THEN "limited" ELSE "failed")

Begin(r) == [r EXCEPT !.at = "request", !.late = IF abort THEN @ + 1 ELSE @]

Request(r) == [Begin(r) EXCEPT !.attempt = 1, !.calls = <<>>]

\* Mutant: the chance has no end.
WrapUpUntimed(r) == [r EXCEPT !.warned = TRUE, !.aborted = FALSE, !.reason = "none"]

\* The chance to wrap up, sixty seconds long.
WrapUp(r) == [r EXCEPT !.warned = TRUE, !.timer = "wrapup", !.aborted = FALSE, !.reason = "none"]

OutOfTurns(r) == IF limit > 0 /\ r.turns >= limit
                   THEN [r EXCEPT !.aborted = TRUE, !.reason = "turns"] ELSE r

\* From the top of the loop to its first await.
Loop(r) == LET s == OutOfTurns(r)
           IN CASE ~ShouldAbort(s) -> Request(s)
                [] s.reason = "time" /\ s.aborted /\ ~s.warned /\ ~abort -> Request(WrapUp(s))
                [] OTHER -> Stop(s)

\* Mutant: a turn counts when a tool has run in it.
TurnDoneByTools(r) ==
  [r EXCEPT !.at = "loop", !.turns = IF limit > 0 /\ r.next > 0 THEN r.turns + 1 ELSE r.turns,
            !.next = 0]

\* The results are in the conversation.
TurnDone(r) == [r EXCEPT !.at = "loop", !.turns = IF limit > 0 THEN r.turns + 1 ELSE 0, !.next = 0]

\* The calls from number k: what is refused has its result at once.  Neither an abort nor
\* a limit is looked at between two calls.
Work(r, k) ==
  LET first == {i \in k..Len(r.calls) : /\ r.calls[i].kind # "refused"
                                        /\ \A j \in k..(i - 1) : r.calls[j].kind = "refused"}
  IN IF first = {} THEN TurnDone(r)
     ELSE LET i == CHOOSE i \in first : TRUE
          IN IF r.calls[i].kind = "answer" THEN End(r, "answered")
                                           ELSE [r EXCEPT !.at = "tool", !.next = i]

\* The agent goes on as r.
Goes(a, r) == run' = [run EXCEPT ![a] = r] /\ UNCHANGED <<limit, jobs, abort, poll>>

-----------------------------------------------------------------------------
\* The timer is armed when all that a request needs has been fetched.
Prepared(a) ==
  /\ run[a].at = "setup"
  /\ Goes(a, IF ShouldAbort(run[a]) THEN Stop(run[a])
                                    ELSE Loop([run[a] EXCEPT !.timer = "limit"]))

SetupFails(a) == run[a].at = "setup" /\ Goes(a, End(run[a], "failed"))

Turn(a) == run[a].at = "loop" /\ Goes(a, Loop(run[a]))

\* A chunk of text or of a call; an abort is seen after it.
Chunk(a) ==
  /\ run[a].at = "request"
  /\ IF ShouldAbort(run[a])
       THEN Goes(a, Stop(run[a]))
       ELSE /\ Len(run[a].calls) < MaxCalls
            /\ \E kind \in Kinds :
                 Goes(a, [run[a] EXCEPT !.calls =
                            Append(@, [kind |-> kind, attempt |-> run[a].attempt])])

\* A reply without calls is answered by a reminder, a few times in a row.
ReplyEnds(a) ==
  /\ run[a].at = "request"
  /\ LET r == [run[a] EXCEPT !.replies = IF limit > 0 THEN @ + 1 ELSE 0]
     IN Goes(a, IF r.calls # <<>> THEN Work([r EXCEPT !.empties = 0], 1)
                ELSE IF r.empties = MaxEmpty THEN End(r, "failed")
                ELSE [r EXCEPT !.at = "loop", !.empties = @ + 1])

\* Mutant: the errors that end a retry leave out the abort.
MayRetryAborted(r) == r.attempt < MaxAttempts

MayRetry(r) == ~ShouldAbort(r) /\ r.attempt < MaxAttempts

\* The stream fails, before its first chunk or after it.  What the handlers of calls have
\* gathered is kept.  A compacted conversation is sent at once, other errors wait, and
\* some are final.
StreamFails(a) ==
  /\ run[a].at = "request"
  /\ \/ MayRetry(run[a]) /\ Goes(a, [Begin(run[a]) EXCEPT !.attempt = @ + 1])
     \/ MayRetry(run[a]) /\ Goes(a, [run[a] EXCEPT !.at = "backoff"])
     \/ Goes(a, IF ShouldAbort(run[a]) THEN Stop(run[a]) ELSE End(run[a], "failed"))

\* Whatever has happened during the delay.
Again(a) ==
  /\ run[a].at = "backoff"
  /\ Goes(a, [Begin(run[a]) EXCEPT !.attempt = @ + 1])

\* A tool returns; the entry of one that goes on is in the runner's own TaskState.
ToolReturns(a) ==
  /\ run[a].at = "tool"
  /\ run' = [run EXCEPT ![a] = Work(@, @.next + 1)]
  /\ jobs' \in {jobs, jobs \union {a}}
  /\ UNCHANGED <<limit, abort, poll>>

JobEnds(a) == a \in jobs /\ jobs' = jobs \ {a} /\ UNCHANGED <<limit, run, abort, poll>>

TimeUp(a) ==
  /\ run[a].timer = "limit"
  /\ Goes(a, [run[a] EXCEPT !.timer = "none", !.aborted = TRUE, !.reason = "time"])

WrapUpOver(a) ==
  /\ run[a].timer = "wrapup"
  /\ Goes(a, [run[a] EXCEPT !.timer = "none", !.aborted = TRUE, !.reason = "late"])

-----------------------------------------------------------------------------
\* abortTask: cancelAll reaches the registry of the task only.
TaskAborts == ~abort /\ poll # "off" /\ abort' = TRUE /\ UNCHANGED <<limit, run, jobs, poll>>

\* Every runner is told, without a reason.  The callback that would cancel its command is
\* not called: no tool runs commands through the wrapper that counts them.
Polled ==
  /\ poll = "armed" /\ abort /\ poll' = "fired"
  /\ run' = [a \in Agents |-> [run[a] EXCEPT !.aborted = TRUE]]
  /\ UNCHANGED <<limit, jobs, abort>>

\* The tool's result is put together when all runs have ended.
Return == /\ poll # "off" /\ \A a \in Agents : run[a].at \in Over
          /\ poll' = "off" /\ UNCHANGED <<limit, run, jobs, abort>>

AgentsNext ==
  \/ \E a \in Agents : \/ Prepared(a) \/ SetupFails(a) \/ Turn(a) \/ Chunk(a) \/ ReplyEnds(a)
                       \/ StreamFails(a) \/ Again(a) \/ ToolReturns(a) \/ JobEnds(a)
                       \/ TimeUp(a) \/ WrapUpOver(a)
  \/ TaskAborts \/ Polled \/ Return

AgentsSpec == AgentsInit /\ [][AgentsNext]_agentVars

\* Streams end or fail, delays pass, timers fire.  A tool need not return: it may ask the
\* user.
FairAgents ==
  /\ AgentsSpec /\ WF_agentVars(Return)
  /\ \A a \in Agents : /\ WF_agentVars(Prepared(a) \/ SetupFails(a))
                       /\ WF_agentVars(Turn(a) \/ Again(a))
                       /\ WF_agentVars(ReplyEnds(a) \/ StreamFails(a))
                       /\ WF_agentVars(TimeUp(a)) /\ WF_agentVars(WrapUpOver(a))

-----------------------------------------------------------------------------
\* After the task was aborted a runner begins at most one request, that of a delay which
\* the abort did not cut short: no retry, reminder, wrap-up or turn begins another.
AbortedAsksOnceMore == \A a \in Agents : run[a].late <= 1

\* max_turns bounds the replies that are paid for, refused calls, reminders and the
\* wrap-up included.
TurnsAreBounded == limit > 0 => \A a \in Agents : run[a].replies <= limit * (MaxEmpty + 1)

\* Every run ends, whatever the model replies for however long, as long as tools return:
\* the time limit ends it in the stream, or gives one chance that ends too.
RunsEnd == (\A a \in Agents : WF_agentVars(ToolReturns(a))) => <>(poll = "off")

\* tools/subagent.ts: "Optional timeout in seconds for each subagent."
TimeIsLimited == \A a \in Agents : (run[a].reason = "late") ~> (run[a].at \in Over)

\* createMessageWithInitialChunkRetry retries the initial chunk: a reply that broke off
\* later leaves no call to run.
OnlyWholeReplies == \A a \in Agents : run[a].at = "tool" =>
                      run[a].calls[run[a].next].attempt = run[a].attempt

\* core/task/index.ts: "cancel any background async tools so they cannot outlive the task."
AgentJobsDie == [][~abort /\ abort' => jobs' = {}]_agentVars

\* ToolExecutor.ts: "Check abort flag at the very start to prevent execution after
\* cancellation."
AbortedRunsNoTool ==
  [][\A a \in Agents : poll = "fired" /\ run[a].at # "tool" => run'[a].at # "tool"]_agentVars

\* The reason a limit was set: what a subagent has found is reported when its time is up.
FindingsAreKept == \A a \in Agents : run[a].at = "failed" => run[a].reason # "late"

=============================================================================

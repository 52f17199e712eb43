# Verification of ailiance-agent in TLA+

ailiance-agent (internally "Isaac") is a coding agent that runs as an editor
extension, a standalone core behind gRPC, or a CLI. A `Controller` owns one `Task`;
a task sends requests to a model, reads the streamed reply, runs the tools the reply
asks for, with the user's approval where the settings demand it, and sends the
results back. Everything runs on one JavaScript thread, so what can go wrong is the
order of the stretches between two `await`s, together with timers, background
promises, the user's clicks, failing I/O, child processes, remote daemons and
restarts. That is what the models are about. Paths below are relative to `src/src/`.

## How to run

    tlc -workers 2 -config MCTurn.cfg AgentTurn    # a run: configuration, module
    tlapm StreamCoordinator_proofs.tla             # the proofs of a component

`PROJECT.json` lists the runs, the mutants that show each property to have teeth, the
source lines of every definition, the finding, the hazards and the theorems. The table
under "Configurations run by hand" lists configurations that are not among the runs.

## Inventory

| Component | State | Operations and interactions | What is hard | What makes it correct |
|---|---|---|---|---|
| **Task sessions** `core/controller/index.ts`, `core/task/LifecycleManager.ts`, `AgentLoopRunner.ts`, `ApiRequestHandler.ts` | `controller.task`, `cancelInProgress`; per task `abort`, `abandoned`, `isStreaming`, `askResponse`, `autoRetryAttempts`, a timer | `initTask`, `clearTask`, `cancelTask`, `reinitExistingTaskFromId`; the task's own loop with retries; a failed task calls the controller back | calls are not serialised and interleave at every `await`; `this.task` is read again after waiting; timers outlive tasks | one task works, and it is the current one; a cancelled task starts no tool; cancelling ends; retries end |
| **Stream coordinator** `core/task/StreamChunkCoordinator.ts` | queue, `completed`, `readError`, `stopRequested`, the armed resolver | pump reads the provider, agent loop reads the queue | lost wake-ups, error and stop racing queued chunks | an ordered channel, quiet after stop |
| **Response processing, tool execution** `core/task/ResponseProcessor.ts`, `ToolExecutor.ts`, `StreamResponseHandler.ts`, `core/assistant-message` | list of blocks, block index, rejected and ready flags, results for the next request | every chunk is parsed anew and presented; complete calls are executed; the loop waits until all is presented | the list is replaced under its index; tools run while the stream goes on; aborts and rejections in mid-reply | each call runs once, none after a stop; no call without an answer; the turn ends |
| **Asks and messages** `core/task/TaskMessenger.ts`, `message-state.ts` | one response slot, `lastMessageTs`, message list under a mutex, its file | `ask`, `say`, `handleWebviewAskResponse`, removals; a job's end and the cleanup of an abort say and ask at any time | an answer read by another ask; indices found before an await; removals outside the lock | an answer is one given to this ask; asks end; the file follows the list |
| **Background tools** `core/task/PendingToolRegistry.ts`, `AsyncToolNotifier.ts`, tool handlers, `get_tool_result` | entry status, abort signals, listeners | register, race with a 500 ms timer, settle, cancel, wait, prune; `Task.abortTask` cancels all | late results, teardown between two steps of a handler, announcements that supersede asks | settle once, announce once, nobody waits for what has ended |
| **Terminal and commands** `integrations/terminal` | per command: lines, chunk and log state, the tracker, limits; shared: the current process, one cancel flag, the manager's terminals | run, show in chunks, switch to a log file, hand over to the background, cancel, tear down | lines arrive during awaits; two commands share one cancel flag; a terminal given twice | no line is lost or doubled in a log; the agent is answered; cancellations hit what was at work; nothing survives a teardown |
| **Conversation and context** `core/context/context-management/ContextManager.ts`, `core/task/ApiConversationManager.ts`, `ApiRequestHandler.ts` | history, deleted range | truncation, condensing, repair of tool results, resumption, checkpoint restore | index arithmetic on pairs over any sequence of these | each request alternates, answers its calls and ends with the latest message; deletions last |
| **State storage** `core/storage/StateManager.ts`, `shared/storage/IsaacFileStorage.ts` | caches, four pending sets, debounce timer, files | setters, timer, flush, watcher, restart | writes overlap with setters and with each other; failures | no unwritten change is forgotten |
| **Remote copies of conversations** `shared/services/worker` and its callers | queue, its file and debounce, items and their retries | saves enqueue, a worker uploads in batches, backfill, dispose | uploads that fail silently; a queue file older than the blobs; eviction | the last version is remote, queued, or lost in a named way; copies never go back |
| **Remote environments** `services/environment` | pending requests, the daemon's children, the copies of the workspace | requests, output and exit over one pipe; bootstrap, push, pull on dispose | the daemon ends at any time; a file edited on both sides; failing steps of dispose | answered callers had all output, calls end, the user's edits and the remote work survive |
| **Subagents** `core/task/tools/subagent`, `UseSubagentsToolHandler.ts` | per runner: turn, attempts, empty replies, time, abort | requests, retries, tools, a chance to wrap up, the handler's poll | limits noticed late; aborts in delays; one registry for all jobs | turns are bounded, runs end, an abort stops them |
| **Agent loop bookkeeping** (rest of `AgentLoopRunner.ts`) | mistake count, tool counts | mistake limit, compaction | counters changed in many places | limits are reached and reset as documented |
| **Local router** `services/local-router` | health, cache with limits, breaker state | route, fall back, cache | stale health, eviction | a request goes to a healthy backend or fails |
| **Hooks, MCP, checkpoints, file tracking** | processes, connections, shadow repository | start, stop, time out | processes that outlive their owner | owned resources are released |
| **Locks** `core/locks` | SQLite rows | acquire, release | | no lock manager is ever installed here: every acquisition is skipped |
| **Providers, prompts, symbol index, plugins, tracing, webview, CLI** | mostly text and I/O | | | |

## Modules

| Module | Models | Composed with |
|---|---|---|
| `ChunkChannel` | abstract: what the agent loop expects of a stream | refined by `StreamCoordinator`, and by `AgentTurn` with it |
| `StreamCoordinator` | the pump and the consumer | extended by `AgentTurn` |
| `ReplyPresenter` | one reply: parsed, presented, its calls executed | extended by `AgentTurn` |
| `AgentTurn` | one turn of the agent loop over both | `StreamCoordinator`, `ReplyPresenter` |
| `TaskSession` (`MCTaskSession`) | Controller and Task coroutines | |
| `TaskMessages` | asks, says, the message list and its file | |
| `PendingTools` (`MCPendingTools`) | registry, notifier, handlers, teardown | |
| `CommandOutput` | one orchestrated command | |
| `Commands` | the executor and its terminals, several commands | |
| `ConversationHistory` | a task's history and deleted range | |
| `Subagents` | the runners of one `use_subagents` call | |
| `StatePersistence` | the write-behind cache, its files, watcher, restarts | |
| `SyncQueue` | queue, worker and blob store | |
| `RemoteCalls` | abstract: what the callers of a remote environment rely on | refined by `RemoteSession` |
| `RemoteEnvironment` | peer, pipe, daemon and children | extended by `RemoteSession` |
| `RemoteSession` (`MCRemoteSession`) | bootstrap, copies of the workspace, dispose | `RemoteEnvironment` |
| `*_proofs` | theorems about the module of that name; `StreamCoordinator_proofs` also about `AgentTurn`, `TaskSession_proofs` about `TaskMessages`, `PendingTools_proofs` about `Subagents`, `CommandOutput_proofs` about `RemoteEnvironment` and `RemoteSession` | |

In all of them one action is the code between two `await`s, or a whole synchronous
operation with the listeners it calls. The modules model the parts that interact on
the seams they share: `PendingTools` takes a command as a promise that `CommandOutput`
settles, `TaskSession` takes a turn as a step that `AgentTurn` opens up, and
`ConversationHistory` takes from a reply what `ReplyPresenter` makes of it.

### TaskSession

`call[c]` is the coroutine of a controller call: `op` says which method, `at` which
`await` it stands at, `target` the task it aborts. `phase[t]` is the await at which the
coroutine of Task object `t` stands. A task is a caller as well, for it
re-initialises its chat after a stream failure. A `Task` slot is used again when no
coroutine, timer or call can touch it: an object that is dropped while it waits for an
answer polls for ever and is never heard of again.

Choices to know about:
- After the `TaskCancel` hook, `abortTask` asks `resume_task` itself, which supersedes
  a pending ask of the task (`AskResumeOnAbort`). Without hooks nothing does.
  The setting is on by default, so `HooksEnabled` is `TRUE` but in one configuration.
- The wait of 3 s in `cancelTask` may end in any state: time is not modelled, and a
  task that hangs in an approval is exactly what the timeout is for.
- After a stream failure the task aborts itself; that abort is folded into
  `StreamError`, for nothing reads the state in between.
- Whether a task has saved messages is free (`Found` / `NotFound`).
- Only tool calls that need approval are modelled; locks are skipped, as in the code.
- `SerialSpec` is one call and one failure at a time: what holds there is what the
  code offers a user who waits for each click to take effect. `Spec` lets calls overlap.

### StreamCoordinator, ReplyPresenter, AgentTurn

The variables of `StreamCoordinator` are the fields of the class, plus where pump and
consumer stand. Chunks are numbered, so order and loss are visible. `ImplementsChannel`
is the refinement of `ChunkChannel`, with the mapping `sent <- produced`,
`received <- got`, and the outcome read off the consumer's place.

`ReplyPresenter` is what the loop does with a chunk. `text` is the list that
`parseAssistantMessageV2` makes of the text so far, `calls` the native calls, which the
code puts behind it in one list; `index` counts the blocks of that list that are done
with. A chunk replaces the text by any list the longer text can parse to: the open last
block has grown, was whole, or was only the beginning of a tag. A block of text may hold
calls written as text, which the presenter runs once the block is closed, in native mode
only as long as no native call has come. `handed` is a history of what the executor was
given whole, `told` what the model will be told of a native call, the first of it only,
as the result list drops a second result for the same call.

`AgentTurn` puts the two together: taking a chunk is `NextChunkReturns` of the
coordinator, then the chunk is parsed and presented while the pump goes on, and the
coordinator's consumer comes back (`ChunkHandled`) or stops the stream (`Interrupt`). At
the end all blocks are made whole and presented, and the loop polls until it is told
that nothing is left. An abort may come between any two steps.

The presentation lock and its pending flag are left out: only the loop presents and it
awaits each block, so no call finds the lock taken. Left out too: hooks and checkpoints
around a tool, what the messages show (`TaskMessages`), counts of mistakes.

### TaskMessages

The list of messages with one writer per coroutine: the agent's tool handlers call
`ask`, `say` and removals one at a time in any order; the cleanup of an abort reports
its hook and asks whether to resume; a background job announces its end without being
awaited. The lock is granted in the order of the calls (`queue`), and a removal takes no
part in it, as in the code. A message carries its writer in place of its text; `slot` is the one
response slot of the task. Two messages may or may not have the same millisecond
(`SameMillisecond`). Left out: the task history item, what is posted to the webview,
updates that find their message by their own search, and overwriting the whole list.

### PendingTools

`status` and `signal` are the fields of an entry, `io` its promise, `background` whether
the handler left it, `listener` and `notices` the notifier, `agent` the one tool call
of the task. Registry operations are synchronous and call their listeners, so
settling, announcing and waking a waiter are one step. A say while the agent waits for
an approval sets `superseded`, and the ask then throws. `get_tool_result` prunes old
entries, so a result nobody collects in time is dropped, which its error message says.
Messages are not modelled one by one (two "running" messages of different jobs merge
by type in the code), nor is a failing `updateMessage` before the fast path
settles, nor the test of `abort` inside the PreToolUse hook, which further awaits follow.

### CommandOutput and Commands

`CommandOutput` is one command in a standalone terminal and the function that
orchestrates it. A line is its number, so a log with a gap, a repetition or a swapped
line shows. Every await of a say, an ask or a timer lets other events in: more lines,
the end of the command, the time limit, an abort. Which lines make the output large
in bytes is left open. The logs' exceptions are named in the properties: lines that come
while a log has been decided on but is not open.

`Commands` has one entry per command and what they share: `currentProcess`, one cancel
flag, the abort signals, the manager's terminals with its map of processes, tracked
commands, and up to `MaxAborts` teardowns. A terminal is named after the command it was
created for. What orchestrates a command is one step here: it returns when the process
ends, is tracked or is continued.

Left out of both: VS Code terminals with shell integration, hot timers (they only delay),
environment variables, terminals of other directories.

### ConversationHistory

A history is a sequence of roles with what the properties tell apart: the calls a reply
makes and the calls a user message answers. `cut` is the end of the deleted range, which
always begins at the third message. A turn appends a user message, attempts the request
with a truncation before an attempt and after a context-window error, and appends the
reply; an abort may cut the turn anywhere, resumption repairs what it finds, a checkpoint
takes history and range back to a mark. Calls written as text run as soon as their block is
complete, with native calls or without. Left out: the replacement of file contents in old
messages, token arithmetic (each attempt may or may not be too long), histories of subagents.

### Subagents

Each runner has its own turns, attempts, empty replies and a timer that may
fire whenever it is armed. What a reply holds is the model's choice, per call only
whether it is an answer, a tool that runs or one refused at once. The handler polls for
the abort of the task and tells the runners. Left out: the approval, progress and
usage, skills, and what compaction removes.

### StatePersistence

`cache` stands for the caches, `data` for the stores' own copies, from which
they write whole files, `disk` for the files; a value is the number of the change that
made it. Keys are of three kinds by how they are written: `Plain` (global state,
written synchronously but only after the task history when that is pending too),
`Direct` (secrets and workspace state, as one store, written at once) and the task
history (its own file, asynchronously, watched). The loop of `persistGlobalStateBatch`
runs over the live set, so an entry added during its await is seen; which plain keys
come before the task history is free. `handle` is what `persistenceTimeout` points
to; `loose` counts armed timers it has forgotten, because a timer's callback ends
with `persistenceTimeout = null` even after a setter has armed a new timer.

`exposed` and `stranded` are history variables. A key is exposed when it is changed
while a write is under way, or its synchronous write fails silently: the code promises
nothing for it until it is changed again. `stranded` says that a write failed when no
timer was left, so nothing happens until the next setter.

Left out: contents of task settings and task switching, session overrides, remote
configuration, model caches, `reInitialize`. The removal of `taskHistory.json` is
an external write. The path look-up in `writeTaskHistoryToState` belongs to the
start of the write.

### SyncQueue

A save writes a conversation and queues it; a worker takes a batch of the queue at each
interval and uploads; the queue is written to its file 100 ms after a change, and read
from it at the next start. Contents are the number of the save that made them. Since
`store()` logs the error of a failed upload and resolves, an item has one status: what
fails is marked synced and removed. A backfill that reads while dispose closes the queue
enqueues on the closed instance, whose own timer writes the file once more (`closed`,
`late`). The ways to lose a version (a failed upload, an eviction, a save during the
upload, an older version from a backfill, an exit before the file was written) are
recorded in `excused`, and `Accounted` says that there are no others. An upload may take a
copy back to an older version: with an item that an exit or a failed dispose left in the
file when what had replaced it was not there, or with what a backfill enqueued. These
items are recorded in `stale`, and `RemoteMovesForward` says that no other upload does.
Left out: `markFailed` and the retry
counts, which nothing reaches; events; several windows on one file.

### RemoteEnvironment and RemoteSession

`RemoteEnvironment` has the requests of the client, one ordered stream of frames in each
direction, and the daemon with its children, whose process may end at any time.
`RemoteSession` extends it with the session on an ssh host: the bootstrap, push and
manifest before the first call, and dispose with the comparison, pull and cleanup. The
user may edit the local files at any time; the content of a file is its origin (seeded, an
edit, a write of the task). `MCRemoteSession` gives each operation its file. A step that
copies is one action with the outcomes the code can see. A file that cannot be read is
missing from the manifest, and counts as unchanged when dispose compares, so that the pull
may overwrite it; a comparison that fails skips the pull and not the cleanup. Left out: `exec` and stdin (no
caller), the garbage collection of old workspaces, deletions, the decoder of frames.
`DockerSession` is the same session without the copies.

`RemoteCalls` is what callers rely on, without pipe, peer or steps of the session: a
request is done once at most and only if it was made, an answer comes when it is done
and behind all output of the command, and what was given up is never answered. The
session implements it (`ImplementsCalls`) with `fate <- call` and `work <- Doing`, where
a child that was killed counts as running until it has closed, because it may
write until then.

## Runs

| Run | Shows | Bounds, and why they are enough |
|---|---|---|
| `turn` | each call of a reply runs once, none starts after a rejection or an abort, none is left without an answer; the stream under it is an ordered channel, read to its end behind a waiting tool; if tools return, the turn ends | 4 chunks and 1 usage chunk, 3 blocks, 2 native calls, 2 calls in a text: a text before and after a closed one, a call before and after another, a call taken while the first is shown |
| `task_serial` | with one call at a time: one worker, the current one; an abandoned task leaves the screen; no tool starts in a replaced task; each cancellation ends; automatic retries end | 2 Task slots, 1 user, 1 retry: a task being dropped and its successor; a third never lives beside them |
| `task_timer` | violation: see Finding | small: the shortest counterexample is wanted |
| `messages` | an ask returns only an answer given while it was the last message; asks end; the file follows the list | 3 messages, 1 job, 1 click: an ask, one that overtakes it, and a job's say between them |
| `pending_tools` | entries are announced once and leave "running"; a waiting `get_tool_result` is told | 3 jobs: one handled, one in the background, one waited for or pruned |
| `command_output` | logs miss and repeat no line but the named ones; the agent is answered | 7 lines, a chunk of 2, a log after 2, 1 line kept: two chunks before the log, lines while it opens, after it and in the background |
| `commands` | no command that started later is reported cancelled; a teardown leaves only displaced ones; tracked commands end, but for a displaced one whose limit a teardown disarmed | 2 commands, one with a signal and one interactive, 2 teardowns: two in one terminal, a teardown before and after |
| `conversation` | each request alternates, answers its calls and ends with the latest message; no result without its call; deletions last; requests settle | 8 messages, 1 mark, 1 reply that leaves no message, 1 retry: three truncations on top of each other with an odd rest; 10 messages pass too (by hand) |
| `subagents` | one request at most after an abort; `max_turns` bounds the replies; runs end | 1 runner (runners share only the poll and the registry), 2 turns or no limit, 2 empty replies, 3 attempts, 2 calls |
| `state_persistence` | no unraced change is forgotten; pending changes get written | one key of each kind, 2 overlapping calls of `persistPendingState`, 2 changes, failing writes |
| `sync_queue` | the last version is remote, queued or let go in a named way; only items left in the file under what replaced them, or enqueued by a backfill, take a copy back; the queue empties; dispose ends | 2 conversations, 2 saves, 2 starts, a queue of 1, batches of 1, backfill of one: eviction, a save during an upload, a restart from an old file |
| `remote` | callers find the environment as `RemoteCalls` promises it; requests sent before the transport closed end; the user's edits during the session, where the detection could read them, and the remote work survive | 1 file operation, 1 command, 1 chunk, 1 file, 1 edit: before, in or between the gaps of the copies (the proofs and a run by hand with 2 edits cover a second) |

Retries are bounded by `MaxRetry`, 1 in the runs and 3 in the code; with 2 the
serial run passes too, and so it does with `HooksEnabled = FALSE`, but for
`OrphanRunsNoTool`. Runs with liveness use no symmetry. `CHECK_DEADLOCK FALSE` is set
where the system stops: a reply ends, a torn-down task starts no more tools, a bound of
saves, messages or turns is reached.

### Fairness

- `AgentTurn`: the provider answers each read, and the loop goes on (`FairTurn`). That
  tools return is a hypothesis of `TurnEnds` only: a tool may sit in an approval for ever,
  and the other properties must hold then. While a provider is silent the loop does not
  see `abort`.
- `TaskSession`: awaits of the controller and of tasks return, timers fire. The
  user need not do anything. `RetriesEnd` excepts runs in which the user or completed
  turns start new chains for ever.
- `TaskMessages`: saves end, polls and microtasks run; the user need not answer.
- `PendingTools`: promises settle (commands have timeouts) and callbacks run; the user
  need not answer.
- `CommandOutput`: says return, the time limit and the settling of the process fire; the
  user need not answer. `Commands`: the hard limit passes, a killed process ends, execute
  replies; a command need not end by itself.
- `ConversationHistory`: the provider answers attempts, delays end.
- `Subagents`: streams end or fail, delays pass, timers fire; that tools return is a
  hypothesis of `RunsEnd`.
- `StatePersistence`: timers fire, file operations end, the watcher reports. Timers have
  strong fairness only because the calls of `persistPendingState` have slots here,
  which flushes could take for ever; in the code a timer waits for no slot.
- `SyncQueue`: timers fire, requests and file operations return, well or badly.
- `RemoteSession`: frames arrive, file operations and copies return, exits are noticed,
  killed processes end; a running command may never end.

## Proofs

TLAPS proves for all values of the constants:

| Theorem | Argument |
|---|---|
| `StreamCoordinator_proofs`: `TypeCorrect`, `WakeupsAreNotLost`, `CoordinatorIsAChannel` | the queue always holds exactly the numbers `got+1 .. produced` in order, `completed` is the pump being done, an armed resolver implies an empty queue of an open stream; under it each step maps to a step of `ChunkChannel` or a stutter |
| the same module, of `AgentTurn`: `TurnUsesTheStream`, `TurnReadsAChannel`, `NoToolAfterStop`, `CallsRunOnce` | every step of a turn is a step of the coordinator or leaves it alone, so a turn is one of its behaviours and inherits the refinement; only `HandOver` and `NextXml` start a tool, and both test abort and rejection in the same stretch; for `CallsRunOnce` the invariant `TurnIInv` says that what was handed over lies behind the index (native calls by the index alone, calls of a text by the block and the number `xml`), that every native call the index has passed was handed over and answered for, and that `ready` is set only with the index past the end; parsing the reply anew moves the index only while nothing native was handed over |
| `TaskSession_proofs`: `TypeCorrect`, `CancelIsExclusive`, `AbandonedLeavesScreen` | for overlapping calls: strengthened with which call stands where (`CallShape`): only a cancellation waits, only a cancellation or a re-initialisation looks a task up, and a task's own call is its re-initialisation |
| `TaskSession_proofs`: `WorkersAreCurrent`, `OneTaskWorks`, `OrphansRunNoTool` | for serial calls (`SerialInv`): at most one call is busy, a call in `abortTask` targets the current task, `clearTask` drops only a doomed one, and every task but the current one is doomed: aborted, not yet restored, dead, or at an unanswered question whether to resume |
| the same module, of `TaskMessages`: `MessagesTypeCorrect`, `SavesAreExclusive`, `FileHoldsTheList`, `AnswersReturnFresh` | every caller but the one in the lock is queued once, and as long as the last save has not failed, a list that differs from the file belongs to somebody who is in the lock or waits for it; for the answers, a time names one message (`IdsOK`), two asks at most wait and a message with the time of an ask is that ask (`AsksOK`), and an ask that is still the last message finds the answer to it in the slot, or none (`SlotOK`). `AnswersReturnFresh` has the hypothesis `~SameMillisecond`, without which it is false (`MCMessagesSame`) |
| `PendingTools_proofs`: `TypeCorrect`, `AnnouncementsAreExact`, `WaiterIsNeverMissed`, `EntriesSettleOnce` | per job, status, promise, listener and number of notices determine one another (`JobShape`); the action property follows step by step from the same invariant |
| the same module, of `Subagents`: `AgentsTypeCorrect`, `AbortEndsRequests`, `RepliesAreBounded` | each turn that was paid for allows a fixed number of empty replies: a runner's replies are at most those of the turns it has paid for and the empty ones of the current turn (`Paid`); of all places only the delay of a retry ends in a request after the abort, and no delay begins after it (`Obeys`) |
| `CommandOutput_proofs`: `TypeCorrect`, `LogHasEveryLine`, `BackgroundLogHasEveryLine` | what is in the log, in the buffer that waits for it and in the tracker are adjacent stretches of the lines, whose ends the invariant names for each state of the log |
| the same module, of `RemoteSession` with `RemoteEnvironment`: `RemoteTypeCorrect`, `OutputComesWhole`, `EditsOutliveTheSession`, `WorkIsPulled`, `WorkspaceIsKept`, `NobodyWaitsAfterDispose` | what a command has written is what its caller was given and the chunks on the way (`NoOutputLost`, by counting frames of the stream), and no output comes behind its response (`LastWord`); for the copies, which version each of the manifest, the host and the local file can hold at each stage (`StageOK`, `EditsOK`, `WorkOK`). All for one session on its directory |
| the same module: `SessionKeepsItsPromise` | the refinement of `RemoteCalls`, one step per action: steps of the daemon and its children map to `Issue`, `Advance`, `Write`, `Deliver`, `Answer`, the ends of pipe and session to `GiveUp`, kills and copies to a stutter; that a delivered chunk was written, and that an answer finds its work done and all output read, comes from the invariant |
| `Commands_proofs`: `TypeCorrect`, `BusyTerminalsRun`, `CancelledWereAtWork`, `TeardownLeavesOnlyDisplaced` | a busy terminal's command runs and is in the map of processes unless it was displaced; a cancelled command has begun before the last cancellation |
| `ConversationHistory_proofs`: `TypeCorrect`, `RequestsAreConversations`, `RequestsEndWithTheLatest`, `RequestsAnswerTheirCalls`, `RetriesSendLess`, `DeletionsLast`, `WholePairsAreLeftOut`, `MessagesAreSentOnce` | the history alternates while every reply left a message, a message carries its place, the pending calls are those of the last reply, the cut ends on a pair inside the history (`CutFits`), and marks are earlier such states (`MarksFit`); `RetriesSendLess` is arithmetic on the truncation range; that no message is sent twice holds once the cut is behind the first pair, and can fail below it (`MCConversationFirst`) |
| `StatePersistence_proofs`: `TypeCorrect`, `UnracedChangesAreDurable`, `PendingStaysScheduled` | an overlapping call may collect a plain value long before it stores it, so the invariant says what calls hold is the cached value unless the key is exposed, that what a call has passed is on its way or in the file, that store and file agree for unexposed keys, and that the cached task history is in the file, pending, or about to be replaced by the watcher |
| `SyncQueue_proofs`: `TypeCorrect`, `VersionsAreAccountedFor`, `UnsavedStaysScheduled`, `OnlyStaleItemsGoBack` | no place holds a version newer than the latest, and a conversation that is in none of queue, file and blob store with its last version is excused (`IInv`, which also says what a closed instance may write: `ClosedIsSaved`); a conversation has one item in each of queue, file and batch (`OneEach`), and an item that is not stale is not older than the remote copy (`AllFresh`) |

The assumptions are those named in the modules: model values are distinct, bounds
are natural numbers. Properties that are proved and no longer part of a run:
`CancelIsExclusive`, `OneTaskWorks`, `EntriesSettleOnce`, `UnsavedStaysScheduled`,
`RetriesSendLess`, `BusyTerminalsRun`, `WakeupsAreNotLost`, `PendingStaysScheduled`,
`OutputIsWhole`. Stated and proved without a run: `SavesAreExclusive`,
`WholePairsAreLeftOut`, `MessagesAreSentOnce`, `NobodyWaitsAfterDispose`, and
`WorkspaceIsKept` for one session on a directory (two break it, `MCRemoteShared`).

Every invariant and every action property of the passing runs is stated by one of these
theorems, and so are both refinements. The theorems are about the
specifications of the runs without their fairness (`Spec`, `SerialSpec`, `TurnSpec`,
`MessagesSpec`, `AgentsSpec`, `RemoteSpec`), which those with fairness imply.

Only model-checked: everything under fairness (`CancelReleases`, `RetriesEnd`,
`ReadToEndWithoutConsumer`, `TurnEnds`, `EveryJobSettles`, `Drains`, `DisposeEnds`,
`Answers`, `TrackedEnds`, `RequestSettles`, `CallsEnd`, `AsksSettle`, `RunsEnd`), which is
out of the prover's reach, as are `ENABLED` and induction over data.

## Finding

`task_timer`: the auto-retry timer answers "yes" to whatever ask is pending when it
fires, a tool approval included (`AgentLoopRunner.ts:526`), although the documentation
says that approval is manual by default.

### Configurations run by hand

Each is violated unless it says otherwise. They show where the properties of the runs
stop, and cost the regular runs nothing.

| Configuration | Property | What the counterexample shows |
|---|---|---|
| `MCTaskDropped` | `WorkerIsCurrent` | with overlapping calls: `resumeTaskFromHistory` sets `abort = false` after awaits (`LifecycleManager.ts:259`); a task that `clearTask` aborts meanwhile comes back to life |
| `MCTaskLaunchRace` | `NoTaskAtLaunch` | two `initTask` calls both pass `clearTask`; the second replaces a task that runs (`controller/index.ts:188`) |
| `MCTaskHooksOff` | `OrphanRunsNoTool` | with hooks off a tool approved after the abort runs in the cancelled task (`ToolHookUtils.ts:27`) |
| `MCTaskConcurrent` | `AbandonedOnlyInCancel` | passes: the serial property also with overlapping calls (proved too) |
| `MCTurnClaims` | `OneChannel` | calls written as text have run before the first native call of the same reply comes, so both run (`ResponseProcessor.ts:228`) |
| | `PartialTellsNothing` | a preview that throws reports an error to the model, and the result of the complete call is dropped as a duplicate (`ToolExecutor.ts:484`, against its comment at 627) |
| | `TextIsShownWhole` | a native call ends the presentation of an open text: its message keeps the partial mark (`ResponseProcessor.ts:386`) |
| `MCPendingOutlive` | `JobsDieWithTask` | a job registered after `cancelAll` outlives its task (`task/index.ts:607`) |
| `MCPendingApproval` | `ApprovalWaitsForUser` | the announcement of a job ends a pending approval (`AsyncToolNotifier.ts:106`) |
| `MCMessagesClaims` | `CompleteStays` | an update by an index found before an await hits another message (`message-state.ts:267`) |
| | `AnswersAreMeant` | an answer on its way is read by the ask that came meanwhile |
| | `RunningIsShown` | the cleanup of partial messages removes a job's "running" message |
| `MCMessagesSame` | `AnswersAreFresh` | two messages sent in one millisecond have one id: an ask that was overtaken does not notice, and takes the other's answer |
| `MCCommandLost` | `FullOutputSaved` | lines that come while the log is opened are not in the "full" output (`CommandOrchestrator.ts:277`) |
| `MCCommandsOutlive` | `JobsDieWithTask` | a signal that fires before the listener is attached stops nothing (`CommandExecutor.ts:137`) |
| `MCCommandsZombie` | `NoZombies` | a teardown disarms the ten-minute limit of a tracked command and does not kill it, if another call was given its terminal: it runs on, against "10-minute hard timeout to prevent zombie processes" (`StandaloneTerminalManager.ts:11` and 443) |
| `MCConversationFirst` | `SentOnce` | a history of one message is truncated to a range that ends before it begins, and the message is sent twice (`ContextManager.ts:211`) |
| `MCSubagentsClaims` | `TimeIsLimited`, `OnlyWholeReplies`, `AgentJobsDie`, `AbortedRunsNoTool`, `FindingsAreKept` | the time limit is noticed late; broken replies are executed after a retry; background jobs of a subagent are cancelled by nobody; tools run on after the abort; a timeout in the last chance loses the findings |
| `MCStateLost` | `ClearedWhenWritten` | pending keys are cleared after the await, with keys set meanwhile (`StateManager.ts:670`) |
| `MCSyncQueueBack` | `CopiesNeverGoBack` | a process ends after an upload and before the queue is written: the next one uploads the older item of the file (`queue.ts:116`); with a backfill, its older contents (`backfill.ts:101`) |
| `MCRemoteEdits` | `EditsSurvive` | an edit in the gaps of the manifest, or in a file the detection cannot read, is overwritten by the pull |
| `MCRemoteHang` | `NoCallHangs` | a request after the daemon's exit was noticed never ends (`RpcPeer.ts:31`), that of dispose included |
| `MCRemoteShared` | `WorkspaceIsOwn` | two tasks of a process share the remote directory: the second's push removes the first's work |

### Observed while reading, not checked

- Tasks: a rejected or unknown native call gets no `tool_result` from the executor, and
  `ContextManager` adds one; what the presentation throws in mid-stream is only logged; the
  poll for `userMessageContentReady` (`AgentLoopRunner.ts:593`) tests no abort.
- Background tools: "running" messages of two jobs merge by type; the fast path of
  `execute_command` awaits `updateMessage` before it settles its entry.
- Commands: the VS Code terminal manager is never disposed of; the registry reuses ids
  after a teardown; `skippedLines` can be negative.
- Conversations: an empty reply of native mode leaves no message, so that two user messages
  follow each other (`HistoryAlternates`, against `ContextManager.ts:221`); resuming may
  overwrite the last user message; history and task history are written one after the other.
- Subagents: a request is sent after an abort that falls into a retry's delay;
  `activeCommandExecutions` never rises, so the abort cancels no command; emitting the
  status of an aborted run throws; text mode parses no calls.
- Remote: nothing disposes of a task's environment (`TaskFactory.ts:418`); dispose cleans
  up after a failed pull; the daemon ignores `timeoutSeconds`; killing a shell leaves its
  children; output may be split inside a UTF-8 character; old workspaces are removed by
  their modification time.
- Storage: one queue file and one set of state files serve several windows, each writing
  whole files from its own copy; a failed flush of the queue is not armed again
  (`queue.ts:137`).

## Not modelled

- **Providers, prompts, tool handlers, symbol index, memory, plugins, tracing**: text, network
  and file I/O with little control state. A provider is a stream that yields, ends or
  throws, a tool handler something that returns, throws, asks or starts a job.
- **Webview, CLI, hosts**: user interfaces and adapters; the user's calls and
  answers are actions of `TaskSession`, `TaskMessages` and `Commands`.
- **Locks**: not reachable, no lock manager is installed.
- **Task assembly and task files**: construction, delegation and plain I/O.
- **Hooks, MCP, checkpoints, file tracking, local router**: planned below. What they do to
  the modelled parts is in the models: a hook may abort a task or reorder messages, a
  restored checkpoint takes a history back.
- **Agent loop bookkeeping**: the counts of mistakes, of tool calls and of empty replies.

These are most of the repository's lines; what is modelled is where coroutines,
timers, processes and files meet.

## Plan

In this order:

1. Proofs: abstract specifications of `StatePersistence` (a map whose file may lag) and of
   `SyncQueue` (a remote copy that may lag or be let go), refined as `ChunkChannel` and
   `RemoteCalls` are; what `TaskMessages` still guarantees with two messages in one
   millisecond; the pull of a second session on one directory, which `SharedSpec` does
   not have yet, and the edits that survive it.
2. **TaskSettings**: task settings and their switch between tasks, two windows on
   the same files; composes with `StatePersistence`. The two hazards without a property
   wait for it.
3. **AgentLoop**: mistake counting, compaction, empty replies, over `AgentTurn` and
   `ConversationHistory`.
4. **LocalRouter**: health, breaker, response cache at its limit.
5. **Hooks**, **MCP**, **file tracking**, **checkpoints**: life cycles of what they own.

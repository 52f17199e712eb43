----------------------------- MODULE TaskMessages ------------------------------
(***************************************************************************)
(* The messages of a task on screen: TaskMessenger's ask, say and removal  *)
(* over MessageStateHandler's list, its lock and its file, with the slot   *)
(* an answer of the user is put in.                                        *)
(*                                                                         *)
(* The agent's tool handlers call them one at a time, in any order; the    *)
(* cleanup of an abort reports its hook and asks whether to resume; each   *)
(* background job announces its end through AsyncToolNotifier.  A message  *)
(* carries its writer in place of its text.  Left out: the task history    *)
(* (updated after the lock is released, awaited), what is posted to the    *)
(* webview, and updates that name a message by their own search (request   *)
(* costs, checkpoints, command output).  The wait of p-wait-for and the    *)
(* lock of p-mutex are external: the lock is granted in the order of the   *)
(* calls, and each resumes in a later microtask.                           *)
(***************************************************************************)
EXTENDS Naturals, Sequences, SequencesExt

CONSTANTS Agent, Cleanup, Jobs,
          Empty,            \* undefined: no answer, no text
          MaxMessages,      \* bound on the messages sent
          MaxClicks,        \* bound on the user's answers
          SameMillisecond   \* two messages may get the same Date.now()

ASSUME MessagesAssumption == /\ Agent # Cleanup /\ {Agent, Cleanup} \cap Jobs = {}
                             /\ Empty \notin Jobs \cup {Agent, Cleanup}
                             /\ Empty \notin [at : 0..MaxMessages, for : 0..MaxMessages]
                             /\ MaxMessages \in Nat /\ MaxClicks \in Nat
                             /\ SameMillisecond \in BOOLEAN

Actors == {Agent, Cleanup} \cup Jobs

VARIABLES msgs,     \* isaacMessages
          disk,     \* ui_messages.json
          saving,   \* what the save under way has taken
          unsaved,  \* history variable: the last save has failed
          queue,    \* callers of withStateLock, the one inside first
          pc,       \* where the call of each actor is
          op,       \* what it does under the lock
          askTs,    \* the ask it is in
          last,     \* lastMessageTs
          slot,     \* askResponse, with the message that was the last then and the one it is for
          click,    \* the ask the user has answered, the answer under way
          clicks,   \* answers so far
          clock,    \* Date.now()
          sent,     \* messages sent
          job,      \* where each job is
          aborted   \* taskState.abort

list == <<msgs, disk, saving, unsaved>>
calls == <<queue, pc, op, askTs>>
answer == <<last, slot>>
user == <<click, clicks>>
time == <<clock, sent>>
messageVars == <<list, calls, answer, user, time, job, aborted>>

Kinds == {"ask", "say"}
Types == {"tool", "text", "hook", "resume"}
Modes == {"whole", "partial", "complete"}   \* partial is undefined, true, false
Times == 0..MaxMessages
Texts == Actors
Messages == [ts : Times, kind : Kinds, type : Types, partial : BOOLEAN, text : Texts]

\* next is where the caller goes on when the lock is released.
NoCall == [do |-> "none", next |-> "idle"]

MessagesTypeOK == /\ {msgs, disk, saving} \subseteq Seq(Messages) /\ unsaved \in BOOLEAN
                  /\ queue \in Seq(Actors) /\ IsInjective(queue)
                  /\ pc \in [Actors -> {"idle", "queued", "saving", "waiting", "noticed", "reorder",
                                        "readd", "listen"}]
                  /\ \A a \in Actors : op[a].do \in {"none", "add", "update", "delete", "save"}
                  /\ askTs \in [Actors -> Times] /\ last \in Times
                  /\ (slot = Empty \/ slot \in [at : Times, for : Times])
                  /\ click \in Times /\ clicks \in 0..MaxClicks
                  /\ clock \in Times /\ sent \in Times
                  /\ job \in [Jobs -> {"none", "starting", "running", "over"}]
                  /\ aborted \in BOOLEAN

MessagesInit == /\ msgs = <<>> /\ disk = <<>> /\ saving = <<>> /\ unsaved = FALSE
                /\ queue = <<>> /\ pc = [a \in Actors |-> "idle"]
                /\ op = [a \in Actors |-> NoCall] /\ askTs = [a \in Actors |-> 0]
                /\ last = 0 /\ slot = Empty /\ click = 0 /\ clicks = 0
                /\ clock = 0 /\ sent = 0
                /\ job = [j \in Jobs |-> "none"] /\ aborted = FALSE

-----------------------------------------------------------------------------
\* The last of these messages, or 0.
LastOf(indices) == IF indices = {} THEN 0 ELSE Max(indices)

LastPartial(kind, type) ==
    LastOf({i \in DOMAIN msgs : msgs[i].partial /\ msgs[i].kind = kind /\ msgs[i].type = type})

\* Only resume asks and the messages of hooks are let through after an abort.
Allowed(type) == aborted => type \in {"resume", "hook"}

Lock(a, o) == /\ queue' = Append(queue, a)
              /\ pc' = [pc EXCEPT ![a] = "queued"]
              /\ op' = [op EXCEPT ![a] = o]

\* Mutant: an answer given to an earlier ask stays in the slot.
AsksKeepSlot(a, kind, mode, ts) ==
    /\ askTs' = [askTs EXCEPT ![a] = IF kind = "ask" /\ mode # "partial" THEN ts ELSE @]
    /\ UNCHANGED slot

\* An ask in full empties the slot and will wait; what a partial one returns nobody uses.
Asks(a, kind, mode, ts) ==
    IF kind = "ask" /\ mode # "partial"
    THEN slot' = Empty /\ askTs' = [askTs EXCEPT ![a] = ts]
    ELSE UNCHANGED <<slot, askTs>>

\* A message that continues no partial one becomes the last one and is added.
SendNew(a, kind, type, mode, text, next) ==
    /\ Allowed(type)
    /\ mode = "whole" \/ LastPartial(kind, type) = 0
    /\ sent < MaxMessages /\ sent' = sent + 1
    /\ clock' \in {clock + 1} \cup (IF SameMillisecond /\ clock > 0 THEN {clock} ELSE {})
    /\ last' = clock'
    /\ Asks(a, kind, mode, clock')
    /\ Lock(a, [do |-> "add", next |-> next,
                message |-> [ts |-> clock', kind |-> kind, type |-> type,
                             partial |-> mode = "partial", text |-> text]])
    /\ UNCHANGED <<list, user, aborted>>

\* One that does updates the message found before the lock is taken; complete, that is the
\* last message from now on.
SendUpdate(a, kind, type, mode, text, next) ==
    /\ Allowed(type)
    /\ mode # "whole"
    /\ LET index == LastPartial(kind, type)
       IN  /\ index # 0
           /\ last' = IF mode = "complete" THEN msgs[index].ts ELSE last
           /\ Asks(a, kind, mode, msgs[index].ts)
           /\ Lock(a, [do |-> "update", next |-> next, index |-> index,
                       partial |-> mode = "partial", text |-> text])
    /\ UNCHANGED <<list, time, user, aborted>>

Send(a, kind, type, mode, text, next) == \/ SendNew(a, kind, type, mode, text, next)
                                         \/ SendUpdate(a, kind, type, mode, text, next)

-----------------------------------------------------------------------------
\* The agent shows a tool call while it streams, asks or reports it when complete, says or
\* asks something in between.
Speak == /\ pc[Agent] = "idle"
         /\ \E kind \in Kinds, mode \in Modes :
               Send(Agent, kind, IF mode = "whole" THEN "text" ELSE "tool", mode, Agent,
                    IF kind = "ask" /\ mode # "partial" THEN "waiting" ELSE "idle")
         /\ UNCHANGED job

\* Mutant: the list is set and not saved.
RemoveUnsaved == /\ pc[Agent] = "idle"
                 /\ \E i \in DOMAIN msgs : msgs[i].type = "tool" /\ msgs' = RemoveAt(msgs, i)
                 /\ UNCHANGED <<disk, saving, unsaved, calls, answer, user, time, job, aborted>>

\* removeLastPartialMessageIfExistsWithType sets the list without the lock, and saves under it.
RemoveLast == /\ pc[Agent] = "idle"
              /\ \E kind \in Kinds, onlyPartial \in BOOLEAN :
                    LET index == LastOf({i \in DOMAIN msgs : /\ onlyPartial => msgs[i].partial
                                                            /\ msgs[i].kind = kind
                                                            /\ msgs[i].type = "tool"})
                    IN  index # 0 /\ msgs' = RemoveAt(msgs, index)
              /\ Lock(Agent, [do |-> "save", next |-> "idle"])
              /\ UNCHANGED <<disk, saving, unsaved, askTs, answer, user, time, job, aborted>>

\* A PreToolUse hook reports itself, then moves the last tool message behind its report.
ReportHook == /\ pc[Agent] = "idle"
              /\ Send(Agent, "say", "hook", "whole", Agent, "reorder")
              /\ UNCHANGED job

ToolBeforeHook ==
    LET index == LastOf({i \in DOMAIN msgs : msgs[i].type = "tool"})
    IN  IF \E i \in DOMAIN msgs : i > index /\ msgs[i].type = "hook" THEN index ELSE 0

Reorder ==
    /\ pc[Agent] = "reorder"
    /\ IF ToolBeforeHook = 0
       THEN pc' = [pc EXCEPT ![Agent] = "idle"] /\ UNCHANGED <<queue, op>>
       ELSE Lock(Agent, [do |-> "delete", next |-> "readd", index |-> ToolBeforeHook,
                         message |-> msgs[ToolBeforeHook]])
    /\ UNCHANGED <<list, askTs, answer, user, time, job, aborted>>

ReAdd == /\ pc[Agent] = "readd"
         /\ Lock(Agent, [do |-> "add", next |-> "idle", message |-> op[Agent].message])
         /\ UNCHANGED <<list, askTs, answer, user, time, job, aborted>>

\* A handler announces its job before it listens to its end; a failure is only logged.
Announce(j) == /\ pc[Agent] = "idle" /\ job[j] = "none"
               /\ Send(Agent, "say", "tool", "partial", j, "listen")
               /\ job' = [job EXCEPT ![j] = "starting"]

Listen(j) == /\ pc[Agent] = "listen" /\ job[j] = "starting"
             /\ pc' = [pc EXCEPT ![Agent] = "idle"]
             /\ job' = [job EXCEPT ![j] = "running"]
             /\ UNCHANGED <<list, queue, op, askTs, answer, user, time, aborted>>

\* The end of a job: said whatever the agent is at, lost after an abort.
JobEnds(j) == /\ job[j] = "running" /\ job' = [job EXCEPT ![j] = "over"]
              /\ \/ Send(j, "say", "tool", "complete", j, "idle")
                 \/ ~Allowed("tool") /\ UNCHANGED <<list, calls, answer, user, time, aborted>>

Abort == /\ ~aborted /\ aborted' = TRUE
         /\ UNCHANGED <<list, calls, answer, user, time, job>>

\* The TaskCancel hook reports itself, then the user is asked whether to resume.
CleanUp == /\ aborted /\ pc[Cleanup] = "idle" /\ askTs[Cleanup] = 0
           /\ \/ Send(Cleanup, "say", "hook", "whole", Cleanup, "idle")
              \/ Send(Cleanup, "ask", "resume", "whole", Cleanup, "waiting")
           /\ UNCHANGED job

-----------------------------------------------------------------------------
\* Under the lock: an index is tested against the list as it is now.
Within(a) == op[a].do \in {"update", "delete"} => op[a].index \in DOMAIN msgs

Changed(o) ==
    CASE o.do = "add"    -> Append(msgs, o.message)
      [] o.do = "update" -> [msgs EXCEPT ![o.index].text = o.text, ![o.index].partial = o.partial]
      [] o.do = "delete" -> RemoveAt(msgs, o.index)
      [] o.do = "save"   -> msgs

Turn(a) == pc[a] = "queued" /\ Head(queue) = a

Apply(a) == /\ Turn(a) /\ Within(a)
            /\ msgs' = Changed(op[a]) /\ saving' = msgs'
            /\ pc' = [pc EXCEPT ![a] = "saving"]
            /\ UNCHANGED <<disk, unsaved, queue, op, askTs, answer, user, time, job, aborted>>

Reject(a) == /\ Turn(a) /\ ~Within(a)
             /\ queue' = Tail(queue)
             /\ pc' = [pc EXCEPT ![a] = IF op[a].next = "listen" THEN "listen" ELSE "idle"]
             /\ op' = [op EXCEPT ![a] = NoCall]
             /\ UNCHANGED <<list, askTs, answer, user, time, job, aborted>>

\* The file is replaced, or the failure logged; the lock is released.
Saved(a) == /\ pc[a] = "saving"
            /\ \/ disk' = saving /\ unsaved' = FALSE
               \/ disk' = disk /\ unsaved' = TRUE
            /\ saving' = <<>>
            /\ queue' = Tail(queue)
            /\ pc' = [pc EXCEPT ![a] = op[a].next]
            /\ op' = [op EXCEPT ![a] = IF op[a].next = "readd" THEN op[a] ELSE NoCall]
            /\ UNCHANGED <<msgs, askTs, answer, user, time, job, aborted>>

-----------------------------------------------------------------------------
\* The user answers the ask shown last; the answer arrives later, whatever is shown then.
Click == /\ click = 0 /\ clicks < MaxClicks
         /\ msgs # <<>> /\ Last(msgs).kind = "ask" /\ ~Last(msgs).partial
         /\ click' = Last(msgs).ts /\ clicks' = clicks + 1
         /\ UNCHANGED <<list, calls, answer, time, job, aborted>>

Deliver == /\ click # 0
           /\ slot' = [at |-> last, for |-> click] /\ click' = 0
           /\ UNCHANGED <<list, calls, last, clicks, time, job, aborted>>

\* Mutant: only an answer ends the wait.
PollAnswer(a) == /\ pc[a] = "waiting" /\ slot # Empty
                 /\ pc' = [pc EXCEPT ![a] = "noticed"]
                 /\ UNCHANGED <<list, queue, op, askTs, answer, user, time, job, aborted>>

Poll(a) == /\ pc[a] = "waiting" /\ (slot # Empty \/ last # askTs[a])
           /\ pc' = [pc EXCEPT ![a] = "noticed"]
           /\ UNCHANGED <<list, queue, op, askTs, answer, user, time, job, aborted>>

\* Another message has become the last one: the ask throws "Current ask promise was ignored".
Ignored(a) == /\ pc[a] = "noticed" /\ last # askTs[a]
              /\ pc' = [pc EXCEPT ![a] = "idle"]
              /\ UNCHANGED <<list, queue, op, askTs, answer, user, time, job, aborted>>

Answered(a) == /\ pc[a] = "noticed" /\ last = askTs[a]
               /\ slot' = Empty
               /\ pc' = [pc EXCEPT ![a] = "idle"]
               /\ UNCHANGED <<list, queue, op, askTs, last, user, time, job, aborted>>

Progress(a) == Apply(a) \/ Reject(a) \/ Saved(a) \/ Poll(a) \/ Ignored(a) \/ Answered(a)

MessagesNext == \/ Speak \/ RemoveLast \/ ReportHook \/ Reorder \/ ReAdd \/ Abort \/ CleanUp
                \/ Click \/ Deliver
                \/ \E j \in Jobs : Announce(j) \/ Listen(j) \/ JobEnds(j)
                \/ \E a \in Actors : Progress(a)

MessagesSpec == MessagesInit /\ [][MessagesNext]_messageVars

\* Saves end one way or the other, and pending polls and microtasks run.
FairMessages ==
  /\ MessagesSpec
  /\ WF_messageVars(Reorder) /\ WF_messageVars(ReAdd) /\ \A j \in Jobs : WF_messageVars(Listen(j))
  /\ \A a \in Actors : WF_messageVars(Progress(a))

-----------------------------------------------------------------------------
\* An ask returns only what the user sent while that ask was the last message
\* (TaskMessenger.ts:157-181): neither an older answer left in the slot nor one
\* that came after another message.
AnswersAreFresh ==
    [][\A a \in Actors : Answered(a) => slot # Empty /\ slot.at = askTs[a]]_messageVars

\* Whenever no operation is under way and the last save has not failed, the file
\* holds the list as it is (message-state.ts:227-325, TaskMessenger.ts:371-376).
DiskFollows == queue = <<>> /\ ~unsaved => disk = msgs

\* An ask that has an answer, or is no longer the last message, ends
\* (TaskMessenger.ts:152-167): no answer leaves a handler waiting for ever, and
\* of two asks at least the older one is given up.
AsksSettle ==
    \A a \in Actors : (pc[a] = "waiting" /\ (slot # Empty \/ last # askTs[a])) ~> pc[a] = "idle"

-----------------------------------------------------------------------------
\* What the comments of the code say and it does not do.

\* A message that is complete keeps its text (message-state.ts:267: "The entire
\* operation (validate, update, save) is atomic to prevent races").
CompleteStays ==
    [][\A m \in ToSet(msgs), n \in ToSet(msgs') :
          ~m.partial /\ n.ts = m.ts => n.text = m.text]_messageVars

\* An ask returns the answer to its own question.
AnswersAreMeant == [][\A a \in Actors : Answered(a) => slot # Empty /\ slot.for = askTs[a]]_messageVars

\* A running job is shown as running.
RunningIsShown == \A j \in Jobs : job[j] = "running" =>
                     \E m \in ToSet(msgs) : m.partial /\ m.text = j
=============================================================================

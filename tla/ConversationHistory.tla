------------------------ MODULE ConversationHistory ------------------------
(***************************************************************************)
(* The conversation of one task with its provider: the messages the task   *)
(* keeps (MessageStateHandler), the range of them ContextManager no longer *)
(* sends, and what each request sends.  A turn appends a user message,     *)
(* attempts the request until its first chunk arrives, and appends the     *)
(* reply; aborts, resumptions and checkpoints cut the turn or the history. *)
(*                                                                         *)
(* Messages are numbered from 1.  The range of deleted messages always     *)
(* begins at the third, so its last one, cut, stands for the whole range;  *)
(* 2 says that nothing is deleted.                                         *)
(***************************************************************************)
EXTENDS Integers, Sequences

CONSTANTS
    MaxMessages,    \* bound of the history
    MaxMarks,       \* bound on the messages the user may restore the task to
    MaxSkips,       \* bound on the replies that leave no message
    MaxRetries      \* automatic retries of a request without a first chunk

ASSUME BoundsAssumption ==
    /\ MaxMessages \in Nat
    /\ MaxMarks \in Nat
    /\ MaxSkips \in Nat
    /\ MaxRetries \in Nat

VARIABLES
    history,    \* apiConversationHistory
    cut,        \* conversationHistoryDeletedRange[1], see above
    phase,      \* where the agent loop is
    pending,    \* the message whose tool calls the next user message answers
    usage,      \* tokens of the previous request against maxAllowedSize, as
                \* the attempts of the request under way read them
    auto,       \* didAutomaticallyRetryFailedApiRequest
    retries,    \* autoRetryAttempts
    marks,      \* messages on screen a checkpoint restore may go back to
    skipped     \* history variable: replies that have left no message

vars == <<history, cut, phase, pending, usage, auto, retries, marks,
          skipped>>

Usages == {"fits", "over", "double"}
Streaming == {"streamingNative", "streamingText"}   \* by useNativeToolCalls
Phases == {"idle", "turn", "ready", "sent", "asked", "tools"} \cup Streaming

\* A message: who wrote it, its place in the history, whether it calls tools,
\* and the message whose calls it answers (0: none).
Message == [role: {"user", "assistant"}, at: Nat, calls: BOOLEAN, answers: Nat]
Mark == [at: Nat, cut: Nat]

UserMessage(i, answers) ==
    [role |-> "user", at |-> i, calls |-> FALSE, answers |-> answers]
Assistant(i, calls) ==
    [role |-> "assistant", at |-> i, calls |-> calls, answers |-> 0]

\* slice(0, n) of a list.
UpTo(s, n) == IF n < Len(s) THEN SubSeq(s, 1, n) ELSE s

IsUser(h, i) == i \in 1..Len(h) /\ h[i].role = "user"
LastIsUser == IsUser(history, Len(history))

-----------------------------------------------------------------------------
\* getNextTruncationRange: how many messages each strategy removes from those
\* after the deleted ones, in whole pairs, and where the range ends then.
AtLeastZero(n) == IF n < 0 THEN 0 ELSE n

Removed(keep, rest) ==
    CASE keep = "none"    -> AtLeastZero(rest)
      [] keep = "lastTwo" -> AtLeastZero(rest - 2)
      [] keep = "half"    -> 2 * (rest \div 4)
      [] keep = "quarter" -> 2 * ((3 * rest) \div 8)

\* Mutants: the range ends where the count says; it is counted from the start.
NextCutAsCounted(h, c, keep) == c + Removed(keep, Len(h) - c)

NextCutFromStart(h, c, keep) ==
    LET end == 2 + Removed(keep, Len(h) - 2)
    IN  IF IsUser(h, end) THEN end - 1 ELSE end

NextCut(h, c, keep) ==
    LET end == c + Removed(keep, Len(h) - c)
    IN  IF IsUser(h, end) THEN end - 1 ELSE end

\* getAndAlterTruncatedMessages: the first two messages and those after the
\* range; results of deleted calls are dropped, missing results filled in.
Kept(h, c) == SubSeq(h, 1, 2) \o SubSeq(h, c + 1, Len(h))

\* Mutant: the results of deleted calls stay.
RepairedMissing(k, c) ==
    [i \in 1..Len(k) |->
        IF i > 1 /\ k[i].role = "user" /\ k[i-1].calls
        THEN [k[i] EXCEPT !.answers = k[i-1].at] ELSE k[i]]

Repaired(k, c) ==
    [i \in 1..Len(k) |->
        IF i > 1 /\ k[i].role = "user" /\ k[i-1].calls
        THEN [k[i] EXCEPT !.answers = k[i-1].at]
        ELSE IF i = 3 /\ c > 2 /\ k[i].role = "user"
        THEN [k[i] EXCEPT !.answers = 0]
        ELSE k[i]]

Truncated(h, c) == IF Len(h) <= 1 THEN h ELSE Repaired(Kept(h, c), c)

Out == Truncated(history, cut)

-----------------------------------------------------------------------------
\* startTask: an empty history, then the request loop.
Init ==
    /\ history = << >>
    /\ cut = 2
    /\ phase = "turn"
    /\ pending = 0
    /\ usage = "none"
    /\ auto = FALSE
    /\ retries = 0
    /\ marks = << >>
    /\ skipped = 0

\* prepareApiRequest appends the user message of the turn; the previous request
\* on screen, if there is one, has the tokens it has.
Prepare ==
    /\ phase = "turn"
    /\ usage' \in IF usage = "none" THEN {"fits"} ELSE Usages
    /\ Len(history) + 1 < MaxMessages
    /\ history' = Append(history, UserMessage(Len(history) + 1, pending))
    /\ pending' = 0
    /\ auto' = FALSE
    /\ phase' = "ready"
    /\ UNCHANGED <<cut, retries, marks, skipped>>

\* attempt: unless useAutoCondense is set, a previous request over the limit
\* removes half of what is left, or three quarters.  Every attempt decides
\* again, the retries too.
Attempt ==
    /\ phase = "ready"
    /\ \E condense \in BOOLEAN :
          cut' = IF condense \/ usage = "fits" THEN cut
                 ELSE NextCut(history, cut,
                              IF usage = "double" THEN "quarter" ELSE "half")
    /\ phase' = "sent"
    /\ UNCHANGED <<history, pending, usage, auto, retries, marks, skipped>>

\* No attempt reads usage any more.
FirstChunk ==
    /\ phase = "sent"
    /\ phase' \in Streaming
    /\ usage' = "fits"
    /\ UNCHANGED <<history, cut, pending, auto, retries, marks, skipped>>

\* handleContextWindowExceededError: once, without asking.
\* Mutant: the flag is not set.
WindowExceededAgain ==
    /\ phase = "sent"
    /\ ~auto
    /\ cut' = NextCut(history, cut, "quarter")
    /\ phase' = "ready"
    /\ UNCHANGED <<history, pending, usage, auto, retries, marks, skipped>>

WindowExceeded ==
    /\ phase = "sent"
    /\ ~auto
    /\ cut' = NextCut(history, cut, "quarter")
    /\ auto' = TRUE
    /\ phase' = "ready"
    /\ UNCHANGED <<history, pending, usage, retries, marks, skipped>>

\* Any other error, or the second one of the window: retried after a delay a
\* few times, unless the error is one no retry mends; then the user is asked.
RetryRequest ==
    /\ phase = "sent"
    /\ retries < MaxRetries
    /\ retries' = retries + 1
    /\ auto' = FALSE
    /\ phase' = "ready"
    /\ UNCHANGED <<history, cut, pending, usage, marks, skipped>>

AskRetry ==
    /\ phase = "sent"
    /\ phase' = "asked"
    /\ UNCHANGED <<history, cut, pending, usage, auto, retries, marks,
                   skipped>>

UserRetries ==
    /\ phase = "asked"
    /\ retries' = 0
    /\ auto' = FALSE
    /\ phase' = "ready"
    /\ UNCHANGED <<history, cut, pending, usage, marks, skipped>>

-----------------------------------------------------------------------------
\* The stream ended with content: processAssistantResponse appends it and the
\* tool calls are executed.
Reply ==
    /\ phase \in Streaming
    /\ \E calls \in BOOLEAN :
          /\ calls => phase = "streamingNative"
          /\ history' = Append(history, Assistant(Len(history) + 1, calls))
    /\ phase' = "tools"
    /\ UNCHANGED <<cut, pending, usage, auto, retries, marks, skipped>>

ToolsDone ==
    /\ phase = "tools"
    /\ pending' = IF history[Len(history)].calls THEN Len(history) ELSE 0
    /\ retries' = 0
    /\ phase' = "turn"
    /\ UNCHANGED <<history, cut, usage, auto, marks, skipped>>

\* A stream without content.  With native tool calls it passes for a reply and
\* leaves no message; without, handleEmptyAssistantResponse appends one.
NoContent ==
    /\ phase \in Streaming
    /\ phase' = "turn"
    /\ IF phase = "streamingNative"
       THEN /\ skipped < MaxSkips
            /\ skipped' = skipped + 1
            /\ retries' = 0
            /\ UNCHANGED history
       ELSE /\ history' = Append(history, Assistant(Len(history) + 1, FALSE))
            /\ retries' = IF retries < MaxRetries THEN retries + 1 ELSE 0
            /\ UNCHANGED skipped
    /\ UNCHANGED <<cut, pending, usage, auto, marks>>

\* abortStream: what arrived is appended as text, its tool calls are not.
Interrupted ==
    /\ phase \in Streaming
    /\ history' = Append(history, Assistant(Len(history) + 1, FALSE))
    /\ phase' = "idle"
    /\ UNCHANGED <<cut, pending, usage, auto, retries, marks, skipped>>

\* The task is aborted, or its loop ends; an abandoned stream appends nothing.
Abort ==
    /\ phase # "idle"
    /\ pending' = 0
    /\ usage' = IF usage = "none" THEN "none" ELSE "fits"
    /\ phase' = "idle"
    /\ UNCHANGED <<history, cut, auto, retries, marks, skipped>>

-----------------------------------------------------------------------------
\* Tools run once the reply is appended.  Calls written as text run also while
\* the reply streams, as soon as the text they are in is complete.
Working == phase \in {"tools"} \cup Streaming

Summarize ==
    /\ Working
    /\ cut' = NextCut(history, cut, "lastTwo")
    /\ UNCHANGED <<history, phase, pending, usage, auto, retries, marks,
                   skipped>>

Condense ==
    /\ Working
    /\ cut' = NextCut(history, cut, IF LastIsUser THEN "none" ELSE "lastTwo")
    /\ UNCHANGED <<history, phase, pending, usage, auto, retries, marks,
                   skipped>>

\* resumeTaskFromHistory takes the last user message back and sends its content
\* again; the retry counter is a new task's or the one a timer brings along.
Resume ==
    /\ phase = "idle"
    /\ IF LastIsUser
       THEN /\ history' = UpTo(history, Len(history) - 1)
            /\ pending' = history[Len(history)].answers
       ELSE /\ pending' = 0
            /\ UNCHANGED history
    /\ auto' = FALSE
    /\ retries' \in 0..MaxRetries
    /\ phase' = "turn"
    /\ UNCHANGED <<cut, usage, marks, skipped>>

\* addToIsaacMessages notes with every message on screen how long the history
\* is and what of it is deleted.
Say ==
    /\ phase \in {"turn", "tools"} \cup Streaming
    /\ Len(marks) < MaxMarks
    /\ marks' = Append(marks, [at |-> Len(history), cut |-> cut])
    /\ UNCHANGED <<history, cut, phase, pending, usage, auto, retries,
                   skipped>>

\* Mutant: the range is left as it is.
RestoreMessages ==
    /\ phase = "idle"
    /\ \E i \in 1..Len(marks) :
          /\ history' = UpTo(history, marks[i].at + 1)
          /\ marks' = UpTo(marks, i)
    /\ UNCHANGED <<cut, phase, pending, usage, auto, retries, skipped>>

\* handleSuccessfulRestore, in a task that has been cancelled first.
Restore ==
    /\ phase = "idle"
    /\ \E i \in 1..Len(marks) :
          /\ history' = UpTo(history, marks[i].at + 1)
          /\ cut' = marks[i].cut
          /\ marks' = UpTo(marks, i)
    /\ UNCHANGED <<phase, pending, usage, auto, retries, skipped>>

-----------------------------------------------------------------------------
Requests ==
    \/ Attempt \/ FirstChunk \/ WindowExceeded \/ RetryRequest \/ AskRetry

Next ==
    \/ Prepare \/ Requests \/ UserRetries
    \/ Reply \/ ToolsDone \/ NoContent \/ Interrupted \/ Abort
    \/ Summarize \/ Condense \/ Resume \/ Say \/ Restore

Spec == Init /\ [][Next]_vars

\* The provider answers every attempt in some way, and the code's own delays
\* end.
FairSpec == Spec /\ WF_vars(Requests)

-----------------------------------------------------------------------------
TypeOK ==
    /\ history \in Seq(Message)
    /\ cut \in Nat
    /\ phase \in Phases
    /\ pending \in Nat
    /\ usage \in Usages \cup {"none"}
    /\ auto \in BOOLEAN
    /\ retries \in 0..MaxRetries
    /\ marks \in Seq(Mark)
    /\ skipped \in 0..MaxSkips

\* What a provider asks of a conversation: user and assistant take turns, and
\* every tool call is answered by the message after it.  As long as every reply
\* has left a message, each request is such a conversation, whatever was
\* truncated, condensed, interrupted, resumed and restored before it.
Alternates(s) ==
    \A i \in 1..Len(s) : s[i].role = IF i % 2 = 1 THEN "user" ELSE "assistant"

CallsAnswered(s) ==
    \A i \in 1..Len(s) :
        s[i].calls => i < Len(s) /\ s[i+1].answers = s[i].at

SentIsAConversation ==
    phase = "sent" /\ skipped = 0 => Alternates(Out) /\ CallsAnswered(Out)

\* ... and it ends with the message the turn is about: the range never covers
\* what the user has just said.
LatestIsSent ==
    phase = "sent" /\ skipped = 0 => Out[Len(Out)].at = Len(history)

\* No request answers a tool call it does not contain, even after replies that
\* left no message.
ResultsFollowCalls ==
    phase = "sent" =>
        \A i \in 1..Len(Out) :
            Out[i].answers # 0 =>
                i > 1 /\ Out[i-1].calls /\ Out[i].answers = Out[i-1].at

\* ApiRequestHandler.ts:306, "If the conversation has more than 3 messages, we
\* can truncate again": a retry after the window was exceeded sends less.
RetryTruncates ==
    phase = "sent" /\ skipped = 0 /\ Len(Out) > 3 =>
        NextCut(history, cut, "quarter") > cut

\* A message that was deleted is never sent again, unless the user restores a
\* checkpoint from before, or the only message exceeded the window.
DeletedStaysDeleted ==
    [][phase = "idle" \/ skipped # 0 \/ Len(history) = 1 \/ cut' >= cut]_vars

\* A request does not loop between attempts: it is streamed, given up or left
\* to the user.
RequestSettles == phase = "ready" ~> phase \notin {"ready", "sent"}

\* ContextManager.ts:221, "anthropic format messages are always
\* user-assistant-user-assistant": what getNextTruncationRange relies on.
HistoryAlternates == Alternates(history)

\* ContextManager.ts:193, "We always keep the first user-assistant pairing, and
\* truncate an even number of messages from there": a request holds each
\* message once.
SentOnce ==
    phase = "sent" /\ skipped = 0 =>
        \A i, j \in 1..Len(Out) : i # j => Out[i].at # Out[j].at
=============================================================================

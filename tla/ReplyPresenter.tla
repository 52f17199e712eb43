--------------------------- MODULE ReplyPresenter ---------------------------
(***************************************************************************)
(* One reply of the model as the task shows and obeys it while it streams: *)
(* the blocks parsed anew from the text at every chunk, the native calls   *)
(* behind them, the index of the block that is presented, and the tools    *)
(* that complete calls start.  AgentTurn puts the stream under it.         *)
(*                                                                         *)
(* Sources: src/core/task/ResponseProcessor.ts, ToolExecutor.ts,           *)
(* StreamResponseHandler.ts and core/assistant-message/                    *)
(* parse-assistant-message.ts.  The presentation lock and its pending flag *)
(* are left out: one coroutine presents, and awaits every block, so no     *)
(* call ever finds the lock taken.  Left out too: what say shows, hooks    *)
(* (PostToolUse may abort the task, as anybody may), checkpoints, and the  *)
(* counts of mistakes and tool calls.                                      *)
(***************************************************************************)
EXTENDS Naturals, Sequences

CONSTANTS MaxBlocks,  \* bound on the blocks of the text
          MaxCalls,   \* bound on the native calls of a reply
          MaxXml      \* bound on the calls written in one text block

ASSUME ReplyAssumption == MaxBlocks \in Nat /\ MaxCalls \in Nat /\ MaxXml \in Nat

VARIABLES native,   \* useNativeToolCalls
          abort,    \* taskState.abort
          text,     \* parseAssistantMessageV2 of the text so far
          calls,    \* the native calls so far, and what the model will be told of each
          read,     \* didCompleteReadingStream
          index,    \* currentStreamingContentIndex: the blocks that are done with
          ready,    \* userMessageContentReady
          rejected, \* didRejectTool
          at,       \* where the coroutine stands
          xml,      \* the call of the text block that it is at
          handed,   \* history: the calls given to the executor whole
          turn      \* "open", or how the turn ended

replyVars == <<native, abort, text, calls, read, index, ready, rejected, at, xml, handed, turn>>

Block == [kind : {"text", "think"}, xml : 0..MaxXml, partial : BOOLEAN]
Call == [known : BOOLEAN, told : {"nothing", "result", "error", "refused"}]
Ids == [block : Nat, call : Nat]

ReplyTypeOK ==
  /\ native \in BOOLEAN /\ abort \in BOOLEAN /\ read \in BOOLEAN
  /\ text \in Seq(Block) /\ Len(text) <= MaxBlocks /\ calls \in Seq(Call) /\ Len(calls) <= MaxCalls
  /\ index \in 0..(MaxBlocks + MaxCalls) /\ ready \in BOOLEAN /\ rejected \in BOOLEAN
  /\ at \in {"loop", "arrived", "present", "text", "call", "tool", "left", "waiting"}
  /\ xml \in 0..(MaxXml + 1) /\ handed \in Seq(Ids)
  /\ turn \in {"open", "next", "empty", "thrown"}

ReplyInit == /\ native \in BOOLEAN /\ abort = FALSE /\ text = <<>> /\ calls = <<>> /\ read = FALSE
             /\ index = 0 /\ ready = FALSE /\ rejected = FALSE /\ at = "loop" /\ xml = 0
             /\ handed = <<>> /\ turn = "open"

-----------------------------------------------------------------------------
Total == Len(text) + Len(calls)
InText == index < Len(text)
TextBlock == text[index + 1]
CallNo == index - Len(text) + 1

\* parseAssistantMessageV2 of a longer text: the block that was open has grown, was only
\* the beginning of a tag, or is whole, and one more may follow.  Only the last is open.
Closed == IF text # <<>> /\ text[Len(text)].partial THEN SubSeq(text, 1, Len(text) - 1) ELSE text
NewBlocks == {b \in Block : b.kind = "think" => b.xml = 0}

LastParsed ==
  IF Closed = text THEN {<<>>}
  ELSE LET o == text[Len(text)]
       IN {<<b>> : b \in {c \in NewBlocks : c.kind = o.kind /\ c.xml >= o.xml}}
          \union {s \in {<<>>} : o.xml = 0}

Parsed == {Closed \o last \o more : last \in LastParsed, more \in {<<b>> : b \in NewBlocks} \union {<<>>}}

Readable(t) == Len(t) <= MaxBlocks /\ \A i \in 1..(Len(t) - 1) : ~t[i].partial

\* Native calls come after the text, however much of it has been presented.
IndexFor(t, c) == IF c # <<>> THEN Len(t) ELSE index

\* processNativeToolCalls.
Take(t, c) == /\ text' = t /\ calls' = c
              /\ index' = IndexFor(t, c)
              /\ ready' = (ready /\ c = <<>> /\ Len(t) + Len(c) <= Total)

TextChunk == \E t \in {p \in Parsed : Readable(p)} : Take(t, calls)

\* A delta of a call that is listed already, or has no name yet, or of a new one.
CallChunk ==
  /\ native
  /\ \/ Take(text, calls)
     \/ /\ Len(calls) < MaxCalls
        /\ \E k \in BOOLEAN : Take(text, Append(calls, [known |-> k, told |-> "nothing"]))

ReasoningChunk == UNCHANGED <<text, calls, index, ready>>

Handle == /\ at = "arrived" /\ at' = "present"
          /\ TextChunk \/ CallChunk \/ ReasoningChunk
          /\ UNCHANGED <<native, abort, read, rejected, xml, handed, turn>>

\* processAssistantResponse, when the stream was read or given up: everything is whole.
Finish ==
  /\ at = "loop" /\ ~read /\ turn = "open"
  /\ IF abort
       THEN turn' = "thrown" /\ UNCHANGED <<text, calls, read, index, ready, at>>
       ELSE /\ Take([i \in 1..Len(text) |-> [text[i] EXCEPT !.partial = FALSE]], calls)
            /\ read' = TRUE /\ at' = "present" /\ UNCHANGED turn
  /\ UNCHANGED <<native, abort, rejected, xml, handed>>

-----------------------------------------------------------------------------
\* presentAssistantMessage.  What it throws is logged while the stream is read, and ends
\* the turn afterwards.
Return == at' = IF read THEN "waiting" ELSE "left"
Throw == at' = (IF read THEN "loop" ELSE "left") /\ turn' = IF read THEN "thrown" ELSE turn

\* The block is done with; the next one, if there is one, follows at once.
Advance ==
  /\ ready' = (ready \/ index = Total - 1)
  /\ index' = index + 1
  /\ IF index + 1 < Total THEN at' = "present" ELSE Return

\* Mutant: the end of the reply is not noticed when no block is left to present.
NothingLeftQuiet == Return /\ UNCHANGED ready

NothingLeft == Return /\ ready' = (ready \/ read)

\* The calls in a text are dispatched unless native calls have come.
HasXml == /\ TextBlock.xml > 0 /\ ~TextBlock.partial
          /\ ~(native /\ calls # <<>>)

Present ==
  /\ at = "present"
  /\ \/ abort /\ Throw /\ UNCHANGED <<index, ready, xml>>
     \/ ~abort /\ index >= Total /\ NothingLeft /\ UNCHANGED <<index, xml, turn>>
     \/ /\ ~abort /\ InText /\ (rejected \/ ~HasXml)
        /\ IF TextBlock.partial /\ ~rejected THEN Return /\ UNCHANGED <<index, ready>> ELSE Advance
        /\ UNCHANGED <<xml, turn>>
     \/ ~abort /\ InText /\ ~rejected /\ HasXml /\ at' = "text" /\ xml' = 1 /\ UNCHANGED <<index, ready, turn>>
     \/ ~abort /\ index < Total /\ ~InText /\ at' = "call" /\ UNCHANGED <<index, ready, xml, turn>>
  /\ UNCHANGED <<native, abort, text, calls, read, rejected, handed>>

\* Mutant: a call is whole when the next one begins, as a block of the text is.
PartialIfLast == ~read /\ CallNo = Len(calls)

\* A call is whole when the stream has been read.
Partial == ~read

\* Mutant: the executor tests for a rejection only before it asks.
RefusedPartial == rejected /\ Partial

Refused == rejected

Tell(what) == calls' = [calls EXCEPT ![CallNo].told = IF @ = "nothing" THEN what ELSE @]

\* A call whose block is not whole is only shown, but what fails is told to the model.  A
\* rejected one is refused and done with.
Preview ==
  /\ at = "call" /\ Partial
  /\ \/ UNCHANGED calls /\ (rejected => ~calls[CallNo].known)
     \/ calls[CallNo].known /\ rejected /\ Tell("refused")
     \/ calls[CallNo].known /\ ~rejected /\ ~abort /\ Tell("error")
  /\ IF rejected THEN Advance ELSE Return /\ UNCHANGED <<index, ready>>
  /\ UNCHANGED <<native, abort, text, read, rejected, xml, handed, turn>>

\* Plan mode may keep a tool from starting, and so do an abort and a rejection; telling so
\* throws after an abort.
HandOver ==
  /\ at = "call" /\ ~Partial
  /\ handed' = Append(handed, [block |-> 0, call |-> CallNo])
  /\ \/ /\ Advance /\ UNCHANGED turn
        /\ \/ (~calls[CallNo].known \/ (abort /\ ~Refused)) /\ UNCHANGED calls
           \/ calls[CallNo].known /\ Refused /\ Tell("refused")
           \/ calls[CallNo].known /\ ~Refused /\ ~abort /\ Tell("error")
     \/ /\ calls[CallNo].known /\ ~Refused
        /\ IF abort THEN Throw ELSE at' = "tool" /\ UNCHANGED turn
        /\ UNCHANGED <<calls, index, ready>>
  /\ UNCHANGED <<native, abort, text, read, rejected, xml>>

\* The calls in a text, one after another; what is left of the text is shown then.
NextXml ==
  /\ at = "text"
  /\ \/ /\ xml > TextBlock.xml /\ xml' = 0 /\ UNCHANGED handed
        /\ IF abort THEN Throw /\ UNCHANGED <<index, ready>> ELSE Advance /\ UNCHANGED turn
     \/ /\ xml <= TextBlock.xml /\ handed' = Append(handed, [block |-> index + 1, call |-> xml])
        /\ UNCHANGED <<index, ready>>
        /\ \/ xml' = xml + 1 /\ UNCHANGED <<at, turn>>
           \/ ~Refused /\ ~abort /\ at' = "tool" /\ UNCHANGED <<xml, turn>>
           \/ ~Refused /\ abort /\ xml' = 0 /\ Throw
  /\ UNCHANGED <<native, abort, text, calls, read, rejected>>

\* The tool returns or throws, the user having rejected it or not; reporting an error
\* throws in turn when the task was aborted.
ToolReturns ==
  /\ at = "tool"
  /\ rejected' \in {rejected, TRUE}
  /\ \/ /\ xml > 0 /\ at' = "text" /\ xml' = xml + 1
        /\ UNCHANGED <<calls, index, ready, turn>>
     \/ /\ xml = 0 /\ (Tell("result") \/ (~abort /\ Tell("error")))
        /\ Advance /\ UNCHANGED <<xml, turn>>
     \/ abort /\ Throw /\ xml' = 0 /\ UNCHANGED <<calls, index, ready>>
  /\ UNCHANGED <<native, abort, text, read, handed>>

\* The loop polls for ready and goes on with the results; a reply without content is
\* reported instead.
Continue ==
  /\ at = "waiting" /\ at' = "loop"
  /\ \/ ready /\ turn' = "next"
     \/ ~native /\ text = <<>> /\ turn' = "empty"
  /\ UNCHANGED <<native, abort, text, calls, read, index, ready, rejected, xml, handed>>

\* cancelTask or a failing hook.
Abort == /\ ~abort /\ turn = "open" /\ abort' = TRUE
         /\ UNCHANGED <<native, text, calls, read, index, ready, rejected, at, xml, handed, turn>>

ReplyStep == Present \/ Preview \/ HandOver \/ NextXml \/ Continue

-----------------------------------------------------------------------------
\* However often the reply is parsed and presented anew, no call is executed twice,
\* whether it was written as text or called, and when the turn of a live task goes on
\* every native call has been executed or answered for.
EachCallOnce ==
  /\ \A i, j \in 1..Len(handed) : handed[i] = handed[j] => i = j
  /\ turn = "next" /\ ~abort => \A c \in 1..Len(calls) :
                        /\ \E i \in 1..Len(handed) : handed[i] = [block |-> 0, call |-> c]
                        /\ calls[c].known => calls[c].told # "nothing"

\* Once the user has rejected a tool or the task was aborted, no tool of the reply starts,
\* neither from the rest of a text nor from the calls that are whole at the end.
StoppedStartsNoTool ==
  [][(abort \/ rejected) /\ at # "tool" => at' # "tool"]_replyVars

\* ResponseProcessor.ts: "dispatching the XML duplicate would run the same tool twice":
\* a reply's calls are taken from its text or from its native calls.
OneChannel == \A i, j \in 1..Len(handed) : handed[i].block = 0 <=> handed[j].block = 0

\* ToolExecutor.ts: "No tool results are pushed to the conversation during partial block
\* handling."
PartialTellsNothing ==
  [][~read => \A c \in 1..Len(calls) : calls'[c].told \in {calls[c].told, "refused"}]_replyVars

\* A text is presented whole before what follows it: the index passes an open block only
\* when the rest is refused anyway.
TextIsShownWhole ==
  [][\A b \in (index + 1)..index' : b <= Len(text') => rejected \/ ~text'[b].partial]_replyVars

=============================================================================

----------------------- MODULE StreamCoordinator_proofs -----------------------
(***************************************************************************)
(* For any number of chunks: StreamCoordinator keeps its types, never      *)
(* loses a wake-up, and implements the ordered channel, and so does a turn *)
(* that presents the chunks and runs the tools, which after an abort or a  *)
(* rejection starts no tool, and executes each call once.                  *)
(***************************************************************************)
EXTENDS AgentTurn, Integers, TLAPS

\* The queue holds exactly the numbers between the last chunk delivered and the
\* last one produced.
QueueIsGap == /\ got <= produced
              /\ Len(queue) = produced - got
              /\ \A i \in 1..Len(queue) : queue[i] = got + i

\* The pump's flags and the consumer's exits agree.
ExitsOK == /\ pump = "done" <=> completed
           /\ readError => completed
           /\ consumer = "draining" => completed /\ ~readError /\ queue = <<>>
           /\ consumer \in Finished => completed

IInv == TypeOK /\ QueueIsGap /\ ExitsOK /\ NoLostWakeup

\* The coordinator starts with an empty queue and a pump at its first read.
LEMMA InitIInv == Init => IInv
<1> SUFFICES ASSUME Init PROVE IInv
  OBVIOUS
<1> USE BoundsAssumption DEF Init
<1>1. TypeOK
  <2>1. queue \in Seq(1..MaxChunks)
    OBVIOUS
  <2>2. produced \in 0..MaxChunks /\ usageSeen \in 0..MaxUsage /\ got \in 0..MaxChunks
    OBVIOUS
  <2> QED BY <2>1, <2>2 DEF TypeOK, Finished
<1>2. QueueIsGap
  BY DEF QueueIsGap
<1>3. ExitsOK /\ NoLostWakeup
  BY DEF ExitsOK, NoLostWakeup, Finished
<1> QED BY <1>1, <1>2, <1>3 DEF IInv

\* A push keeps the queue the gap between delivered and produced.
LEMMA PushGap ==
  ASSUME IInv, produced < MaxChunks,
         produced' = produced + 1, queue' = Push(produced + 1), got' = got
  PROVE  QueueIsGap' /\ queue' \in Seq(1..MaxChunks) /\ produced' \in 0..MaxChunks
<1> USE BoundsAssumption DEF IInv, TypeOK, QueueIsGap, Push
<1>1. produced + 1 \in 1..MaxChunks /\ produced' \in 0..MaxChunks
  OBVIOUS
<1>2. queue' \in Seq(1..MaxChunks) /\ Len(queue') = Len(queue) + 1
  BY <1>1
<1>3. \A i \in 1..Len(queue') : queue'[i] = got' + i
  <2> SUFFICES ASSUME NEW i \in 1..Len(queue')
               PROVE  queue'[i] = got' + i
    OBVIOUS
  <2>1. CASE i = Len(queue) + 1
    BY <2>1, <1>1, <1>2
  <2>2. CASE i \in 1..Len(queue)
    BY <2>2, <1>1, <1>2
  <2> QED BY <2>1, <2>2, <1>2
<1> QED BY <1>1, <1>2, <1>3

\* A shift does too, and what it returns is the chunk after the last one returned.
LEMMA ShiftGap ==
  ASSUME IInv, queue # <<>>,
         produced' = produced, queue' = Tail(queue), got' = Head(queue)
  PROVE  /\ QueueIsGap' /\ queue' \in Seq(1..MaxChunks) /\ got' \in 0..MaxChunks
         /\ got' = got + 1 /\ got < produced
<1> USE BoundsAssumption DEF IInv, TypeOK, QueueIsGap
<1>1. Len(queue) \in Nat /\ Len(queue) > 0
  OBVIOUS
<1>2. got' = got + 1 /\ got < produced
  BY <1>1
<1>3. queue' \in Seq(1..MaxChunks) /\ Len(queue') = Len(queue) - 1
  BY <1>1
<1>4. \A i \in 1..Len(queue') : queue'[i] = queue[i + 1]
  BY <1>1, <1>3
<1>5. \A i \in 1..Len(queue') : queue'[i] = got' + i
  <2> SUFFICES ASSUME NEW i \in 1..Len(queue') PROVE queue'[i] = got' + i
    OBVIOUS
  <2>1. i + 1 \in 1..Len(queue)
    BY <1>1, <1>3
  <2>2. queue[i + 1] = got + (i + 1)
    BY <2>1
  <2>3. queue'[i] = queue[i + 1]
    BY <1>4
  <2>4. got' + i = got + (i + 1)
    <3>1. i \in Nat /\ got \in Nat
      BY <1>1, <1>3
    <3> HIDE DEF IInv, TypeOK, QueueIsGap
    <3> QED BY <3>1, <1>2
  <2> QED BY <2>2, <2>3, <2>4
<1> QED BY <1>1, <1>2, <1>3, <1>5

LEMMA NextIInv == IInv /\ [Next]_vars => IInv'
<1> SUFFICES ASSUME IInv, [Next]_vars PROVE IInv'
  OBVIOUS
<1> USE BoundsAssumption
<1>1. CASE ReadChunk
  <2>1. QueueIsGap' /\ queue' \in Seq(1..MaxChunks) /\ produced' \in 0..MaxChunks
    BY <1>1, PushGap DEF ReadChunk
  <2>2. TypeOK' /\ ExitsOK' /\ NoLostWakeup'
    BY <1>1, <2>1 DEF ReadChunk, Reading, LoopTest, Finally, IInv, TypeOK, ExitsOK, NoLostWakeup, Finished
  <2> QED BY <2>1, <2>2 DEF IInv
<1>2. CASE ReadUsage
  <2> USE <1>2 DEF ReadUsage, Reading, IInv
  <2>1. QueueIsGap'
    BY DEF QueueIsGap
  <2>2. usageSeen' \in 0..MaxUsage
    BY DEF TypeOK
  <2>3. /\ pump' \in {"reading", "done"} /\ completed' \in BOOLEAN /\ waiter' \in BOOLEAN
        /\ pump' = "done" <=> completed'
        /\ waiter' => waiter /\ ~completed'
    BY DEF LoopTest, Finally, TypeOK, ExitsOK
  <2>4. TypeOK'
    BY <2>2, <2>3 DEF TypeOK
  <2>5. ExitsOK' /\ NoLostWakeup'
    BY <2>3 DEF TypeOK, ExitsOK, NoLostWakeup, Finished
  <2> QED BY <2>1, <2>4, <2>5
<1>3. CASE StreamEnds
  BY <1>3 DEF StreamEnds, Reading, Finally, IInv, TypeOK, QueueIsGap, ExitsOK, NoLostWakeup, Finished
<1>4. CASE StreamThrows
  BY <1>4 DEF StreamThrows, Reading, Finally, IInv, TypeOK, QueueIsGap, ExitsOK, NoLostWakeup, Finished
<1>5. CASE NextChunkThrows
  BY <1>5 DEF NextChunkThrows, IInv, TypeOK, QueueIsGap, ExitsOK, NoLostWakeup, Finished
<1>6. CASE NextChunkReturns
  <2>1. QueueIsGap' /\ queue' \in Seq(1..MaxChunks) /\ got' \in 0..MaxChunks
    BY <1>6, ShiftGap DEF NextChunkReturns
  <2>2. TypeOK' /\ ExitsOK' /\ NoLostWakeup'
    BY <1>6, <2>1 DEF NextChunkReturns, flags, IInv, TypeOK, ExitsOK, NoLostWakeup, Finished
  <2> QED BY <2>1, <2>2 DEF IInv
<1>7. CASE NextChunkEnds
  BY <1>7 DEF NextChunkEnds, flags, IInv, TypeOK, QueueIsGap, ExitsOK, NoLostWakeup, Finished
<1>8. CASE NextChunkWaits
  BY <1>8 DEF NextChunkWaits, flags, IInv, TypeOK, QueueIsGap, ExitsOK, NoLostWakeup, Finished
<1>9. CASE Wake
  BY <1>9 DEF Wake, flags, IInv, TypeOK, QueueIsGap, ExitsOK, NoLostWakeup, Finished
<1>10. CASE ChunkHandled
  BY <1>10 DEF ChunkHandled, flags, IInv, TypeOK, QueueIsGap, ExitsOK, NoLostWakeup, Finished
<1>11. CASE Interrupt
  BY <1>11 DEF Interrupt, IInv, TypeOK, QueueIsGap, ExitsOK, NoLostWakeup, Finished
<1>12. CASE Drained
  BY <1>12 DEF Drained, IInv, TypeOK, QueueIsGap, ExitsOK, NoLostWakeup, Finished
<1>13. CASE Stopped
  BY <1>13 DEF Stopped, flags, IInv, TypeOK, QueueIsGap, ExitsOK, NoLostWakeup, Finished
<1>14. CASE UNCHANGED vars
  BY <1>14 DEF vars, IInv, TypeOK, QueueIsGap, ExitsOK, NoLostWakeup, Finished
<1> QED
  BY <1>1, <1>2, <1>3, <1>4, <1>5, <1>6, <1>7, <1>8, <1>9, <1>10, <1>11, <1>12, <1>13,
     <1>14 DEF Next, Provider, Consumer, NextChunk

LEMMA IInvHolds == Spec => []IInv
  BY InitIInv, NextIInv, PTL DEF Spec

\* The coordinator's fields keep their types (StreamChunkCoordinator's state).
THEOREM TypeCorrect == Spec => []TypeOK
  BY IInvHolds, PTL DEF IInv

\* notifyWaiter is called wherever waitForData's condition can become true.
THEOREM WakeupsAreNotLost == Spec => []NoLostWakeup
  BY IInvHolds, PTL DEF IInv

-----------------------------------------------------------------------------
\* Each step of the coordinator is a step of the channel, or changes nothing there.
LEMMA StepImplements == IInv /\ [Next]_vars => [Channel!Next]_(Channel!vars)
<1> SUFFICES ASSUME IInv, [Next]_vars PROVE [Channel!Next]_(Channel!vars)
  OBVIOUS
<1> USE DEF Channel!Next, Channel!vars, Finished
<1>1. CASE ReadChunk
  BY <1>1 DEF ReadChunk, Reading, Channel!Produce, IInv, TypeOK, ExitsOK
<1>2. CASE NextChunkReturns
  <2>1. got' = got + 1 /\ got < produced
    BY <1>2, ShiftGap DEF NextChunkReturns
  <2> QED BY <1>2, <2>1 DEF NextChunkReturns, flags, Channel!Deliver
<1>3. CASE Drained
  BY <1>3 DEF Drained, Channel!End, IInv, TypeOK, QueueIsGap, ExitsOK
<1>4. CASE Stopped
  BY <1>4 DEF Stopped, flags, Channel!Break, IInv, TypeOK
<1>5. CASE ReadUsage \/ StreamEnds \/ StreamThrows
  BY <1>5 DEF ReadUsage, StreamEnds, StreamThrows
<1>6. CASE NextChunkThrows \/ NextChunkEnds \/ NextChunkWaits
  BY <1>6 DEF NextChunkThrows, NextChunkEnds, NextChunkWaits
<1>7. CASE Wake \/ ChunkHandled \/ Interrupt
  BY <1>7 DEF Wake, ChunkHandled, Interrupt
<1>8. CASE UNCHANGED vars
  BY <1>8 DEF vars
<1> QED
  BY <1>1, <1>2, <1>3, <1>4, <1>5, <1>6, <1>7, <1>8 DEF Next, Provider, Consumer, NextChunk

\* The chunks reach the agent loop in order, none lost or repeated, a normal end
\* comes after the last one, and a closed coordinator reads no more.
THEOREM CoordinatorIsAChannel == Spec => ImplementsChannel
<1>1. Init => Channel!Init
  BY DEF Init, Channel!Init, Finished
<1> QED
  BY <1>1, IInvHolds, StepImplements, PTL DEF Spec, ImplementsChannel, Channel!Spec

-----------------------------------------------------------------------------
\* Presenting a reply, running its tools and an abort leave the coordinator alone; taking
\* a chunk and coming back from it are steps of its consumer.
LEMMA TurnStepsTheStream == [TurnNext]_turnVars => [Next]_vars
<1> SUFFICES ASSUME [TurnNext]_turnVars PROVE [Next]_vars
  OBVIOUS
<1>1. CASE Pump
  BY <1>1 DEF Pump, Next
<1>2. CASE Calls
  BY <1>2 DEF Calls, Next, Consumer, NextChunk
<1>3. CASE Arrives
  BY <1>3 DEF Arrives, Next, Consumer, NextChunk
<1>4. CASE HandlingThrows
  BY <1>4 DEF HandlingThrows, Next, Consumer
<1>5. CASE Handled
  BY <1>5 DEF Handled, Next, Consumer
<1>6. CASE Handles \/ Finishes \/ Fails \/ Presents \/ Returns \/ Aborts
  BY <1>6 DEF Handles, Finishes, Fails, Presents, Returns, Aborts
<1>7. CASE UNCHANGED turnVars
  BY <1>7 DEF turnVars
<1> QED BY <1>1, <1>2, <1>3, <1>4, <1>5, <1>6, <1>7 DEF TurnNext, Loop

\* Whatever the presenter does between two chunks, the coordinator under it behaves as
\* StreamCoordinator says: AgentLoopRunner uses it by no other way.
THEOREM TurnUsesTheStream == TurnSpec => Spec
  BY TurnStepsTheStream, PTL DEF TurnSpec, TurnInit, Spec

\* So a turn with its tools receives the chunks as from an ordered channel.
THEOREM TurnReadsAChannel == TurnSpec => ImplementsChannel
  BY TurnUsesTheStream, CoordinatorIsAChannel

\* Only HandOver and NextXml start a tool, and both look at the abort and the rejection
\* in the same stretch (ToolExecutor.execute and handleCompleteBlock).
LEMMA StepStartsNoTool ==
  ASSUME [TurnNext]_turnVars, abort \/ rejected, at # "tool"
  PROVE  at' # "tool"
<1>1. CASE HandOver
  BY <1>1 DEF HandOver, Refused, Advance, Return, Throw
<1>2. CASE NextXml
  BY <1>2 DEF NextXml, Refused, Advance, Return, Throw
<1>3. CASE Present \/ Preview
  BY <1>3 DEF Present, Preview, Advance, Return, Throw, NothingLeft
<1>4. CASE Continue
  BY <1>4 DEF Continue
<1>5. CASE Arrives \/ Handles \/ HandlingThrows \/ Handled \/ Finishes
  BY <1>5 DEF Arrives, Handles, Handle, HandlingThrows, Handled, Finishes, Finish
<1>6. CASE Pump \/ Calls \/ Fails \/ Aborts \/ UNCHANGED turnVars
  BY <1>6 DEF Pump, Calls, Fails, Aborts, Abort, turnVars, replyVars
<1>7. CASE Returns
  BY <1>7 DEF Returns, ToolReturns
<1> QED BY <1>1, <1>2, <1>3, <1>4, <1>5, <1>6, <1>7 DEF TurnNext, Loop, Presents, ReplyStep

\* Once the user has rejected a tool or the task was aborted, no tool of the reply starts,
\* for replies of any length and shape.
THEOREM NoToolAfterStop == TurnSpec => StoppedStartsNoTool
<1>1. [TurnNext]_turnVars => [(abort \/ rejected) /\ at # "tool" => at' # "tool"]_replyVars
  BY StepStartsNoTool
<1> QED BY <1>1, PTL DEF TurnSpec, StoppedStartsNoTool

-----------------------------------------------------------------------------
\* What is handed to the executor, and how each of it is marked as done with: calls of a
\* text by the block and the call that NextXml is at, native calls by the index.

ReplyTyped ==
  /\ native \in BOOLEAN /\ abort \in BOOLEAN /\ read \in BOOLEAN /\ ready \in BOOLEAN
  /\ rejected \in BOOLEAN /\ text \in Seq(Block) /\ calls \in Seq(Call)
  /\ index \in Nat /\ xml \in Nat /\ handed \in Seq(Ids)

\* The loop handles a chunk while its consumer works, and the whole reply after the stream.
Placed ==
  /\ ~read /\ at # "loop" => consumer = "working"
  /\ read => consumer \in {"ended", "stopped"}
  /\ at \in {"arrived", "left"} => ~read
  /\ at = "waiting" => read
  /\ turn = "next" => read /\ at = "loop" /\ ready

AtCall == at = "call" \/ (at = "tool" /\ xml = 0)

\* The index stands at the block that is presented.
Shaped ==
  /\ at \notin {"text", "tool"} => xml = 0
  /\ at = "text" => xml > 0
  /\ xml > 0 => index < Len(text) /\ calls = <<>>
  /\ at = "tool" /\ xml = 0 => read
  /\ AtCall => Len(text) <= index /\ index < Total
  /\ calls # <<>> => native
  /\ ready => index >= Total

\* A native call that was handed over is passed, or is the one that runs, or the turn is over.
NativePassed(i) ==
  handed[i].block = 0 => /\ read
                         /\ \/ at = "loop" \/ handed[i].call < CallNo
                            \/ at = "tool" /\ xml = 0 /\ handed[i].call = CallNo

\* So is a call in a text, as long as another may follow: without native calls, and before
\* an abort or in the text that it finds.
MayFollow == calls = <<>> /\ (~abort \/ at \in {"text", "tool"})

TextPassed(i) ==
  handed[i].block # 0 /\ MayFollow =>
    \/ handed[i].block <= index
    \/ /\ handed[i].block = index + 1
       /\ handed[i].call < xml \/ (at = "tool" /\ handed[i].call = xml)

Distinct == \A i, j \in 1..Len(handed) : handed[i] = handed[j] => i = j

Once == Distinct /\ \A i \in 1..Len(handed) : NativePassed(i) /\ TextPassed(i)

IsHanded(c) == \E i \in 1..Len(handed) : handed[i] = [block |-> 0, call |-> c]
IsTold(c) == abort \/ (calls[c].known => calls[c].told # "nothing")

\* Every native call the index has passed was handed over and answered for.
PassedAnswered ==
  /\ read => \A c \in 1..Len(calls) : c < CallNo => IsHanded(c) /\ IsTold(c)
  /\ at = "tool" /\ xml = 0 => IsHanded(CallNo)

TurnIInv == ReplyTyped /\ Placed /\ Shaped /\ Once /\ PassedAnswered

LEMMA InitTurnIInv == TurnInit => TurnIInv
<1> SUFFICES ASSUME TurnInit PROVE TurnIInv
  OBVIOUS
<1>1. ReplyTyped
  <2>1. text \in Seq(Block) /\ calls \in Seq(Call) /\ handed \in Seq(Ids)
    BY DEF TurnInit, ReplyInit
  <2> QED BY <2>1 DEF TurnInit, ReplyInit, ReplyTyped
<1>3. Placed
  BY DEF TurnInit, Init, ReplyInit, Placed
<1>4. Shaped
  BY DEF TurnInit, ReplyInit, Shaped, AtCall, Total
<1>2. Once /\ PassedAnswered
  BY DEF TurnInit, ReplyInit, Once, Distinct, PassedAnswered
<1> QED BY <1>1, <1>2, <1>3, <1>4 DEF TurnIInv

LEMMA ThreePieces ==
  ASSUME NEW c, NEW A, NEW B, NEW p \in {c \o a \o b : a \in A, b \in B}
  PROVE  \E a \in A, b \in B : p = c \o a \o b
OBVIOUS

\* A list that is parsed is a list of blocks.
LEMMA ParsedIsText ==
  ASSUME text \in Seq(Block), NEW p \in Parsed
  PROVE  p \in Seq(Block)
<1>1. Closed \in Seq(Block)
  BY DEF Closed
<1>2. /\ \A b \in NewBlocks : <<b>> \in Seq(Block)
      /\ <<>> \in Seq(Block)
  <2>1. \A b \in Block : <<b>> \in Seq(Block)
    OBVIOUS
  <2> QED BY <2>1 DEF NewBlocks
<1>3. PICK last \in LastParsed, more \in {<<b>> : b \in NewBlocks} \union {<<>>} : p = Closed \o last \o more
  <2> DEFINE More == {<<b>> : b \in NewBlocks} \union {<<>>}
  <2>1. p \in {Closed \o last \o more : last \in LastParsed, more \in More}
    BY SMTT(30) DEF Parsed
  <2> HIDE DEF More
  <2>2. \E last \in LastParsed, more \in More : p = Closed \o last \o more
    BY <2>1, ThreePieces
  <2> QED BY <2>2 DEF More
<1>4. last \in Seq(Block)
  <2>1. last = <<>> \/ \E b \in NewBlocks : last = <<b>>
    BY DEF LastParsed
  <2> QED BY <2>1, <1>2
<1>5. more \in Seq(Block)
  BY <1>2
<1>6. Closed \o last \in Seq(Block)
  BY <1>1, <1>4
<1> QED BY <1>3, <1>5, <1>6

\* A new list before the end of the stream: the index may move, but what was handed over
\* stays passed, and a reply that was presented to its end is so still.
LEMMA TakeKeeps ==
  ASSUME TurnIInv, at \in {"arrived", "loop"}, ~read,
         NEW t \in Seq(Block), NEW c \in Seq(Call), c # <<>> => native,
         c = <<>> => calls = <<>>,
         Take(t, c), at' = "present", UNCHANGED <<native, abort, rejected, xml, handed, turn>>,
         read' \in BOOLEAN, read' => ~abort
  PROVE  ReplyTyped' /\ Shaped' /\ Once' /\ PassedAnswered'
<1> USE DEF TurnIInv, Take, IndexFor
<1>1. ReplyTyped'
  BY DEF ReplyTyped
<1>2. Shaped'
  BY DEF ReplyTyped, Shaped, AtCall, Total
<1>3. Once'
  BY DEF ReplyTyped, Once, Distinct, NativePassed, TextPassed, MayFollow, Shaped
<1>4. PassedAnswered'
  BY DEF ReplyTyped, PassedAnswered, CallNo
<1> QED BY <1>1, <1>2, <1>3, <1>4

\* Where a step leaves the presenter alone, or only moves it between chunks, nothing that
\* the invariant says of the reply changes.
LEMMA ReplyKept ==
  ASSUME TurnIInv, UNCHANGED <<native, text, calls, read, index, xml, handed>>,
         ready' \in BOOLEAN, ready' => ready \/ index >= Total, rejected' \in BOOLEAN, abort' \in BOOLEAN, abort => abort',
         \/ at' = at
         \/ /\ at' \in {"loop", "arrived", "left", "waiting"} /\ at \notin {"text", "tool"}
            /\ at = "loop" => ~read
  PROVE  ReplyTyped' /\ Shaped' /\ Once' /\ PassedAnswered'
<1> USE DEF TurnIInv
<1>1. ReplyTyped'
  BY DEF ReplyTyped
<1>2. Shaped'
  BY DEF ReplyTyped, Shaped, AtCall, Total
<1>3. Once'
  BY DEF ReplyTyped, Once, Distinct, NativePassed, TextPassed, MayFollow, Shaped, CallNo
<1>4. PassedAnswered'
  BY DEF ReplyTyped, PassedAnswered, CallNo, IsHanded, IsTold
<1> QED BY <1>1, <1>2, <1>3, <1>4

\* The loop's own steps keep the invariant.
LEMMA LoopKeeps ==
  ASSUME TurnIInv, Pump \/ Calls \/ Arrives \/ HandlingThrows \/ Handled \/ Fails \/ Aborts
                     \/ (Continue /\ UNCHANGED vars) \/ UNCHANGED turnVars
  PROVE  TurnIInv'
<1> USE DEF TurnIInv
<1>1. CASE Pump \/ UNCHANGED turnVars
  <2>1. UNCHANGED replyVars /\ consumer' = consumer
    BY <1>1 DEF Pump, Provider, ReadChunk, ReadUsage, StreamEnds, StreamThrows, turnVars, vars
  <2>2. Placed'
    BY <2>1 DEF Placed, replyVars
  <2> QED BY <2>1, <2>2, ReplyKept DEF replyVars, ReplyTyped
<1>2. CASE Calls
  <2>1. UNCHANGED replyVars /\ consumer \in {"calling", "waiting", "draining", "closing"}
    BY <1>2 DEF Calls, NextChunkThrows, NextChunkEnds, NextChunkWaits, Wake, Drained, Stopped
  <2>2. Placed'
    BY <2>1 DEF Placed, replyVars
  <2> QED BY <2>1, <2>2, ReplyKept DEF replyVars, ReplyTyped
<1>3. CASE Arrives
  <2>1. at = "loop" /\ at' = "arrived" /\ ~read /\ turn # "next" /\ consumer' = "working"
    BY <1>3 DEF Arrives, NextChunkReturns, Placed
  <2>2. Placed'
    BY <1>3, <2>1 DEF Placed, Arrives
  <2> QED BY <1>3, <2>1, <2>2, ReplyKept DEF Arrives, ReplyTyped
<1>4. CASE HandlingThrows \/ Handled
  <2>1. at \in {"arrived", "left"} /\ at' = "loop" /\ ~read /\ turn # "next"
    BY <1>4 DEF HandlingThrows, Handled, Placed
  <2>2. UNCHANGED <<native, abort, text, calls, read, index, ready, rejected, xml, handed, turn>>
    BY <1>4 DEF HandlingThrows, Handled
  <2>3. Placed'
    BY <2>1, <2>2 DEF Placed
  <2> QED BY <2>1, <2>2, <2>3, ReplyKept DEF ReplyTyped
<1>5. CASE Fails
  <2>1. Placed'
    BY <1>5 DEF Placed, Fails, vars
  <2> QED BY <1>5, <2>1, ReplyKept DEF Fails, ReplyTyped
<1>6. CASE Aborts
  <2>1. Placed'
    BY <1>6 DEF Placed, Aborts, Abort, vars
  <2> QED BY <1>6, <2>1, ReplyKept DEF Aborts, Abort, ReplyTyped
<1>7. CASE Continue /\ UNCHANGED vars
  <2>1. Placed'
    BY <1>7 DEF Placed, Continue, vars
  <2> QED BY <1>7, <2>1, ReplyKept DEF Continue, ReplyTyped
<1> QED BY <1>1, <1>2, <1>3, <1>4, <1>5, <1>6, <1>7

\* A new chunk, and the end of the stream.
LEMMA NewListKeeps ==
  ASSUME TurnIInv, Handles \/ Finishes
  PROVE  TurnIInv'
<1> USE DEF TurnIInv
<1>1. CASE Handles /\ TextChunk
  <2>1. PICK p \in Parsed : Take(p, calls)
    BY <1>1 DEF TextChunk
  <2>2. p \in Seq(Block)
    BY ParsedIsText DEF ReplyTyped
  <2>3. Placed'
    BY <1>1 DEF Placed, Handles, Handle, vars
  <2> QED BY <1>1, <2>1, <2>2, <2>3, TakeKeeps DEF Handles, Handle, ReplyTyped, Shaped, Placed
<1>2. CASE Handles /\ CallChunk
  <2>1. \E c \in Seq(Call) : Take(text, c) /\ native /\ (c = <<>> => calls = <<>>)
    <3>1. CASE Take(text, calls)
      BY <1>2, <3>1 DEF CallChunk, ReplyTyped
    <3>2. ASSUME NEW k \in BOOLEAN, Take(text, Append(calls, [known |-> k, told |-> "nothing"]))
          PROVE  \E c \in Seq(Call) : Take(text, c) /\ native /\ (c = <<>> => calls = <<>>)
      <4> DEFINE new == [known |-> k, told |-> "nothing"]
      <4>1. new \in Call
        BY DEF Call
      <4> HIDE DEF new
      <4>2. Append(calls, new) \in Seq(Call) /\ Append(calls, new) # <<>>
        <5>1. calls \in Seq(Call)
          BY DEF ReplyTyped
        <5>2. Len(Append(calls, new)) = Len(calls) + 1 /\ Len(calls) \in Nat
          BY <5>1
        <5> QED BY <4>1, <5>1, <5>2
      <4> QED BY <1>2, <3>2, <4>2 DEF CallChunk, new
    <3> QED BY <1>2, <3>1, <3>2 DEF CallChunk
  <2>2. Placed'
    BY <1>2 DEF Placed, Handles, Handle, vars
  <2>3. PICK c \in Seq(Call) : Take(text, c) /\ native /\ (c = <<>> => calls = <<>>)
    BY <2>1
  <2> QED BY <1>2, <2>3, <2>2, TakeKeeps DEF Handles, Handle, ReplyTyped, Placed
<1>3. CASE Handles /\ ReasoningChunk
  <2>1. Placed' /\ ~read
    BY <1>3 DEF Placed, Handles, Handle, vars
  <2>2. /\ UNCHANGED <<native, text, calls, read, index, ready, xml, handed, rejected, abort>>
        /\ at = "arrived" /\ at' = "present"
    BY <1>3 DEF Handles, Handle, ReasoningChunk
  <2>3. ReplyTyped' /\ Shaped'
    BY <2>2 DEF ReplyTyped, Shaped, AtCall, Total
  <2>4. Once'
    BY <2>2 DEF ReplyTyped, Once, Distinct, NativePassed, TextPassed, MayFollow, CallNo
  <2>5. PassedAnswered'
    BY <2>1, <2>2 DEF PassedAnswered
  <2> QED BY <2>1, <2>3, <2>4, <2>5
<1>4. CASE Finishes /\ abort
  <2>1. Placed'
    BY <1>4 DEF Placed, Finishes, Finish, vars
  <2> QED BY <1>4, <2>1, ReplyKept DEF Finishes, Finish, ReplyTyped
<1>5. CASE Finishes /\ ~abort
  <2> DEFINE t == [i \in 1..Len(text) |-> [text[i] EXCEPT !.partial = FALSE]]
  <2>1. t \in Seq(Block)
    <3>1. \A i \in 1..Len(text) : text[i] \in Block
      BY DEF ReplyTyped
    <3>2. \A i \in 1..Len(text) : [text[i] EXCEPT !.partial = FALSE] \in Block
      BY <3>1 DEF Block
    <3>3. Len(text) \in Nat
      BY DEF ReplyTyped
    <3> QED BY <3>2, <3>3
  <2>2. Placed'
    BY <1>5 DEF Placed, Finishes, Finish, vars
  <2> QED BY <1>5, <2>1, <2>2, TakeKeeps DEF Finishes, Finish, ReplyTyped, Shaped, Placed
<1> QED BY <1>1, <1>2, <1>3, <1>4, <1>5 DEF Handles, Handle

\* A block that is done with, its calls all handed over and answered for.
LEMMA AdvanceKeeps ==
  ASSUME TurnIInv, Advance, UNCHANGED <<native, abort, text, read>>,
         at \in {"present", "text", "call", "tool"}, index < Total,
         calls' \in Seq(Call), Len(calls') = Len(calls),
         \A c \in 1..Len(calls) : c < CallNo => calls'[c] = calls[c],
         handed' \in Seq(Ids), rejected' \in BOOLEAN, turn' = turn, consumer' = consumer,
         xml' = 0, Distinct',
         \A i \in 1..Len(handed') :
            IF handed'[i].block = 0 THEN read /\ handed'[i].call <= CallNo
                                    ELSE calls = <<>> => handed'[i].block <= index + 1,
         \A c \in 1..Len(calls) : read /\ c < CallNo => IsHanded(c)',
         \A c \in 1..Len(calls) : read /\ c = CallNo => IsHanded(c)' /\ IsTold(c)'
  PROVE  TurnIInv'
<1> USE DEF TurnIInv
<1>0. /\ index' = index + 1 /\ at' \in {"present", "left", "waiting"} /\ CallNo' = CallNo + 1
      /\ at' = "left" => ~read
      /\ at' = "waiting" => read
      /\ CallNo \in Int /\ ready' \in BOOLEAN
      /\ ready' => index' >= Total'
  BY DEF Advance, Return, ReplyTyped, Shaped, Total, CallNo
<1>1. ReplyTyped'
  BY <1>0 DEF ReplyTyped
<1>2. Placed'
  BY <1>0 DEF Placed
<1>3. Shaped'
  BY <1>0 DEF ReplyTyped, Shaped, AtCall
<1>4. Once'
  <2> SUFFICES ASSUME NEW i \in 1..Len(handed')
               PROVE  NativePassed(i)' /\ TextPassed(i)'
    BY DEF Once
  <2>1. handed'[i].block \in Nat /\ handed'[i].call \in Nat
    <3>1. handed'[i] \in Ids
      OBVIOUS
    <3> QED BY <3>1 DEF Ids
  <2>2. NativePassed(i)'
    BY <1>0, <2>1 DEF NativePassed
  <2>3. TextPassed(i)'
    BY <1>0, <2>1 DEF TextPassed, MayFollow, ReplyTyped
  <2> QED BY <2>2, <2>3
<1>5. PassedAnswered'
  <2>1. ASSUME read', NEW c \in 1..Len(calls'), c < CallNo'
        PROVE  IsHanded(c)' /\ IsTold(c)'
    <3>1. CASE c < CallNo
      <4>1. IsTold(c)
        BY <2>1, <3>1 DEF PassedAnswered
      <4> QED BY <2>1, <3>1, <4>1 DEF IsTold
    <3>2. CASE c = CallNo
      BY <2>1, <3>2
    <3> QED BY <1>0, <2>1, <3>1, <3>2
  <2> QED BY <1>0, <2>1 DEF PassedAnswered
<1> QED BY <1>1, <1>2, <1>3, <1>4, <1>5

LEMMA HandedIsIds ==
  ASSUME TurnIInv, NEW i \in 1..Len(handed)
  PROVE  handed[i].block \in Nat /\ handed[i].call \in Nat
<1>1. handed[i] \in Ids
  BY DEF TurnIInv, ReplyTyped
<1> QED BY <1>1 DEF Ids

\* One more call is handed over, of which nothing was handed over yet.
LEMMA HandedGrows ==
  ASSUME handed \in Seq(Ids), Distinct, NEW e \in Ids, handed' = Append(handed, e),
         \A i \in 1..Len(handed) : handed[i] # e
  PROVE  /\ handed' \in Seq(Ids) /\ Distinct'
         /\ Len(handed') = Len(handed) + 1 /\ Len(handed) \in Nat /\ handed'[Len(handed')] = e
         /\ \A i \in 1..Len(handed) : handed'[i] = handed[i]
<1>1. handed' \in Seq(Ids) /\ Len(handed') = Len(handed) + 1 /\ Len(handed) \in Nat
  OBVIOUS
<1>2. handed'[Len(handed')] = e /\ \A i \in 1..Len(handed) : handed'[i] = handed[i]
  BY <1>1
<1>3. Distinct'
  BY <1>1, <1>2 DEF Distinct
<1> QED BY <1>1, <1>2, <1>3

\* What the model is told changes the one call.
LEMMA TellChangesOne ==
  ASSUME calls \in Seq(Call), NEW what \in {"result", "error", "refused"}, Tell(what)
  PROVE  /\ calls' \in Seq(Call) /\ Len(calls') = Len(calls)
         /\ \A c \in 1..Len(calls) : c # CallNo => calls'[c] = calls[c]
         /\ \A c \in 1..Len(calls) : c = CallNo => calls'[c].told # "nothing"
<1>1. Len(calls) \in Nat /\ DOMAIN calls = 1..Len(calls)
  OBVIOUS
<1>2. calls' = [c \in 1..Len(calls) |->
                  IF c = CallNo THEN [calls[c] EXCEPT !.told = IF @ = "nothing" THEN what ELSE @]
                                ELSE calls[c]]
  BY <1>1 DEF Tell
<1>3. \A c \in 1..Len(calls) : calls[c] \in Call
  OBVIOUS
<1>4. \A c \in 1..Len(calls) : calls'[c] \in Call
  BY <1>2, <1>3 DEF Call
<1>5. calls' \in Seq(Call) /\ Len(calls') = Len(calls)
  BY <1>1, <1>2, <1>4
<1>6. ASSUME NEW c \in 1..Len(calls), c = CallNo PROVE calls'[c].told # "nothing"
  BY <1>2, <1>3, <1>6 DEF Call
<1> QED BY <1>2, <1>5, <1>6

\* A step that throws leaves the list as it is, to be presented no further if it is whole.
LEMMA ThrowKeeps ==
  ASSUME TurnIInv, abort, Throw, at \in {"present", "text", "call", "tool"},
         UNCHANGED <<native, abort, text, calls, read, index, ready>>, rejected' \in BOOLEAN,
         xml' = 0, consumer' = consumer, handed' \in Seq(Ids), Distinct',
         \A i \in 1..Len(handed') : handed'[i].block = 0 => read,
         \A c \in 1..Len(calls) : IsHanded(c) => IsHanded(c)'
  PROVE  TurnIInv'
<1> USE DEF TurnIInv, Throw
<1>1. ReplyTyped' /\ Placed'
  BY DEF ReplyTyped, Placed
<1>2. Shaped'
  BY DEF ReplyTyped, Shaped, AtCall, Total
<1>3. Once'
  BY DEF Once, NativePassed, TextPassed, MayFollow
<1>4. PassedAnswered'
  <2>1. ASSUME read', NEW c \in 1..Len(calls'), c < CallNo'
        PROVE  IsHanded(c)' /\ IsTold(c)'
    BY <2>1 DEF PassedAnswered, IsTold, CallNo
  <2> QED BY <2>1 DEF PassedAnswered
<1> QED BY <1>1, <1>2, <1>3, <1>4

LEMMA PresentKeeps ==
  ASSUME TurnIInv, Present, UNCHANGED vars
  PROVE  TurnIInv'
<1> USE DEF TurnIInv
<1>0. /\ at = "present" /\ xml = 0 /\ consumer' = consumer /\ rejected \in BOOLEAN
      /\ UNCHANGED <<native, abort, text, calls, read, rejected, handed>>
      /\ turn # "next"
  BY DEF Present, Shaped, vars, ReplyTyped, Placed
<1>1. CASE abort /\ Throw /\ UNCHANGED <<index, ready, xml>>
  <2>1. handed' \in Seq(Ids) /\ Distinct'
    BY <1>0 DEF ReplyTyped, Once, Distinct
  <2>2. /\ \A i \in 1..Len(handed') : handed'[i].block = 0 => read
        /\ \A c \in 1..Len(calls) : IsHanded(c) => IsHanded(c)'
    BY <1>0 DEF Once, NativePassed, IsHanded
  <2> QED BY <1>0, <1>1, <2>1, <2>2, ThrowKeeps
<1>2. CASE index >= Total /\ NothingLeft /\ UNCHANGED <<index, xml, turn>>
  <2>1. Placed'
    BY <1>0, <1>2 DEF Placed, NothingLeft, Return
  <2> QED BY <1>0, <1>2, <2>1, ReplyKept DEF NothingLeft, Return, ReplyTyped
<1>3. CASE ~abort /\ InText /\ Return /\ UNCHANGED <<index, ready, xml, turn>>
  <2>1. Placed'
    BY <1>0, <1>3 DEF Placed, Return
  <2> QED BY <1>0, <1>3, <2>1, ReplyKept DEF Return, ReplyTyped
<1>4. CASE ~abort /\ InText /\ Advance /\ UNCHANGED <<xml, turn>>
  <2>1. index < Total /\ CallNo <= 0 /\ CallNo \in Int
    BY <1>4 DEF InText, Total, CallNo, ReplyTyped
  <2>2. handed' \in Seq(Ids) /\ Distinct'
    BY <1>0 DEF ReplyTyped, Once, Distinct
  <2>3. ASSUME NEW i \in 1..Len(handed)
        PROVE  IF handed[i].block = 0 THEN read /\ handed[i].call <= CallNo
                                      ELSE calls = <<>> => handed[i].block <= index + 1
    <3>1. handed[i].block \in Nat /\ handed[i].call \in Nat
      BY HandedIsIds
    <3>2. NativePassed(i) /\ TextPassed(i)
      BY DEF Once
    <3>3. CASE handed[i].block = 0
      BY <1>0, <2>1, <3>1, <3>2, <3>3 DEF NativePassed
    <3>4. CASE handed[i].block # 0
      BY <1>0, <1>4, <3>1, <3>2, <3>4 DEF TextPassed, MayFollow, ReplyTyped
    <3> QED BY <3>3, <3>4
  <2>4. \A c \in 1..Len(calls) : read /\ c < CallNo => IsHanded(c)'
    BY <2>1
  <2>5. \A c \in 1..Len(calls) : read /\ c = CallNo => IsHanded(c)' /\ IsTold(c)'
    BY <2>1
  <2>6. calls' \in Seq(Call)
    BY <1>0 DEF ReplyTyped
  <2> QED BY <1>0, <1>4, <2>1, <2>2, <2>3, <2>4, <2>5, <2>6, AdvanceKeeps
<1>5. CASE ~abort /\ InText /\ HasXml /\ at' = "text" /\ xml' = 1 /\ UNCHANGED <<index, ready, turn>>
  <2>1. ReplyTyped' /\ Placed'
    BY <1>0, <1>5 DEF ReplyTyped, Placed
  <2>2. Shaped'
    BY <1>0, <1>5 DEF ReplyTyped, Shaped, AtCall, Total, InText, HasXml
  <2>3. ASSUME NEW i \in 1..Len(handed)
        PROVE  NativePassed(i)' /\ TextPassed(i)'
    <3>1. handed[i].block \in Nat /\ handed[i].call \in Nat /\ NativePassed(i) /\ TextPassed(i)
      BY HandedIsIds DEF Once
    <3>2. NativePassed(i)'
      BY <1>0, <1>5, <3>1 DEF NativePassed, CallNo
    <3>3. TextPassed(i)'
      BY <1>0, <1>5, <3>1 DEF TextPassed, MayFollow, ReplyTyped
    <3> QED BY <3>2, <3>3
  <2>4. PassedAnswered'
    BY <1>0, <1>5 DEF PassedAnswered, IsHanded, IsTold, CallNo
  <2>5. Once'
    BY <1>0, <2>3 DEF Once, Distinct
  <2> QED BY <2>1, <2>2, <2>4, <2>5
<1>6. CASE index < Total /\ ~InText /\ at' = "call" /\ UNCHANGED <<index, ready, xml, turn>>
  <2>1. ReplyTyped' /\ Placed'
    BY <1>0, <1>6 DEF ReplyTyped, Placed
  <2>2. Shaped'
    BY <1>0, <1>6 DEF ReplyTyped, Shaped, AtCall, Total, InText
  <2>3. Once'
    BY <1>0, <1>6 DEF Once, Distinct, NativePassed, TextPassed, MayFollow, CallNo, ReplyTyped
  <2>4. PassedAnswered'
    BY <1>0, <1>6 DEF PassedAnswered, IsHanded, IsTold, CallNo
  <2> QED BY <2>1, <2>2, <2>3, <2>4
<1> QED BY <1>1, <1>2, <1>3, <1>4, <1>5, <1>6 DEF Present

\* A native call that the index stands at: what was handed over is passed.
LEMMA AtACall ==
  ASSUME TurnIInv, at = "call"
  PROVE  /\ xml = 0 /\ turn # "next" /\ index < Total /\ calls # <<>>
         /\ CallNo \in 1..Len(calls) /\ index \in Nat /\ Len(text) \in Nat
         /\ \A i \in 1..Len(handed) : handed[i].block = 0 => read /\ handed[i].call < CallNo
         /\ calls \in Seq(Call) /\ handed \in Seq(Ids) /\ Distinct
<1> USE DEF TurnIInv
<1>1. xml = 0 /\ turn # "next" /\ index < Total /\ Len(text) <= index
  BY DEF Shaped, AtCall, Placed
<1>2. /\ CallNo \in 1..Len(calls) /\ index \in Nat /\ Len(text) \in Nat /\ calls # <<>>
      /\ calls \in Seq(Call) /\ handed \in Seq(Ids)
  BY <1>1 DEF CallNo, Total, ReplyTyped
<1>3. Distinct /\ \A i \in 1..Len(handed) : handed[i].block = 0 => read /\ handed[i].call < CallNo
  BY DEF Once, NativePassed
<1> QED BY <1>1, <1>2, <1>3

LEMMA PreviewKeeps ==
  ASSUME TurnIInv, Preview, UNCHANGED vars
  PROVE  TurnIInv'
<1> USE DEF TurnIInv
<1>0. /\ at = "call" /\ ~read /\ consumer' = consumer /\ rejected \in BOOLEAN
      /\ UNCHANGED <<native, abort, text, read, rejected, xml, handed, turn>>
  BY DEF Preview, Partial, vars, ReplyTyped
<1>1. /\ calls' \in Seq(Call) /\ Len(calls') = Len(calls)
      /\ \A c \in 1..Len(calls) : c # CallNo => calls'[c] = calls[c]
  BY <1>0, AtACall, TellChangesOne DEF Preview
<1>2. \A i \in 1..Len(handed) : handed[i].block # 0
  BY <1>0, AtACall
<1>3. handed' \in Seq(Ids) /\ Distinct'
  BY <1>0, AtACall DEF Distinct
<1>4. CASE Advance
  <2>1. CallNo \in Nat
    BY <1>0, AtACall
  <2>2. \A c \in 1..Len(calls) : c < CallNo => calls'[c] = calls[c]
    BY <1>1, <2>1
  <2> QED BY <1>0, <1>1, <1>2, <1>3, <1>4, <2>2, AtACall, AdvanceKeeps
<1>5. CASE Return /\ UNCHANGED <<index, ready>>
  <2>1. at' = "left"
    BY <1>0, <1>5 DEF Return
  <2>2. ReplyTyped' /\ Placed'
    BY <1>0, <1>1, <1>3, <1>5, <2>1 DEF ReplyTyped, Placed
  <2>3. Shaped'
    BY <1>0, <1>1, <1>5, <2>1, AtACall DEF Shaped, AtCall, Total
  <2>4. Once'
    BY <1>0, <1>1, <1>2, <1>3, <1>5, <2>1, AtACall DEF Once, NativePassed, TextPassed, MayFollow
  <2>5. PassedAnswered'
    BY <1>0, <2>1 DEF PassedAnswered
  <2> QED BY <2>2, <2>3, <2>4, <2>5
<1> QED BY <1>4, <1>5 DEF Preview

LEMMA HandOverKeeps ==
  ASSUME TurnIInv, HandOver, UNCHANGED vars
  PROVE  TurnIInv'
<1> USE DEF TurnIInv
<1> DEFINE e == [block |-> 0, call |-> CallNo]
<1>0. /\ at = "call" /\ read /\ consumer' = consumer /\ rejected \in BOOLEAN
      /\ UNCHANGED <<native, abort, text, read, rejected, xml>>
      /\ handed' = Append(handed, e)
  BY DEF HandOver, Partial, vars, ReplyTyped
<1>1. e \in Ids /\ \A i \in 1..Len(handed) : handed[i] # e
  <2>1. CallNo \in Nat
    BY <1>0, AtACall
  <2>2. ASSUME NEW i \in 1..Len(handed), handed[i] = e PROVE FALSE
    <3>1. handed[i].block = 0 /\ handed[i].call = CallNo
      BY <2>2
    <3> QED BY <1>0, <2>1, <3>1, AtACall
  <2> QED BY <2>1, <2>2 DEF Ids
<1>2. /\ handed' \in Seq(Ids) /\ Distinct'
      /\ Len(handed') = Len(handed) + 1 /\ Len(handed) \in Nat /\ handed'[Len(handed')] = e
      /\ \A i \in 1..Len(handed) : handed'[i] = handed[i]
  BY <1>0, <1>1, AtACall, HandedGrows
<1>3. \A c \in 1..Len(calls) : IsHanded(c) \/ c = CallNo => IsHanded(c)'
  BY <1>2 DEF IsHanded
<1>4. \A i \in 1..Len(handed') : i \in 1..Len(handed) \/ handed'[i] = e
  BY <1>2
<1>5. \A i \in 1..Len(handed') : handed'[i].block = 0 => handed'[i].call <= CallNo
  <2> SUFFICES ASSUME NEW i \in 1..Len(handed'), handed'[i].block = 0
               PROVE  handed'[i].call <= CallNo
    OBVIOUS
  <2>1. CallNo \in Nat
    BY <1>0, AtACall
  <2>2. CASE i \in 1..Len(handed)
    BY <1>0, <1>2, <2>1, <2>2, AtACall, HandedIsIds
  <2>3. CASE handed'[i] = e
    BY <2>1, <2>3
  <2> QED BY <1>4, <2>2, <2>3
<1>6. CASE Advance /\ UNCHANGED turn
  <2>1. /\ calls' \in Seq(Call) /\ Len(calls') = Len(calls)
        /\ \A c \in 1..Len(calls) : c # CallNo => calls'[c] = calls[c]
    BY <1>0, <1>6, AtACall, TellChangesOne DEF HandOver, Advance, Return
  <2>2. \A c \in 1..Len(calls) : c = CallNo => IsTold(c)'
    <3>1. index' # index
      BY <1>0, <1>6, AtACall DEF Advance
    <3>2. CASE (~calls[CallNo].known \/ (abort /\ ~Refused)) /\ UNCHANGED calls
      BY <1>0, <3>2 DEF IsTold
    <3>3. CASE Tell("refused") \/ Tell("error")
      BY <1>0, <3>3, AtACall, TellChangesOne DEF IsTold
    <3> QED BY <3>1, <3>2, <3>3 DEF HandOver
  <2>3. CallNo \in Nat
    BY <1>0, AtACall
  <2>5. \A c \in 1..Len(calls) : c < CallNo => calls'[c] = calls[c]
    BY <2>1, <2>3
  <2>4. \A c \in 1..Len(calls) : read /\ c < CallNo => IsHanded(c)'
    BY <1>3 DEF PassedAnswered
  <2> QED BY <1>0, <1>2, <1>3, <1>5, <1>6, <2>1, <2>2, <2>4, <2>5, AtACall, AdvanceKeeps
<1>7. CASE abort /\ Throw /\ UNCHANGED <<calls, index, ready>>
  BY <1>0, <1>2, <1>3, <1>7, AtACall, ThrowKeeps
<1>8. CASE at' = "tool" /\ UNCHANGED <<turn, calls, index, ready>>
  <2>1. ReplyTyped' /\ Placed'
    BY <1>0, <1>2, <1>8 DEF ReplyTyped, Placed
  <2>2. Shaped'
    BY <1>0, <1>8, AtACall DEF Shaped, AtCall, Total
  <2>3. Once'
    <3>1. ~MayFollow'
      BY <1>0, <1>8, AtACall DEF MayFollow
    <3>2. ASSUME NEW i \in 1..Len(handed') PROVE NativePassed(i)'
      <4>1. CASE i \in 1..Len(handed)
        BY <1>0, <1>2, <1>8, <4>1, AtACall DEF NativePassed, CallNo
      <4>2. CASE handed'[i] = e
        BY <1>0, <1>8, <4>2, AtACall DEF NativePassed, CallNo
      <4> QED BY <1>4, <4>1, <4>2
    <3> QED BY <1>2, <3>1, <3>2 DEF Once, TextPassed
  <2>4. PassedAnswered'
    <3>1. CallNo' = CallNo /\ CallNo \in 1..Len(calls)
      BY <1>0, <1>8, AtACall DEF CallNo
    <3>2. \A c \in 1..Len(calls) : c < CallNo => IsHanded(c)' /\ IsTold(c)'
      BY <1>0, <1>3, <1>8 DEF PassedAnswered, IsTold
    <3>3. IsHanded(CallNo)'
      BY <1>2, <3>1 DEF IsHanded
    <3> QED BY <1>8, <3>1, <3>2, <3>3 DEF PassedAnswered
  <2> QED BY <2>1, <2>2, <2>3, <2>4
<1> QED BY <1>0, <1>6, <1>7, <1>8 DEF HandOver

\* The calls of a text: no native call is there, and what was handed over is passed.
LEMMA InAText ==
  ASSUME TurnIInv, xml > 0
  PROVE  /\ turn # "next" /\ index < Len(text) /\ calls = <<>> /\ Len(calls) = 0
         /\ index < Total /\ index \in Nat /\ xml \in Nat /\ CallNo \in Int /\ CallNo <= 0
         /\ \A i \in 1..Len(handed) : /\ handed[i].block = 0 => read /\ at = "loop"
                                      /\ MayFollow => handed[i].block <= index + 1
<1> USE DEF TurnIInv
<1>1. /\ index < Len(text) /\ calls = <<>> /\ Len(calls) = 0 /\ index \in Nat /\ xml \in Nat
      /\ Len(text) \in Nat
  BY DEF Shaped, ReplyTyped
<1>2. index < Total /\ CallNo \in Int /\ CallNo <= 0
  BY <1>1 DEF Total, CallNo
<1>3. turn # "next"
  BY DEF Shaped, Placed
<1>4. ASSUME NEW i \in 1..Len(handed)
      PROVE  /\ handed[i].block = 0 => read /\ at = "loop"
             /\ MayFollow => handed[i].block <= index + 1
  <2>1. handed[i].block \in Nat /\ handed[i].call \in Nat /\ NativePassed(i) /\ TextPassed(i)
    BY HandedIsIds DEF Once
  <2>2. handed[i].block = 0 => read /\ at = "loop"
    BY <1>1, <1>2, <2>1 DEF NativePassed
  <2>3. MayFollow => handed[i].block <= index + 1
    BY <1>1, <2>1 DEF TextPassed
  <2> QED BY <2>2, <2>3
<1> QED BY <1>1, <1>2, <1>3, <1>4

LEMMA NextXmlKeeps ==
  ASSUME TurnIInv, NextXml, UNCHANGED vars
  PROVE  TurnIInv'
<1> USE DEF TurnIInv
<1>0. /\ at = "text" /\ xml > 0 /\ consumer' = consumer /\ rejected \in BOOLEAN
      /\ UNCHANGED <<native, abort, text, calls, read, rejected>>
      /\ calls \in Seq(Call) /\ handed \in Seq(Ids) /\ Distinct /\ MayFollow
  BY InAText DEF NextXml, vars, ReplyTyped, Shaped, Once, MayFollow
<1>1. CASE xml' = 0 /\ UNCHANGED handed /\ abort /\ Throw /\ UNCHANGED <<index, ready>>
  <2>1. Distinct' /\ \A c \in 1..Len(calls) : IsHanded(c) => IsHanded(c)'
    BY <1>0, <1>1 DEF Distinct, IsHanded
  <2>2. \A i \in 1..Len(handed') : handed'[i].block = 0 => read
    BY <1>0, <1>1, InAText
  <2> QED BY <1>0, <1>1, <2>1, <2>2, ThrowKeeps
<1>2. CASE xml' = 0 /\ UNCHANGED handed /\ Advance /\ UNCHANGED turn
  <2>1. Distinct'
    BY <1>0, <1>2 DEF Distinct
  <2>2. \A i \in 1..Len(handed) :
          IF handed'[i].block = 0 THEN read /\ handed'[i].call <= CallNo
                                  ELSE calls = <<>> => handed'[i].block <= index + 1
    BY <1>0, <1>2, InAText
  <2> QED BY <1>0, <1>2, <2>1, <2>2, InAText, AdvanceKeeps
<1>3. CASE handed' = Append(handed, [block |-> index + 1, call |-> xml]) /\ UNCHANGED <<index, ready>>
  <2> DEFINE e == [block |-> index + 1, call |-> xml]
  <2>0. e \in Ids
    BY <1>0, InAText DEF Ids
  <2>1. ASSUME NEW i \in 1..Len(handed), handed[i] = e PROVE FALSE
    <3>1. handed[i].block = index + 1 /\ handed[i].call = xml /\ TextPassed(i)
      BY <2>1 DEF Once
    <3> QED BY <1>0, <3>1, InAText DEF TextPassed
  <2>2. /\ handed' \in Seq(Ids) /\ Distinct'
        /\ Len(handed') = Len(handed) + 1 /\ Len(handed) \in Nat /\ handed'[Len(handed')] = e
        /\ \A i \in 1..Len(handed) : handed'[i] = handed[i]
    BY <1>0, <1>3, <2>0, <2>1, HandedGrows
  <2>3. \A i \in 1..Len(handed') : i \in 1..Len(handed) \/ handed'[i] = e
    BY <2>2
  <2>4. \A i \in 1..Len(handed') : handed'[i].block # 0
    <3>1. e.block # 0
      BY <1>0, InAText
    <3> QED BY <1>0, <2>2, <2>3, <3>1, InAText
  <2>5. CASE abort /\ xml' = 0 /\ Throw
    <3>1. \A c \in 1..Len(calls) : IsHanded(c) => IsHanded(c)'
      BY <1>0, InAText
    <3> QED BY <1>0, <1>3, <2>2, <2>4, <2>5, <3>1, ThrowKeeps
  <2>6. CASE \/ xml' = xml + 1 /\ UNCHANGED <<at, turn>>
             \/ at' = "tool" /\ UNCHANGED <<xml, turn>>
    <3>1. ReplyTyped' /\ Placed'
      BY <1>0, <1>3, <2>2, <2>6, InAText DEF ReplyTyped, Placed
    <3>2. Shaped'
      BY <1>0, <1>3, <2>6, InAText DEF Shaped, AtCall, Total
    <3>3. ASSUME NEW i \in 1..Len(handed') PROVE NativePassed(i)' /\ TextPassed(i)'
      <4>1. CASE i \in 1..Len(handed)
        <5>1. TextPassed(i) /\ handed'[i] = handed[i] /\ handed[i].call \in Nat
          BY <2>2, <4>1, HandedIsIds DEF Once
        <5> QED BY <1>0, <1>3, <2>4, <2>6, <5>1, InAText DEF NativePassed, TextPassed
      <4>2. CASE handed'[i] = e
        BY <1>0, <1>3, <2>4, <2>6, <4>2, InAText DEF NativePassed, TextPassed
      <4> QED BY <2>3, <4>1, <4>2
    <3>4. PassedAnswered'
      BY <1>0, <1>3, <2>6, InAText DEF PassedAnswered
    <3> QED BY <2>2, <3>1, <3>2, <3>3, <3>4 DEF Once
  <2> QED BY <1>0, <1>3, <2>5, <2>6 DEF NextXml
<1> QED BY <1>0, <1>1, <1>2, <1>3 DEF NextXml

LEMMA ReturnsKeeps ==
  ASSUME TurnIInv, Returns
  PROVE  TurnIInv'
<1> USE DEF TurnIInv
<1>0. /\ at = "tool" /\ turn # "next" /\ consumer' = consumer /\ rejected' \in BOOLEAN
      /\ UNCHANGED <<native, abort, text, read, handed>> /\ xml \in Nat
      /\ calls \in Seq(Call) /\ handed \in Seq(Ids) /\ Distinct /\ Distinct'
  BY DEF Returns, ToolReturns, vars, ReplyTyped, Placed, Once, Distinct
<1>1. \A c \in 1..Len(calls) : IsHanded(c) = IsHanded(c)'
  BY <1>0 DEF IsHanded
<1>2. CASE abort /\ Throw /\ xml' = 0 /\ UNCHANGED <<calls, index, ready>>
  <2>1. \A i \in 1..Len(handed') : handed'[i].block = 0 => read
    BY <1>0 DEF Once, NativePassed
  <2> QED BY <1>0, <1>1, <1>2, <2>1, ThrowKeeps
<1>3. CASE xml > 0 /\ at' = "text" /\ xml' = xml + 1 /\ UNCHANGED <<calls, index, ready, turn>>
  <2>1. ReplyTyped' /\ Placed'
    BY <1>0, <1>3 DEF ReplyTyped, Placed
  <2>2. Shaped'
    BY <1>0, <1>3, InAText DEF Shaped, AtCall, Total
  <2>3. ASSUME NEW i \in 1..Len(handed') PROVE NativePassed(i)' /\ TextPassed(i)'
    <3>1. TextPassed(i) /\ handed[i].call \in Nat
      BY <1>0, HandedIsIds DEF Once
    <3>2. handed[i].block # 0
      BY <1>0, <1>3, InAText
    <3> QED BY <1>0, <1>3, <3>1, <3>2, InAText DEF NativePassed, TextPassed, MayFollow
  <2>4. PassedAnswered'
    BY <1>0, <1>3, InAText DEF PassedAnswered
  <2> QED BY <1>0, <2>1, <2>2, <2>3, <2>4 DEF Once
<1>4. CASE xml = 0 /\ (Tell("result") \/ Tell("error")) /\ Advance /\ UNCHANGED <<xml, turn>>
  <2>1. /\ index < Total /\ calls # <<>> /\ read /\ CallNo \in 1..Len(calls)
    BY <1>0, <1>4 DEF Shaped, AtCall, Total, CallNo, ReplyTyped
  <2>2. /\ calls' \in Seq(Call) /\ Len(calls') = Len(calls)
        /\ \A c \in 1..Len(calls) : c # CallNo => calls'[c] = calls[c]
        /\ \A c \in 1..Len(calls) : c = CallNo => calls'[c].told # "nothing"
    BY <1>0, <1>4, TellChangesOne
  <2>3. \A c \in 1..Len(calls) : read /\ c < CallNo => IsHanded(c)'
    BY <1>1 DEF PassedAnswered
  <2>4. \A c \in 1..Len(calls) : read /\ c = CallNo => IsHanded(c)' /\ IsTold(c)'
    BY <1>0, <1>1, <1>4, <2>2 DEF PassedAnswered, IsTold
  <2>5. ASSUME NEW i \in 1..Len(handed)
        PROVE  IF handed'[i].block = 0 THEN read /\ handed'[i].call <= CallNo
                                       ELSE calls = <<>> => handed'[i].block <= index + 1
    <3>1. handed[i].call \in Nat /\ NativePassed(i)
      BY HandedIsIds DEF Once
    <3> QED BY <1>0, <2>1, <3>1 DEF NativePassed
  <2>6. \A c \in 1..Len(calls) : c < CallNo => calls'[c] = calls[c]
    BY <2>1, <2>2
  <2> QED BY <1>0, <1>4, <2>1, <2>2, <2>3, <2>4, <2>5, <2>6, AdvanceKeeps
<1> QED BY <1>0, <1>2, <1>3, <1>4 DEF Returns, ToolReturns

LEMMA NextTurnIInv == TurnIInv /\ [TurnNext]_turnVars => TurnIInv'
<1> SUFFICES ASSUME TurnIInv, [TurnNext]_turnVars PROVE TurnIInv'
  OBVIOUS
<1>1. CASE Presents
  BY <1>1, PresentKeeps, PreviewKeeps, HandOverKeeps, NextXmlKeeps, LoopKeeps
     DEF Presents, ReplyStep
<1>2. CASE Handles \/ Finishes
  BY <1>2, NewListKeeps
<1>3. CASE Returns
  BY <1>3, ReturnsKeeps
<1> QED BY <1>1, <1>2, <1>3, LoopKeeps DEF TurnNext, Loop

\* When the turn of a live task goes on, the index has passed every call.
LEMMA TurnIInvEachCallOnce == TurnIInv => EachCallOnce
<1> SUFFICES ASSUME TurnIInv PROVE EachCallOnce
  OBVIOUS
<1> USE DEF TurnIInv
<1>1. ASSUME turn = "next", ~abort, NEW c \in 1..Len(calls)
      PROVE  IsHanded(c) /\ (calls[c].known => calls[c].told # "nothing")
  <2>1. read /\ index >= Total
    BY <1>1 DEF Placed, Shaped
  <2>2. c < CallNo
    BY <2>1 DEF Total, CallNo, ReplyTyped
  <2> QED BY <1>1, <2>1, <2>2 DEF PassedAnswered, IsTold
<1> QED BY <1>1 DEF EachCallOnce, Once, Distinct, IsHanded

\* For replies of any length and shape, cut up and parsed anew in any way: no call is
\* executed twice, and when the turn of a live task goes on every native call has been
\* executed or answered for.
THEOREM CallsRunOnce == TurnSpec => []EachCallOnce
<1>1. TurnInit => TurnIInv
  BY InitTurnIInv
<1>2. TurnIInv /\ [TurnNext]_turnVars => TurnIInv'
  BY NextTurnIInv
<1>3. TurnIInv => EachCallOnce
  BY TurnIInvEachCallOnce
<1> QED BY <1>1, <1>2, <1>3, PTL DEF TurnSpec

===============================================================================

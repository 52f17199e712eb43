-------------------------- MODULE StreamCoordinator --------------------------
(***************************************************************************)
(* src/core/task/StreamChunkCoordinator.ts and the loop of                 *)
(* AgentLoopRunner.makeRequest that reads it.  Two coroutines share the    *)
(* coordinator: the pump, which awaits the provider's async generator, and *)
(* the consumer, which calls nextChunk, works on the chunk (tool runs, ask *)
(* prompts) and finally calls waitForCompletion or stop.  JavaScript runs  *)
(* one of them at a time, up to its next await: a step is such a stretch.  *)
(***************************************************************************)
EXTENDS Naturals, Sequences

CONSTANTS MaxChunks,  \* bound: non-usage chunks the provider produces
          MaxUsage    \* bound: usage chunks the provider produces

ASSUME BoundsAssumption == MaxChunks \in Nat /\ MaxUsage \in Nat

VARIABLES produced,      \* non-usage chunks read from the generator, numbered from 1
          usageSeen,     \* usage chunks handed to onUsageChunk
          queue,         \* this.queue: the numbers of the chunks it holds
          readError,     \* this.readError is set
          completed,     \* this.completed
          stopRequested, \* this.stopRequested
          waiter,        \* this.waiterResolve is set
          pump,          \* "reading" (awaits iterator.next()) or "done"
          consumer,      \* where the agent loop stands
          failure,       \* the loop leaves through its catch
          got            \* the number of the last chunk nextChunk returned

vars == <<produced, usageSeen, queue, readError, completed, stopRequested,
          waiter, pump, consumer, failure, got>>

flags == <<readError, completed, stopRequested>>

Finished == {"ended", "stopped", "failed"}

TypeOK ==
  /\ produced \in 0..MaxChunks
  /\ usageSeen \in 0..MaxUsage
  /\ queue \in Seq(1..MaxChunks)
  /\ readError \in BOOLEAN /\ completed \in BOOLEAN
  /\ stopRequested \in BOOLEAN /\ waiter \in BOOLEAN
  /\ pump \in {"reading", "done"}
  /\ consumer \in {"calling", "waiting", "working", "draining", "closing"}
                    \union Finished
  /\ failure \in BOOLEAN
  /\ got \in 0..MaxChunks

\* The constructor starts the pump, which calls iterator.next() at once.
Init == /\ produced = 0 /\ usageSeen = 0 /\ queue = <<>>
        /\ readError = FALSE /\ completed = FALSE /\ stopRequested = FALSE
        /\ waiter = FALSE /\ pump = "reading"
        /\ consumer = "calling" /\ failure = FALSE /\ got = 0

-----------------------------------------------------------------------------
\* The pump.

\* A mutated pump that reads on only when the consumer has taken every chunk: the
\* single path that the split replaces.
ReadingInTurn == pump = "reading" /\ queue = <<>>

Reading == pump = "reading"

\* The finally clause: completed, then notifyWaiter.
Finally == pump' = "done" /\ completed' = TRUE /\ waiter' = FALSE

\* The loop condition is tested again after each chunk: a chunk that was being
\* read when stop() was called is still handled, and is the last one.
LoopTest(w) == IF stopRequested THEN Finally
                                ELSE waiter' = w /\ UNCHANGED <<pump, completed>>

\* A mutated push that puts a new chunk in front of the ones not yet read.
PushFront(c) == <<c>> \o queue

Push(c) == Append(queue, c)

ReadChunk == /\ Reading /\ produced < MaxChunks
             /\ produced' = produced + 1
             /\ queue' = Push(produced + 1)
             /\ LoopTest(FALSE)
             /\ UNCHANGED <<usageSeen, readError, stopRequested, consumer, failure, got>>

ReadUsage ==
  /\ Reading /\ usageSeen < MaxUsage
  /\ usageSeen' = usageSeen + 1
  /\ LoopTest(waiter)
  /\ UNCHANGED <<produced, queue, readError, stopRequested, consumer, failure, got>>

StreamEnds == /\ Reading
              /\ Finally
              /\ UNCHANGED <<produced, usageSeen, queue, readError, stopRequested,
                             consumer, failure, got>>

StreamThrows == /\ Reading
                /\ readError' = TRUE
                /\ Finally
                /\ UNCHANGED <<produced, usageSeen, queue, stopRequested,
                               consumer, failure, got>>

-----------------------------------------------------------------------------
\* The consumer.  nextChunk tests the error before the queue: what was queued
\* ahead of the error is not delivered.

NextChunkThrows == /\ consumer = "calling" /\ readError
                   /\ consumer' = "closing" /\ failure' = TRUE
                   /\ stopRequested' = TRUE
                   /\ UNCHANGED <<produced, usageSeen, queue, readError, completed,
                                  waiter, pump, got>>

NextChunkReturns == /\ consumer = "calling" /\ ~readError /\ queue # <<>>
                    /\ got' = Head(queue)
                    /\ queue' = Tail(queue)
                    /\ consumer' = "working"
                    /\ UNCHANGED <<produced, usageSeen, flags, waiter, pump, failure>>

NextChunkEnds == /\ consumer = "calling" /\ ~readError /\ queue = <<>> /\ completed
                 /\ consumer' = "draining"
                 /\ UNCHANGED <<produced, usageSeen, queue, flags, waiter, pump,
                                failure, got>>

\* waitForData tests its condition and sets waiterResolve without an await between.
NextChunkWaits == /\ consumer = "calling" /\ ~readError /\ queue = <<>> /\ ~completed
                  /\ consumer' = "waiting" /\ waiter' = TRUE
                  /\ UNCHANGED <<produced, usageSeen, queue, flags, pump, failure, got>>

Wake == /\ consumer = "waiting" /\ ~waiter
        /\ consumer' = "calling"
        /\ UNCHANGED <<produced, usageSeen, queue, flags, waiter, pump, failure, got>>

ChunkHandled == /\ consumer = "working"
                /\ consumer' = "calling"
                /\ UNCHANGED <<produced, usageSeen, queue, flags, waiter, pump,
                               failure, got>>

\* The task was aborted or a tool rejected (stop()), or handling the chunk threw
\* (the catch clause calls stop() too).
Interrupt == /\ consumer = "working"
             /\ consumer' = "closing" /\ failure' \in BOOLEAN
             /\ stopRequested' = TRUE
             /\ UNCHANGED <<produced, usageSeen, queue, readError, completed,
                            waiter, pump, got>>

\* waitForCompletion awaits the pump and rethrows its error.
Drained == /\ consumer = "draining" /\ pump = "done"
           /\ IF readError
                THEN consumer' = "closing" /\ failure' = TRUE /\ stopRequested' = TRUE
                ELSE consumer' = "ended" /\ UNCHANGED <<failure, stopRequested>>
           /\ UNCHANGED <<produced, usageSeen, queue, readError, completed, waiter,
                          pump, got>>

\* iterator.return() is queued behind the outstanding next(): stop() returns only
\* when that read has settled and the pump has left its loop.
Stopped == /\ consumer = "closing" /\ pump = "done"
           /\ consumer' = IF failure THEN "failed" ELSE "stopped"
           /\ UNCHANGED <<produced, usageSeen, queue, flags, waiter, pump, failure, got>>

-----------------------------------------------------------------------------
Provider == ReadChunk \/ ReadUsage \/ StreamEnds \/ StreamThrows

NextChunk == NextChunkThrows \/ NextChunkReturns \/ NextChunkEnds \/ NextChunkWaits

Consumer == NextChunk \/ Wake \/ ChunkHandled \/ Interrupt \/ Drained \/ Stopped

Next == Provider \/ Consumer

Spec == Init /\ [][Next]_vars

-----------------------------------------------------------------------------
\* The consumer never sleeps while there is something to tell it: whenever its
\* resolver is armed the queue is empty and the stream is neither over nor broken.
NoLostWakeup ==
  consumer = "waiting" /\ waiter => queue = <<>> /\ ~completed /\ ~readError

\* The coordinator is an ordered channel that ends only when read to the end and
\* is quiet once closed: no chunk is lost, repeated, reordered or read after stop().
Channel == INSTANCE ChunkChannel WITH
             sent <- produced,
             received <- got,
             outcome <- IF consumer \in Finished THEN consumer ELSE "open"

ImplementsChannel == Channel!Spec

\* The header comment's reason for the split: token and cost updates go on, and
\* the stream is read to its end, even when the consumer never returns from a
\* prompt.
ReadToEndWithoutConsumer == <>completed

=============================================================================

------------------------------ MODULE AgentTurn ------------------------------
(***************************************************************************)
(* One turn of the agent loop, AgentLoopRunner.makeRequest from the        *)
(* request to the results: the stream of StreamCoordinator, whose consumer *)
(* hands each chunk to ReplyPresenter and stops the stream when the task   *)
(* was aborted or a tool rejected, and the tools that are started while    *)
(* the provider goes on.                                                   *)
(***************************************************************************)
EXTENDS StreamCoordinator, ReplyPresenter

turnVars == <<vars, replyVars>>

TurnTypeOK == TypeOK /\ ReplyTypeOK

TurnInit == Init /\ ReplyInit

\* The provider goes on whatever the loop does; the rest of the coordinator is the loop's
\* own calls.
Pump == Provider /\ UNCHANGED replyVars

Calls == /\ NextChunkThrows \/ NextChunkEnds \/ NextChunkWaits \/ Wake \/ Drained \/ Stopped
         /\ UNCHANGED replyVars

Arrives == /\ NextChunkReturns /\ at' = "arrived"
           /\ UNCHANGED <<native, abort, text, calls, read, index, ready, rejected, xml, handed, turn>>

Handles == Handle /\ UNCHANGED vars

\* Completing the message of the reasoning may throw: it is found by its index.
HandlingThrows ==
  /\ at = "arrived" /\ at' = "loop"
  /\ Interrupt /\ failure' = TRUE
  /\ UNCHANGED <<native, abort, text, calls, read, index, ready, rejected, xml, handed, turn>>

\* Back from presenting: abort and rejection are looked at after each chunk.
Handled ==
  /\ at = "left" /\ at' = "loop"
  /\ IF abort \/ rejected THEN Interrupt /\ failure' = FALSE ELSE ChunkHandled
  /\ UNCHANGED <<native, abort, text, calls, read, index, ready, rejected, xml, handed, turn>>

Finishes == consumer \in {"ended", "stopped"} /\ Finish /\ UNCHANGED vars

\* The catch of the stream: the task is aborted and reopened (TaskSession).
Fails == /\ consumer = "failed" /\ turn = "open" /\ turn' = "thrown"
         /\ UNCHANGED <<vars, native, abort, text, calls, read, index, ready, rejected, at, xml, handed>>

Presents == ReplyStep /\ UNCHANGED vars
Returns == ToolReturns /\ UNCHANGED vars
Aborts == Abort /\ UNCHANGED vars

Loop == Calls \/ Arrives \/ Handles \/ HandlingThrows \/ Handled \/ Finishes \/ Fails \/ Presents

TurnNext == Pump \/ Loop \/ Returns \/ Aborts

TurnSpec == TurnInit /\ [][TurnNext]_turnVars

\* The provider answers every read, and the loop goes on; a tool may wait for the user
\* for ever.
FairTurn == /\ TurnSpec
            /\ WF_turnVars(Pump)
            /\ WF_turnVars(Loop)

-----------------------------------------------------------------------------
\* If tools return, the turn ends: no wait for a chunk, no stop() and no poll for the
\* end of the presentation hangs, however the reply was cut up.
TurnEnds == WF_turnVars(Returns) => <>(turn # "open")

=============================================================================

-------------------------- MODULE TaskSession_proofs --------------------------
(***************************************************************************)
(* What holds of TaskSession for any number of tasks and users: types, one *)
(* cancellation at a time, and no abandoned task left on the screen.       *)
(***************************************************************************)
EXTENDS TaskSession, TaskMessages, SequenceTheorems, WellFoundedInduction, TLAPS

\* Only a cancellation waits, only a cancellation or a re-initialisation looks a
\* task up, and a task that makes a call is re-initialising itself.
CallShape ==
  /\ \A c \in Callers : At(c, "waiting") => call[c].op = "cancel"
  /\ \A c \in Callers : At(c, "lookup") => call[c].op \in {"cancel", "reinit"}
  /\ \A t \in Tasks : ~At(t, "idle") => call[t].op = "reinit" /\ phase[t] = "reopening"

IInv == TypeOK /\ CallShape /\ OneCancel /\ AbandonedOnlyInCancel

LEMMA NoRetriesYet == 0 \in 0..MaxRetry
  BY SessionAssumption

LEMMA InitIInv == Init => IInv
<1> SUFFICES ASSUME Init PROVE IInv
  OBVIOUS
<1>1. \A c \in Callers : call[c] = Idle
  BY DEF Init
<1>2. Idle \in Calls
  BY DEF Idle, Calls, Ops, Stages
<1>3. TypeOK
  BY <1>2, NoRetriesYet DEF Init, TypeOK, Phases, Responses
<1>4. \A c \in Callers : At(c, "idle")
  BY <1>1 DEF At, Idle
<1>5. CallShape
  BY <1>4, SMT DEF CallShape, At, Callers
<1>6. OneCancel
  BY <1>4 DEF OneCancel, Cancelling, Init
<1>7. AbandonedOnlyInCancel
  BY DEF AbandonedOnlyInCancel, Init
<1> QED
  BY <1>3, <1>5, <1>6, <1>7 DEF IInv

-----------------------------------------------------------------------------
\* Types.

\* A step that moves a caller keeps the call table well typed and the others in place.
LEMMA MoveTypes ==
  ASSUME TypeOK, NEW c \in Callers, NEW kind \in Ops, NEW stage \in Stages,
         NEW target \in Tasks \union {NoTask}, Move(c, kind, stage, target)
  PROVE  /\ call' \in [Callers -> Calls]
         /\ call'[c] = [op |-> kind, at |-> stage, target |-> target]
         /\ \A d \in Callers : d # c => call'[d] = call[d]
<1>1. [op |-> kind, at |-> stage, target |-> target] \in Calls
  BY DEF Calls
<1> QED
  BY <1>1 DEF TypeOK, Move

\* The fields of a call.
LEMMA CallFields ==
  ASSUME TypeOK, NEW c \in Callers
  PROVE  call[c].op \in Ops /\ call[c].target \in Tasks \union {NoTask}
  BY DEF TypeOK, Calls

LEMMA ControlTypes ==
  ASSUME TypeOK, NEW c \in Callers, CallStep(c)
  PROVE  TypeOK'
<1> DEFINE Rest == /\ current' \in Tasks \union {NoTask}
                   /\ cancelInProgress' \in BOOLEAN
                   /\ phase' \in [Tasks -> Phases]
                   /\ abort' \in [Tasks -> BOOLEAN]
                   /\ abandoned' \in [Tasks -> BOOLEAN]
                   /\ response' \in [Tasks -> Responses]
                   /\ retries' \in [Tasks -> 0..MaxRetry]
                   /\ timer' \in [Tasks -> BOOLEAN]
<1> USE CallFields
<1>s. /\ {"new", "show", "clear", "cancel", "reopen", "close", "reinit"} \subseteq Ops
      /\ {"idle", "settings", "aborting", "asking", "aborted", "clearing", "setup", "waiting",
          "lookup"} \subseteq Stages
      /\ current \in Tasks \union {NoTask}
  BY DEF TypeOK, Ops, Stages
<1>m. ASSUME \E kind \in Ops, stage \in Stages, target \in Tasks \union {NoTask} :
               Move(c, kind, stage, target)
      PROVE  call' \in [Callers -> Calls]
  BY <1>m, MoveTypes
<1>1. CASE AbortCurrent(c)
  <2>1. call' \in [Callers -> Calls]
    BY <1>1, <1>s, <1>m DEF AbortCurrent
  <2>2. Rest
    BY <1>1 DEF AbortCurrent, flags, TypeOK
  <2> QED
    BY <2>1, <2>2 DEF TypeOK
<1>2. CASE SetAbort(c)
  <2>1. call' \in [Callers -> Calls]
    BY <1>2, <1>s, <1>m DEF SetAbort, Goto
  <2>2. Rest
    BY <1>2 DEF SetAbort, TypeOK
  <2> QED
    BY <2>1, <2>2 DEF TypeOK
<1>3. CASE AskResumeOnAbort(c)
  <2>1. call' \in [Callers -> Calls]
    BY <1>3, <1>s, <1>m DEF AskResumeOnAbort, Goto
  <2>2. Rest
    BY <1>3 DEF AskResumeOnAbort, flags, TypeOK, Phases, Responses
  <2> QED
    BY <2>1, <2>2 DEF TypeOK
<1>4. CASE AbortReturns(c)
  <2>1. call' \in [Callers -> Calls]
    BY <1>4, <1>s, <1>m DEF AbortReturns
  <2>2. Rest
    BY <1>4 DEF AbortReturns, flags, TypeOK
  <2> QED
    BY <2>1, <2>2 DEF TypeOK
<1>5. CASE DropCurrent(c)
  <2>1. call' \in [Callers -> Calls]
    BY <1>5, <1>s, <1>m DEF DropCurrent, Goto, Return
  <2>2. Rest
    BY <1>5 DEF DropCurrent, ReleaseCancel, flags, TypeOK
  <2> QED
    BY <2>1, <2>2 DEF TypeOK
<1>6. CASE AbandonCurrent(c)
  <2>1. call' \in [Callers -> Calls]
    BY <1>6, <1>s, <1>m DEF AbandonCurrent, EnterClear, Goto
  <2>2. Rest
    BY <1>6 DEF AbandonCurrent, TypeOK
  <2> QED
    BY <2>1, <2>2 DEF TypeOK
<1>7. CASE Found(c)
  <2>1. call' \in [Callers -> Calls]
    BY <1>7, <1>s, <1>m DEF Found, EnterClear
  <2>2. Rest
    BY <1>7 DEF Found, flags, TypeOK
  <2> QED
    BY <2>1, <2>2 DEF TypeOK
<1>8. CASE NotFound(c)
  <2>1. call' \in [Callers -> Calls]
    BY <1>8, <1>s, <1>m DEF NotFound, EnterClear, Return
  <2>2. Rest
    BY <1>8 DEF NotFound, flags, TypeOK
  <2> QED
    BY <2>1, <2>2 DEF TypeOK
<1>9. ASSUME NEW t \in Tasks, Launch(c, t)
      PROVE  TypeOK'
  <2>1. call' \in [Callers -> Calls]
    BY <1>9, <1>s, <1>m DEF Launch, Return
  <2>2. Rest
    BY <1>9, NoRetriesYet DEF Launch, ReleaseCancel, TypeOK, Phases, Responses
  <2> QED
    BY <2>1, <2>2 DEF TypeOK
<1> QED
  BY <1>1, <1>2, <1>3, <1>4, <1>5, <1>6, <1>7, <1>8, <1>9 DEF CallStep

LEMMA TaskTypes ==
  ASSUME TypeOK, NEW t \in Tasks, TaskStep(t) \/ TimerFires(t)
  PROVE  TypeOK'
<1> USE DEF TypeOK, To, Die, Ask, Phase, control, flags, Phases, Streaming, Responses
<1>1. CASE EnterLoop(t)
  BY <1>1 DEF EnterLoop
<1>2. CASE Restored(t)
  BY <1>2 DEF Restored
<1>3. CASE Resumed(t)
  BY <1>3 DEF Resumed
<1>4. CASE FirstChunk(t)
  BY <1>4 DEF FirstChunk
<1>5. ASSUME NEW transient \in BOOLEAN, FirstChunkFails(t, transient)
      PROVE  TypeOK'
  <2>1. CASE abort[t]
    BY <1>5, <2>1 DEF FirstChunkFails
  <2>2. CASE ~abort[t] /\ transient /\ MoreRetries(t)
    <3>1. retries[t] + 1 \in 0..MaxRetry
      BY <2>2, SessionAssumption DEF MoreRetries
    <3> QED
      BY <1>5, <2>2, <3>1 DEF FirstChunkFails
  <2>3. CASE ~abort[t] /\ ~(transient /\ MoreRetries(t))
    BY <1>5, <2>3 DEF FirstChunkFails
  <2> QED
    BY <2>1, <2>2, <2>3
<1>6. CASE BackoffOver(t)
  BY <1>6 DEF BackoffOver
<1>e. ASSUME StreamError(t)
      PROVE  /\ phase' \in [Tasks -> Phases]
             /\ abort' \in [Tasks -> BOOLEAN]
             /\ timer' \in [Tasks -> BOOLEAN]
             /\ retries' \in [Tasks -> 0..MaxRetry]
  <2>1. MoreRetries(t) => retries[t] + 1 \in 0..MaxRetry
    BY SessionAssumption DEF MoreRetries
  <2>2. MoreRetries(t) \in BOOLEAN
    BY DEF MoreRetries
  <2> QED
    BY <1>e, <2>1, <2>2, NoRetriesYet DEF StreamError
<1>7. CASE RetryAnswered(t)
  <2>1. CASE response[t] = "no"
    BY <1>7, <1>e, <2>1 DEF RetryAnswered
  <2>2. CASE response[t] # "no"
    BY <1>7, <2>2, NoRetriesYet DEF RetryAnswered
  <2> QED
    BY <2>1, <2>2
<1>8. CASE StreamFails(t)
  BY <1>8, <1>e DEF StreamFails
<1>9. CASE Reinit(t)
  <2>1. t \in Callers /\ "reinit" \in Ops /\ "lookup" \in Stages
    BY DEF Callers, Ops, Stages
  <2>2. call' \in [Callers -> Calls]
    BY <1>9, <2>1, MoveTypes DEF Reinit
  <2> QED
    BY <1>9, <2>2 DEF Reinit
<1>10. CASE ReinitReturns(t)
  BY <1>10 DEF ReinitReturns
<1>11. CASE StreamAborted(t)
  BY <1>11 DEF StreamAborted
<1>12. CASE ToolCall(t)
  BY <1>12 DEF ToolCall
<1>13. CASE ToolAnswered(t)
  BY <1>13 DEF ToolAnswered
<1>14. CASE ToolDone(t)
  BY <1>14 DEF ToolDone
<1>15. CASE TurnDone(t)
  BY <1>15, NoRetriesYet DEF TurnDone
<1>16. CASE Complete(t)
  BY <1>16 DEF Complete
<1>17. CASE TimerFires(t)
  BY <1>17 DEF TimerFires
<1> QED
  BY <1>1, <1>2, <1>3, <1>4, <1>5, <1>6, <1>7, <1>8, <1>9, <1>10, <1>11, <1>12, <1>13, <1>14,
     <1>15, <1>16, <1>17 DEF TaskStep

LEMMA UserTypes ==
  ASSUME TypeOK, UserStep
  PROVE  TypeOK'
<1>1. ASSUME NEW u \in Users, NEW kind \in {"new", "show", "clear"}, StartCall(u, kind)
      PROVE  TypeOK'
  <2>1. /\ u \in Callers /\ kind \in Ops
        /\ (IF current = NoTask THEN "clearing" ELSE "settings") \in Stages
    BY DEF Callers, Ops, Stages
  <2>2. call' \in [Callers -> Calls]
    BY <1>1, <2>1, MoveTypes DEF StartCall, EnterClear
  <2> QED
    BY <1>1, <2>2 DEF StartCall, flags, TypeOK
<1>2. ASSUME NEW u \in Users, StartCancel(u)
      PROVE  TypeOK'
  <2>1. u \in Callers /\ "cancel" \in Ops /\ "aborting" \in Stages
    BY DEF Callers, Ops, Stages
  <2>2. call' \in [Callers -> Calls]
    BY <1>2, <2>1, MoveTypes DEF StartCancel, TypeOK
  <2> QED
    BY <1>2, <2>2 DEF StartCancel, flags, TypeOK
<1>3. ASSUME NEW r \in {"yes", "no"}, Respond(r)
      PROVE  TypeOK'
  BY <1>3 DEF Respond, control, flags, TypeOK, Responses
<1> QED
  BY <1>1, <1>2, <1>3 DEF UserStep

LEMMA NextTypes == TypeOK /\ [Next]_vars => TypeOK'
<1> SUFFICES ASSUME TypeOK, [Next]_vars PROVE TypeOK'
  OBVIOUS
<1>1. CASE UNCHANGED vars
  BY <1>1 DEF TypeOK, vars, control, flags
<1>2. CASE Next
  BY <1>2, UserTypes, ControlTypes, TaskTypes DEF Next
<1> QED
  BY <1>1, <1>2

-----------------------------------------------------------------------------
\* The shape of calls.

LEMMA MoveShape ==
  ASSUME TypeOK, CallShape, NEW c \in Callers, NEW kind \in Ops, NEW stage \in Stages,
         NEW target \in Tasks \union {NoTask}, Move(c, kind, stage, target),
         stage = "waiting" => kind = "cancel",
         stage = "lookup" => kind \in {"cancel", "reinit"},
         c \in Tasks => stage = "idle" \/ (kind = "reinit" /\ phase'[c] = "reopening"),
         \A s \in Tasks : s # c /\ ~At(s, "idle") => phase'[s] = phase[s]
  PROVE  CallShape'
<1>1. /\ call'[c] = [op |-> kind, at |-> stage, target |-> target]
      /\ \A d \in Callers : d # c => call'[d] = call[d]
  BY MoveTypes
<1>2. Tasks \subseteq Callers
  BY DEF Callers
<1>3. \A d \in Callers : (At(d, "waiting") => call[d].op = "cancel")'
  BY <1>1 DEF CallShape, At
<1>4. \A d \in Callers : (At(d, "lookup") => call[d].op \in {"cancel", "reinit"})'
  BY <1>1 DEF CallShape, At
<1>5. ASSUME NEW s \in Tasks
      PROVE  (~At(s, "idle") => call[s].op = "reinit" /\ phase[s] = "reopening")'
  BY <1>1, <1>2 DEF CallShape, At
<1>6. UNCHANGED Callers
  BY DEF Callers
<1> QED
  BY <1>3, <1>4, <1>5, <1>6 DEF CallShape

\* No action of the controller moves a task out of "reopening", and each leaves its
\* caller at a stage that fits its operation.
LEMMA ControlShape ==
  ASSUME TypeOK, CallShape, NEW c \in Callers, CallStep(c)
  PROVE  CallShape'
<1> USE CallFields
<1>s. /\ {"new", "show", "clear", "cancel", "reopen", "close", "reinit"} \subseteq Ops
      /\ {"idle", "settings", "aborting", "asking", "aborted", "clearing", "setup", "waiting",
          "lookup"} \subseteq Stages
      /\ current \in Tasks \union {NoTask}
  BY DEF TypeOK, Ops, Stages
<1>r. c \in Tasks /\ ~At(c, "idle") => call[c].op = "reinit" /\ phase[c] = "reopening"
  BY DEF CallShape
<1>k. ASSUME UNCHANGED phase
      PROVE  \A s \in Tasks : phase'[s] = phase[s]
  BY <1>k
<1>1. CASE AbortCurrent(c)
  BY <1>1, <1>s, <1>r, <1>k, MoveShape DEF AbortCurrent, At
<1>2. CASE SetAbort(c)
  BY <1>2, <1>s, <1>r, <1>k, MoveShape DEF SetAbort, Goto, At
<1>3. CASE AskResumeOnAbort(c)
  <2>1. \A s \in Tasks : phase[s] = "reopening" => phase'[s] = "reopening"
    BY <1>3 DEF AskResumeOnAbort, AskPhases, TypeOK
  <2>2. \A s \in Tasks : ~At(s, "idle") => phase'[s] = phase[s]
    BY <2>1 DEF CallShape
  <2> QED
    BY <1>3, <1>s, <1>r, <2>1, <2>2, MoveShape DEF AskResumeOnAbort, Goto, At
<1>4. CASE AbortReturns(c)
  BY <1>4, <1>s, <1>r, <1>k, MoveShape DEF AbortReturns, At
<1>5. CASE DropCurrent(c)
  BY <1>5, <1>s, <1>r, <1>k, MoveShape DEF DropCurrent, Goto, Return, At
<1>6. CASE AbandonCurrent(c)
  <2>1. call[c].op = "cancel"
    BY <1>6 DEF AbandonCurrent, CallShape
  <2> QED
    BY <1>6, <2>1, <1>s, <1>r, <1>k, MoveShape DEF AbandonCurrent, EnterClear, Goto, At
<1>7. CASE Found(c)
  BY <1>7, <1>s, <1>r, <1>k, MoveShape DEF Found, EnterClear, At
<1>8. CASE NotFound(c)
  BY <1>8, <1>s, <1>r, <1>k, MoveShape DEF NotFound, EnterClear, Return, At
<1>9. ASSUME NEW t \in Tasks, Launch(c, t)
      PROVE  CallShape'
  <2>1. \A s \in Tasks : ~At(s, "idle") => phase'[s] = phase[s]
    BY <1>9 DEF Launch, Garbage, TypeOK
  <2> QED
    BY <1>9, <1>s, <2>1, MoveShape DEF Launch, Return
<1> QED
  BY <1>1, <1>2, <1>3, <1>4, <1>5, <1>6, <1>7, <1>8, <1>9 DEF CallStep

\* A task leaves "reopening" only when its own call has returned.
LEMMA TaskShape ==
  ASSUME TypeOK, CallShape, NEW t \in Tasks, TaskStep(t) \/ TimerFires(t)
  PROVE  CallShape'
<1>1. CASE Reinit(t)
  <2>1. t \in Callers /\ "reinit" \in Ops /\ "lookup" \in Stages
    BY DEF Callers, Ops, Stages
  <2>2. phase'[t] = "reopening" /\ \A s \in Tasks : s # t => phase'[s] = phase[s]
    BY <1>1 DEF Reinit, To, TypeOK
  <2> QED
    BY <1>1, <2>1, <2>2, MoveShape DEF Reinit
<1>2. CASE ~Reinit(t)
  <2>1. UNCHANGED call
    BY <1>2 DEF TaskStep, EnterLoop, Restored, Resumed, FirstChunk, FirstChunkFails, BackoffOver,
         RetryAnswered, StreamFails, ReinitReturns, StreamAborted, ToolCall, ToolAnswered,
         ToolDone, TurnDone, Complete, TimerFires, control
  <2>2. \A s \in Tasks : s # t => phase'[s] = phase[s]
    BY <1>2 DEF TaskStep, EnterLoop, Restored, Resumed, FirstChunk, FirstChunkFails, BackoffOver,
         RetryAnswered, StreamFails, StreamError, ReinitReturns, StreamAborted, ToolCall,
         ToolAnswered, ToolDone, TurnDone, Complete, TimerFires, To, Die, Ask, TypeOK
  <2>3. ~At(t, "idle") => phase'[t] = phase[t]
    <3>1. CASE phase[t] # "reopening"
      BY <3>1 DEF CallShape
    <3>2. CASE phase[t] = "reopening" /\ ~At(t, "idle")
      BY <1>2, <3>2 DEF TaskStep, EnterLoop, Restored, Resumed, FirstChunk, FirstChunkFails,
           BackoffOver, RetryAnswered, StreamFails, ReinitReturns, StreamAborted, ToolCall,
           ToolAnswered, ToolDone, TurnDone, Complete, TimerFires, Phase
    <3> QED
      BY <3>1, <3>2
  <2>4. Tasks \subseteq Callers /\ UNCHANGED Callers
    BY DEF Callers
  <2> QED
    BY <2>1, <2>2, <2>3, <2>4 DEF CallShape, At
<1> QED
  BY <1>1, <1>2

LEMMA UserShape ==
  ASSUME TypeOK, CallShape, UserStep
  PROVE  CallShape'
<1>1. ASSUME NEW u \in Users, NEW kind \in {"new", "show", "clear"}, StartCall(u, kind)
      PROVE  CallShape'
  <2>1. /\ u \in Callers /\ u \notin Tasks /\ kind \in Ops
        /\ (IF current = NoTask THEN "clearing" ELSE "settings") \in Stages \ {"waiting", "lookup"}
    BY SessionAssumption DEF Callers, Ops, Stages
  <2> QED
    BY <1>1, <2>1, MoveShape DEF StartCall, EnterClear
<1>2. ASSUME NEW u \in Users, StartCancel(u)
      PROVE  CallShape'
  <2>1. u \in Callers /\ u \notin Tasks /\ "cancel" \in Ops /\ "aborting" \in Stages
    BY SessionAssumption DEF Callers, Ops, Stages
  <2> QED
    BY <1>2, <2>1, MoveShape DEF StartCancel, TypeOK
<1>3. ASSUME NEW r \in {"yes", "no"}, Respond(r)
      PROVE  CallShape'
  BY <1>3 DEF Respond, control, CallShape, At, Callers
<1> QED
  BY <1>1, <1>2, <1>3 DEF UserStep

-----------------------------------------------------------------------------
\* One cancellation at a time.

\* A move that neither starts nor ends a cancellation and leaves the flag.
LEMMA MoveKeepsCancel ==
  ASSUME TypeOK, OneCancel, NEW c \in Callers, NEW kind \in Ops, NEW stage \in Stages,
         NEW target \in Tasks \union {NoTask}, Move(c, kind, stage, target),
         (stage # "idle" /\ kind \in CancelOps) <=> Cancelling(c),
         UNCHANGED cancelInProgress
  PROVE  OneCancel'
<1>1. /\ call'[c] = [op |-> kind, at |-> stage, target |-> target]
      /\ \A d \in Callers : d # c => call'[d] = call[d]
  BY MoveTypes
<1>2. \A d \in Callers : Cancelling(d)' <=> Cancelling(d)
  BY <1>1 DEF Cancelling, At
<1> QED
  BY <1>2 DEF OneCancel, Cancelling, At, Callers

\* A cancellation that returns lowers the flag.
LEMMA MoveEndsCancel ==
  ASSUME TypeOK, OneCancel, NEW c \in Callers, NEW kind \in Ops, NEW target \in Tasks \union {NoTask},
         Move(c, kind, "idle", target), Cancelling(c), cancelInProgress' = FALSE
  PROVE  OneCancel'
<1>1. "idle" \in Stages
  BY DEF Stages
<1>2. /\ call'[c] = [op |-> kind, at |-> "idle", target |-> target]
      /\ \A d \in Callers : d # c => call'[d] = call[d]
  BY <1>1, MoveTypes
<1>3. \A d \in Callers : ~Cancelling(d)'
  BY <1>2 DEF OneCancel, Cancelling, At
<1> QED
  BY <1>3 DEF OneCancel, Cancelling, At, Callers

LEMMA ControlCancel ==
  ASSUME TypeOK, CallShape, OneCancel, NEW c \in Callers, CallStep(c)
  PROVE  OneCancel'
<1> USE CallFields
<1>s. /\ {"new", "show", "clear", "cancel", "reopen", "close", "reinit"} \subseteq Ops
      /\ {"idle", "settings", "aborting", "asking", "aborted", "clearing", "setup", "waiting",
          "lookup"} \subseteq Stages
      /\ current \in Tasks \union {NoTask}
  BY DEF TypeOK, Ops, Stages
<1>c. /\ ~At(c, "idle") => (Cancelling(c) <=> call[c].op \in CancelOps)
      /\ {"cancel", "reopen", "close"} = CancelOps
      /\ InitOps = {"new", "show", "reopen", "reinit"}
      /\ \A kind \in Ops : kind \in CancelOps <=> kind \in {"cancel", "reopen", "close"}
  BY DEF Cancelling, CancelOps, InitOps
<1>1. CASE AbortCurrent(c)
  BY <1>1, <1>s, <1>c, MoveKeepsCancel DEF AbortCurrent, At
<1>2. CASE SetAbort(c)
  BY <1>2, <1>s, <1>c, MoveKeepsCancel DEF SetAbort, Goto, At
<1>3. CASE AskResumeOnAbort(c)
  BY <1>3, <1>s, <1>c, MoveKeepsCancel DEF AskResumeOnAbort, Goto, At
<1>4. CASE AbortReturns(c)
  BY <1>4, <1>s, <1>c, MoveKeepsCancel DEF AbortReturns, At
<1>5. CASE DropCurrent(c)
  <2>1. CASE call[c].op \in InitOps
    BY <1>5, <2>1, <1>s, <1>c, MoveKeepsCancel DEF DropCurrent, Goto, At
  <2>2. CASE call[c].op \notin InitOps /\ call[c].op \in CancelOps
    BY <1>5, <2>2, <1>s, <1>c, MoveEndsCancel DEF DropCurrent, Return, ReleaseCancel, At
  <2>3. CASE call[c].op \notin InitOps /\ call[c].op \notin CancelOps
    BY <1>5, <2>3, <1>s, <1>c, MoveKeepsCancel DEF DropCurrent, Return, ReleaseCancel, At
  <2> QED
    BY <2>1, <2>2, <2>3
<1>6. CASE AbandonCurrent(c)
  <2>1. call[c].op = "cancel"
    BY <1>6 DEF AbandonCurrent, CallShape
  <2> QED
    BY <1>6, <2>1, <1>s, <1>c, MoveKeepsCancel DEF AbandonCurrent, EnterClear, Goto, At
<1>7. CASE Found(c)
  <2>1. call[c].op \in {"cancel", "reinit"}
    BY <1>7 DEF Found, CallShape
  <2> QED
    BY <1>7, <2>1, <1>s, <1>c, MoveKeepsCancel DEF Found, EnterClear, At
<1>8. CASE NotFound(c)
  <2>1. call[c].op \in {"cancel", "reinit"}
    BY <1>8 DEF NotFound, CallShape
  <2>2. CASE call[c].op = "cancel"
    BY <1>8, <2>2, <1>s, <1>c, MoveKeepsCancel DEF NotFound, EnterClear, At
  <2>3. CASE call[c].op = "reinit"
    BY <1>8, <2>3, <1>s, <1>c, MoveKeepsCancel DEF NotFound, Return, At
  <2> QED
    BY <2>1, <2>2, <2>3
<1>9. ASSUME NEW t \in Tasks, Launch(c, t)
      PROVE  OneCancel'
  <2>1. CASE call[c].op \in CancelOps
    BY <1>9, <2>1, <1>s, <1>c, MoveEndsCancel DEF Launch, Return, ReleaseCancel, At
  <2>2. CASE call[c].op \notin CancelOps
    BY <1>9, <2>2, <1>s, <1>c, MoveKeepsCancel DEF Launch, Return, ReleaseCancel, At
  <2> QED
    BY <2>1, <2>2
<1> QED
  BY <1>1, <1>2, <1>3, <1>4, <1>5, <1>6, <1>7, <1>8, <1>9 DEF CallStep

LEMMA TaskCancel ==
  ASSUME TypeOK, CallShape, OneCancel, NEW t \in Tasks, TaskStep(t) \/ TimerFires(t)
  PROVE  OneCancel'
<1>1. CASE Reinit(t)
  <2>1. t \in Callers /\ "reinit" \in Ops \ CancelOps /\ "lookup" \in Stages
    BY DEF Callers, Ops, Stages, CancelOps
  <2>2. ~Cancelling(t)
    BY <1>1 DEF Reinit, Phase, CallShape, Cancelling
  <2> QED
    BY <1>1, <2>1, <2>2, MoveKeepsCancel DEF Reinit
<1>2. CASE ~Reinit(t)
  <2>1. UNCHANGED <<call, cancelInProgress>>
    BY <1>2 DEF TaskStep, EnterLoop, Restored, Resumed, FirstChunk, FirstChunkFails, BackoffOver,
         RetryAnswered, StreamFails, ReinitReturns, StreamAborted, ToolCall, ToolAnswered,
         ToolDone, TurnDone, Complete, TimerFires, control
  <2> QED
    BY <2>1 DEF OneCancel, Cancelling, At, Callers
<1> QED
  BY <1>1, <1>2

LEMMA UserCancel ==
  ASSUME TypeOK, OneCancel, UserStep
  PROVE  OneCancel'
<1>1. ASSUME NEW u \in Users, NEW kind \in {"new", "show", "clear"}, StartCall(u, kind)
      PROVE  OneCancel'
  <2>1. /\ u \in Callers /\ kind \in Ops \ CancelOps
        /\ (IF current = NoTask THEN "clearing" ELSE "settings") \in Stages
    BY DEF Callers, Ops, Stages, CancelOps
  <2>2. ~Cancelling(u)
    BY <1>1 DEF StartCall, Cancelling
  <2> QED
    BY <1>1, <2>1, <2>2, MoveKeepsCancel DEF StartCall, EnterClear
<1>2. ASSUME NEW u \in Users, StartCancel(u)
      PROVE  OneCancel'
  <2>1. /\ u \in Callers /\ "cancel" \in Ops /\ "cancel" \in CancelOps /\ "aborting" \in Stages
        /\ current \in Tasks \union {NoTask}
    BY DEF Callers, Ops, Stages, CancelOps, TypeOK
  <2>2. /\ call'[u] = [op |-> "cancel", at |-> "aborting", target |-> current]
        /\ \A d \in Callers : d # u => call'[d] = call[d]
    BY <1>2, <2>1, MoveTypes DEF StartCancel
  <2>3. Cancelling(u)' /\ \A d \in Callers : d # u => (Cancelling(d)' <=> Cancelling(d))
    BY <2>2, <2>1 DEF Cancelling, At
  <2>4. \A d \in Callers : ~Cancelling(d)
    BY <1>2 DEF StartCancel, OneCancel
  <2>5. cancelInProgress' /\ UNCHANGED Callers
    BY <1>2 DEF StartCancel, Callers
  <2> QED
    BY <2>1, <2>3, <2>4, <2>5 DEF OneCancel, Cancelling, At
<1>3. ASSUME NEW r \in {"yes", "no"}, Respond(r)
      PROVE  OneCancel'
  BY <1>3 DEF Respond, control, OneCancel, Cancelling, At, Callers
<1> QED
  BY <1>1, <1>2, <1>3 DEF UserStep

-----------------------------------------------------------------------------
\* No abandoned task stays on the screen.

LEMMA ControlAbandoned ==
  ASSUME TypeOK, CallShape, OneCancel, AbandonedOnlyInCancel, NEW c \in Callers, CallStep(c)
  PROVE  AbandonedOnlyInCancel'
<1>1. CASE AbandonCurrent(c)
  <2>1. Cancelling(c)
    BY <1>1 DEF AbandonCurrent, CallShape, Cancelling, CancelOps, At
  <2> QED
    BY <1>1, <2>1 DEF AbandonCurrent, OneCancel, AbandonedOnlyInCancel
<1>2. CASE DropCurrent(c)
  BY <1>2 DEF DropCurrent, AbandonedOnlyInCancel
<1>3. ASSUME NEW t \in Tasks, Launch(c, t)
      PROVE  AbandonedOnlyInCancel'
  BY <1>3 DEF Launch, AbandonedOnlyInCancel, TypeOK
<1>4. CASE AbortCurrent(c) \/ SetAbort(c) \/ AskResumeOnAbort(c) \/ AbortReturns(c) \/ Found(c)
           \/ NotFound(c)
  BY <1>4 DEF AbortCurrent, SetAbort, AskResumeOnAbort, AbortReturns, Found, NotFound, flags,
              AbandonedOnlyInCancel
<1> QED
  BY <1>1, <1>2, <1>3, <1>4 DEF CallStep

LEMMA TaskAbandoned ==
  ASSUME AbandonedOnlyInCancel, NEW t \in Tasks, TaskStep(t) \/ TimerFires(t)
  PROVE  AbandonedOnlyInCancel'
<1>1. UNCHANGED <<current, abandoned, cancelInProgress>>
  BY DEF TaskStep, EnterLoop, Restored, Resumed, FirstChunk, FirstChunkFails, BackoffOver,
     RetryAnswered, StreamFails, Reinit, ReinitReturns, StreamAborted, ToolCall, ToolAnswered,
     ToolDone, TurnDone, Complete, TimerFires, control, flags
<1> QED
  BY <1>1 DEF AbandonedOnlyInCancel

LEMMA UserAbandoned ==
  ASSUME AbandonedOnlyInCancel, UserStep
  PROVE  AbandonedOnlyInCancel'
<1>1. UNCHANGED <<current, abandoned>> /\ (cancelInProgress => cancelInProgress')
  BY DEF UserStep, StartCall, StartCancel, Respond, control, flags
<1> QED
  BY <1>1 DEF AbandonedOnlyInCancel

-----------------------------------------------------------------------------
\* The inductive invariant.

LEMMA NextIInv == IInv /\ [Next]_vars => IInv'
<1> SUFFICES ASSUME IInv, [Next]_vars PROVE IInv'
  OBVIOUS
<1> USE DEF IInv
<1>1. TypeOK'
  BY NextTypes
<1>2. CASE UNCHANGED vars
  BY <1>1, <1>2 DEF vars, control, flags, CallShape, OneCancel, AbandonedOnlyInCancel, Cancelling,
                    At, Callers
<1>3. CASE UserStep
  BY <1>1, <1>3, UserShape, UserCancel, UserAbandoned
<1>4. ASSUME NEW c \in Callers, CallStep(c)
      PROVE  IInv'
  BY <1>1, <1>4, ControlShape, ControlCancel, ControlAbandoned
<1>5. ASSUME NEW t \in Tasks, TaskStep(t) \/ TimerFires(t)
      PROVE  IInv'
  BY <1>1, <1>5, TaskShape, TaskCancel, TaskAbandoned
<1> QED
  BY <1>2, <1>3, <1>4, <1>5 DEF Next

LEMMA IInvHolds == Spec => []IInv
  BY InitIInv, NextIInv, PTL DEF Spec

\* Every variable of the session keeps its type, for any number of tasks and users; in
\* particular the retry counters stay within MaxRetry, which the timer copies about.
THEOREM TypeCorrect == Spec => []TypeOK
<1>1. IInv => TypeOK
  BY DEF IInv
<1> QED
  BY IInvHolds, <1>1, PTL

\* However many calls interleave, at most one of them is a cancellation and
\* cancelInProgress is up exactly while it runs, so the cancel button is never lost to a
\* flag left behind and no second cancellation starts under the first.
THEOREM CancelIsExclusive == Spec => []OneCancel
<1>1. IInv => OneCancel
  BY DEF IInv
<1> QED
  BY IInvHolds, <1>1, PTL

\* A task that cancelTask has abandoned is current only until that cancellation ends:
\* whatever other calls do meanwhile, the user is never left with an abandoned task.
THEOREM AbandonedLeavesScreen == Spec => []AbandonedOnlyInCancel
<1>1. IInv => AbandonedOnlyInCancel
  BY DEF IInv
<1> QED
  BY IInvHolds, <1>1, PTL

-----------------------------------------------------------------------------
\* One call at a time.

\* A caller with a call in flight, or a failed task about to make one.
Busy(c) == ~At(c, "idle") \/ (c \in Tasks /\ Phase(c, "failing"))

OneCall == \A c, d \in Callers : Busy(c) /\ Busy(d) => c = d

\* A task that works no more and cannot start again: nobody answers it.
Doomed(t) == \/ abort[t]
             \/ phase[t] \in {"none", "dead", "restoring"}
             \/ phase[t] = "resumeAsk" /\ response[t] = "none"

\* A call in abortTask aborts the task on the screen, clearTask drops one that was
\* aborted, and initTask creates a task when there is none.
ScreenOf(c) ==
  /\ call[c].at \in {"aborting", "asking", "aborted"} => call[c].target = current /\ current # NoTask
  /\ call[c].at \in {"asking", "aborted", "clearing"} /\ current # NoTask => Doomed(current)
  /\ At(c, "setup") => current = NoTask

OnScreen == \A c \in Callers : ScreenOf(c)

OthersDoomed == \A t \in Tasks : t # current => Doomed(t)

SerialInv == IInv /\ OneCall /\ OnScreen /\ OthersDoomed

LEMMA InitSerial == Init => SerialInv
<1> SUFFICES ASSUME Init PROVE SerialInv
  OBVIOUS
<1>1. \A c \in Callers : call[c].at = "idle"
  BY DEF Init, Idle
<1>2. \A t \in Tasks : phase[t] = "none"
  BY DEF Init
<1>3. OneCall
  BY <1>1, <1>2 DEF OneCall, Busy, At, Phase
<1>4. OnScreen
  BY <1>1 DEF OnScreen, ScreenOf, At
<1>5. OthersDoomed
  BY <1>2 DEF OthersDoomed, Doomed
<1> QED
  BY <1>3, <1>4, <1>5, InitIInv DEF SerialInv

\* What a task does on its own never saves a doomed task.
LEMMA TaskDoomed ==
  ASSUME TypeOK, NEW t \in Tasks, TaskStep(t), NEW s \in Tasks, Doomed(s)
  PROVE  Doomed(s)'
<1>1. CASE s # t
  <2>1. phase'[s] = phase[s] /\ abort'[s] = abort[s] /\ response'[s] = response[s]
    BY <1>1 DEF TaskStep, EnterLoop, Restored, Resumed, FirstChunk, FirstChunkFails, BackoffOver,
         RetryAnswered, StreamFails, Reinit, ReinitReturns, StreamAborted, ToolCall, ToolAnswered,
         ToolDone, TurnDone, Complete, StreamError, Ask, Die, To, flags, TypeOK
  <2> QED
    BY <2>1 DEF Doomed
<1>2. CASE s = t /\ Restored(t)
  BY <1>2 DEF Restored, Ask, To, Doomed, TypeOK
<1>3. CASE s = t /\ ~Restored(t) /\ abort[t]
  <2>1. abort'[t]
    BY <1>3 DEF TaskStep, EnterLoop, Resumed, FirstChunk, FirstChunkFails, BackoffOver,
         RetryAnswered, StreamFails, Reinit, ReinitReturns, StreamAborted, ToolCall, ToolAnswered,
         ToolDone, TurnDone, Complete, StreamError, flags, TypeOK
  <2> QED
    BY <1>3, <2>1 DEF Doomed
<1>4. CASE s = t /\ ~Restored(t) /\ ~abort[t]
  <2>1. \/ phase[t] \in {"none", "dead", "restoring"}
        \/ phase[t] = "resumeAsk" /\ response[t] = "none"
    BY <1>4 DEF Doomed
  <2> QED
    BY <1>4, <2>1 DEF TaskStep, EnterLoop, Resumed, FirstChunk, FirstChunkFails, BackoffOver,
         RetryAnswered, StreamFails, Reinit, ReinitReturns, StreamAborted, ToolCall, ToolAnswered,
         ToolDone, TurnDone, Complete, Phase
<1> QED
  BY <1>1, <1>2, <1>3, <1>4

LEMMA TaskSerial ==
  ASSUME TypeOK, OneCall, OnScreen, OthersDoomed, NEW t \in Tasks, CalmTaskStep(t)
  PROVE  OneCall' /\ OnScreen' /\ OthersDoomed'
<1>0. current' = current
  BY DEF CalmTaskStep, TaskStep, EnterLoop, Restored, Resumed, FirstChunk, FirstChunkFails, BackoffOver,
         RetryAnswered, StreamFails, Reinit, ReinitReturns, StreamAborted, ToolCall, ToolAnswered,
         ToolDone, TurnDone, Complete, control
<1>1. OthersDoomed'
  BY <1>0, TaskDoomed DEF OthersDoomed, CalmTaskStep
<1>d. current # NoTask /\ Doomed(current) => Doomed(current)'
  BY <1>0, TaskDoomed DEF TypeOK, CalmTaskStep, Doomed
<1>p. \A s \in Tasks : s # t => phase'[s] = phase[s]
  BY DEF CalmTaskStep, TaskStep, EnterLoop, Restored, Resumed, FirstChunk, FirstChunkFails, BackoffOver,
         RetryAnswered, StreamFails, Reinit, ReinitReturns, StreamAborted, ToolCall, ToolAnswered,
         ToolDone, TurnDone, Complete, StreamError, Ask, Die, To, TypeOK
<1>t. t \in Callers
  BY DEF Callers
<1>2. CASE Reinit(t)
  <2>1. /\ call'[t].at = "lookup"
        /\ \A d \in Callers : d # t => call'[d] = call[d]
    BY <1>2, <1>t DEF Reinit, Move, TypeOK
  <2>2. Busy(t)
    BY <1>2 DEF Reinit, Busy
  <2>3. \A d \in Callers : d # t => ~Busy(d)'
    BY <1>p, <1>t, <2>1, <2>2 DEF OneCall, Busy, At, Phase
  <2>4. OneCall'
    BY <2>3 DEF OneCall, Callers
  <2>5. OnScreen'
    <3> SUFFICES ASSUME NEW d \in Callers
                 PROVE  ScreenOf(d)'
      BY DEF OnScreen, Callers
    <3>1. CASE d = t
      BY <3>1, <2>1 DEF ScreenOf, At
    <3>2. CASE d # t
      BY <3>2, <2>1, <1>0, <1>d DEF OnScreen, ScreenOf, At
    <3> QED
      BY <3>1, <3>2
  <2> QED
    BY <1>1, <2>4, <2>5
<1>3. CASE ~Reinit(t)
  <2>1. call' = call
    BY <1>3 DEF CalmTaskStep, TaskStep, EnterLoop, Restored, Resumed, FirstChunk, FirstChunkFails, BackoffOver,
         RetryAnswered, StreamFails, ReinitReturns, StreamAborted, ToolCall, ToolAnswered,
         ToolDone, TurnDone, Complete, control
  <2>2. OneCall'
    <3>1. CASE phase'[t] = "failing"
      <4>1. \A c \in Callers : ~Busy(c)
        BY <3>1 DEF CalmTaskStep, Settled, Busy
      <4> QED
        BY <4>1, <2>1, <1>p DEF OneCall, Busy, At, Phase, Callers
    <3>2. CASE phase'[t] # "failing"
      <4>1. \A c \in Callers : Busy(c)' => Busy(c)
        BY <3>2, <2>1, <1>p DEF Busy, At, Phase
      <4> QED
        BY <4>1 DEF OneCall, Callers
    <3> QED
      BY <3>1, <3>2
  <2>3. OnScreen'
    BY <2>1, <1>0, <1>d DEF OnScreen, ScreenOf, At, Callers
  <2> QED
    BY <1>1, <2>2, <2>3
<1> QED
  BY <1>2, <1>3

LEMMA CallSerial ==
  ASSUME TypeOK, OneCall, OnScreen, OthersDoomed, NEW c \in Callers, CallStep(c)
  PROVE  OneCall' /\ OnScreen' /\ OthersDoomed'
<1>b. Busy(c)
  BY DEF Busy, CallStep, AbortCurrent, SetAbort, AskResumeOnAbort, AbortReturns, DropCurrent,
         AbandonCurrent, Found, NotFound, Launch, At
<1>s. ScreenOf(c)
  BY DEF OnScreen, ScreenOf
<1>k. \A d \in Callers : d # c => call'[d] = call[d]
  BY DEF CallStep, AbortCurrent, SetAbort, AskResumeOnAbort, AbortReturns, DropCurrent,
         AbandonCurrent, Found, NotFound, Launch, EnterClear, Goto, Return, Move, TypeOK
<1>f. \A t \in Tasks : phase'[t] = "failing" => phase[t] = "failing"
  BY DEF CallStep, AbortCurrent, SetAbort, AskResumeOnAbort, AbortReturns, DropCurrent,
         AbandonCurrent, Found, NotFound, Launch, TypeOK
<1>o. \A d \in Callers : d # c => call[d].at = "idle" /\ ~Busy(d) /\ ~Busy(d)'
  BY <1>b, <1>k, <1>f DEF OneCall, Busy, At, Phase
<1>1. OneCall'
  BY <1>o DEF OneCall, Callers
<1>n. OnScreen' <=> ScreenOf(c)'
  BY <1>o, <1>k DEF OnScreen, ScreenOf, At, Callers
<1>2. CASE AbortCurrent(c)
  <2>1. /\ call'[c] = [op |-> call[c].op, target |-> current,
                       at |-> IF current = NoTask THEN "clearing" ELSE "aborting"]
        /\ UNCHANGED <<current, phase, abort, response>>
    BY <1>2 DEF AbortCurrent, Move, flags, TypeOK
  <2>2. ScreenOf(c)'
    BY <2>1 DEF ScreenOf, At
  <2>3. OthersDoomed'
    BY <2>1 DEF OthersDoomed, Doomed
  <2> QED
    BY <1>1, <1>n, <2>2, <2>3
<1>3. CASE SetAbort(c)
  <2>1. call[c].target = current /\ current \in Tasks
    BY <1>3, <1>s DEF SetAbort, ScreenOf, At, TypeOK
  <2>2. /\ call'[c].at \in {"asking", "aborted"} /\ call'[c].target = current
        /\ UNCHANGED <<current, phase, response>>
        /\ abort' = [abort EXCEPT ![current] = TRUE]
    BY <1>3, <2>1 DEF SetAbort, Goto, Move, TypeOK
  <2>3. Doomed(current)' /\ \A t \in Tasks : Doomed(t) => Doomed(t)'
    BY <2>1, <2>2 DEF Doomed, TypeOK
  <2>4. ScreenOf(c)' /\ OthersDoomed'
    BY <2>1, <2>2, <2>3, SessionAssumption DEF ScreenOf, OthersDoomed, At
  <2> QED
    BY <1>1, <1>n, <2>4
<1>4. CASE AskResumeOnAbort(c)
  <2>1. call[c].target = current /\ current \in Tasks /\ Doomed(current)
    BY <1>4, <1>s DEF AskResumeOnAbort, ScreenOf, At, TypeOK
  <2>2. /\ call'[c].at = "aborted" /\ call'[c].target = current
        /\ UNCHANGED <<current, abort>>
        /\ phase' = [phase EXCEPT ![current] = IF @ \in AskPhases THEN "dead" ELSE @]
        /\ response' = [response EXCEPT ![current] = "none"]
    BY <1>4, <2>1 DEF AskResumeOnAbort, Goto, Move, flags, TypeOK
  <2>3. \A t \in Tasks : Doomed(t) => Doomed(t)'
    BY <2>1, <2>2 DEF Doomed, TypeOK, AskPhases
  <2>4. ScreenOf(c)' /\ OthersDoomed'
    BY <2>1, <2>2, <2>3, SessionAssumption DEF ScreenOf, OthersDoomed, At
  <2> QED
    BY <1>1, <1>n, <2>4
<1>5. CASE AbortReturns(c)
  <2>1. call[c].target = current /\ current \in Tasks /\ Doomed(current)
    BY <1>5, <1>s DEF AbortReturns, ScreenOf, At, TypeOK
  <2>2. /\ call'[c].at \in {"waiting", "clearing"}
        /\ UNCHANGED <<current, phase, abort, response>>
    BY <1>5 DEF AbortReturns, Move, flags, TypeOK
  <2>3. \A t \in Tasks : Doomed(t) => Doomed(t)'
    BY <2>2 DEF Doomed
  <2>4. ScreenOf(c)' /\ OthersDoomed'
    BY <2>1, <2>2, <2>3 DEF ScreenOf, OthersDoomed, At
  <2> QED
    BY <1>1, <1>n, <2>4
<1>6. CASE DropCurrent(c)
  <2>1. current # NoTask => Doomed(current)
    BY <1>6, <1>s DEF DropCurrent, ScreenOf, At
  <2>2. /\ call'[c].at \in {"setup", "idle"} /\ current' = NoTask
        /\ UNCHANGED <<phase, abort, response>>
    BY <1>6 DEF DropCurrent, Goto, Return, Move, flags, TypeOK
  <2>3. \A t \in Tasks : Doomed(t) => Doomed(t)'
    BY <2>2 DEF Doomed
  <2>4. ScreenOf(c)' /\ OthersDoomed'
    BY <2>1, <2>2, <2>3 DEF ScreenOf, OthersDoomed, At
  <2> QED
    BY <1>1, <1>n, <2>4
<1>7. CASE AbandonCurrent(c) \/ Found(c) \/ NotFound(c)
  <2>1. /\ call'[c].at \in {"clearing", "settings", "lookup", "idle"}
        /\ call'[c].at = "clearing" => current = NoTask
        /\ UNCHANGED <<current, phase, abort, response>>
    BY <1>7 DEF AbandonCurrent, Found, NotFound, EnterClear, Goto, Return, Move, flags, TypeOK
  <2>2. ScreenOf(c)' /\ OthersDoomed'
    BY <2>1 DEF ScreenOf, OthersDoomed, Doomed, At
  <2> QED
    BY <1>1, <1>n, <2>2
<1>8. ASSUME NEW t \in Tasks, Launch(c, t)
      PROVE  ScreenOf(c)' /\ OthersDoomed'
  <2>1. current = NoTask
    BY <1>8, <1>s DEF Launch, ScreenOf
  <2>2. call'[c].at = "idle" /\ current' = t
    BY <1>8 DEF Launch, Return, Move, TypeOK
  <2>3. \A s \in Tasks : s # t => /\ phase'[s] = phase[s] /\ abort'[s] = abort[s]
                                 /\ response'[s] = response[s]
    BY <1>8 DEF Launch, TypeOK
  <2>4. \A s \in Tasks : s # t => Doomed(s)
    BY <2>1, SessionAssumption DEF OthersDoomed
  <2> QED
    BY <2>2, <2>3, <2>4 DEF ScreenOf, OthersDoomed, Doomed, At
<1> QED
  BY <1>1, <1>n, <1>2, <1>3, <1>4, <1>5, <1>6, <1>7, <1>8 DEF CallStep

\* The user and the timers act when nothing else is under way.
LEMMA SettledSerial ==
  ASSUME TypeOK, OthersDoomed, Settled, UserStep \/ \E t \in Tasks : TimerFires(t)
  PROVE  OneCall' /\ OnScreen' /\ OthersDoomed'
<1>i. \A c \in Callers : call[c].at = "idle" /\ ~Busy(c)
  BY DEF Settled, Busy, At
<1>1. ASSUME NEW u \in Users, NEW kind \in {"new", "show", "clear"}, StartCall(u, kind)
      PROVE  OneCall' /\ OnScreen' /\ OthersDoomed'
  <2>1. /\ UNCHANGED <<current, phase, abort, response>>
        /\ \A c \in Callers : c # u => call'[c] = call[c]
        /\ call'[u].at \in {"clearing", "settings"}
        /\ call'[u].at = "clearing" => current = NoTask
    BY <1>1 DEF StartCall, EnterClear, Move, flags, TypeOK, Callers
  <2>2. OneCall'
    BY <1>i, <2>1 DEF OneCall, Busy, At, Phase, Callers
  <2>3. OnScreen'
    BY <1>i, <2>1 DEF OnScreen, ScreenOf, At, Callers
  <2> QED
    BY <2>1, <2>2, <2>3 DEF OthersDoomed, Doomed
<1>2. ASSUME NEW u \in Users, StartCancel(u)
      PROVE  OneCall' /\ OnScreen' /\ OthersDoomed'
  <2>1. /\ UNCHANGED <<current, phase, abort, response>>
        /\ \A c \in Callers : c # u => call'[c] = call[c]
        /\ call'[u].at = "aborting" /\ call'[u].target = current /\ current # NoTask
    BY <1>2 DEF StartCancel, Move, flags, TypeOK, Callers
  <2>2. OneCall'
    BY <1>i, <2>1 DEF OneCall, Busy, At, Phase, Callers
  <2>3. OnScreen'
    BY <1>i, <2>1 DEF OnScreen, ScreenOf, At, Callers
  <2> QED
    BY <2>1, <2>2, <2>3 DEF OthersDoomed, Doomed
<1>3. ASSUME (\E r \in {"yes", "no"} : Respond(r)) \/ \E t \in Tasks : TimerFires(t)
      PROVE  OneCall' /\ OnScreen' /\ OthersDoomed'
  <2>1. /\ UNCHANGED <<current, call, phase, abort>>
        /\ \A t \in Tasks : t # current => response'[t] = response[t]
    BY <1>3 DEF Respond, TimerFires, control, flags, TypeOK
  <2>2. OneCall'
    BY <1>i, <2>1 DEF OneCall, Busy, At, Phase, Callers
  <2>3. OnScreen'
    BY <1>i, <2>1 DEF OnScreen, ScreenOf, At, Callers
  <2> QED
    BY <2>1, <2>2, <2>3 DEF OthersDoomed, Doomed
<1> QED
  BY <1>1, <1>2, <1>3 DEF UserStep

LEMMA NextSerial == SerialInv /\ [SerialNext]_vars => SerialInv'
<1> SUFFICES ASSUME SerialInv, [SerialNext]_vars PROVE SerialInv'
  OBVIOUS
<1> USE DEF SerialInv
<1>0. TypeOK
  BY DEF IInv
<1>1. IInv'
  <2>1. [Next]_vars
    BY DEF SerialNext, Next, CalmTaskStep
  <2> QED
    BY <2>1, NextIInv
<1>2. CASE UNCHANGED vars
  BY <1>1, <1>2 DEF vars, control, flags, OneCall, Busy, At, Phase, OnScreen, ScreenOf, OthersDoomed, Doomed,
                    Callers
<1>3. CASE Settled /\ (UserStep \/ \E t \in Tasks : TimerFires(t))
  BY <1>0, <1>1, <1>3, SettledSerial
<1>4. ASSUME NEW c \in Callers, CallStep(c)
      PROVE  SerialInv'
  BY <1>0, <1>1, <1>4, CallSerial
<1>5. ASSUME NEW t \in Tasks, CalmTaskStep(t)
      PROVE  SerialInv'
  BY <1>0, <1>1, <1>5, TaskSerial
<1> QED
  BY <1>2, <1>3, <1>4, <1>5 DEF SerialNext

LEMMA SerialInvHolds == SerialSpec => []SerialInv
  BY InitSerial, NextSerial, PTL DEF SerialSpec

\* With one call at a time only the task on the screen sends requests or runs tools,
\* for any number of Task objects: whatever clearTask, cancelTask or a failed task's
\* re-initialisation has dropped is aborted, or waits for an answer it never gets.
THEOREM WorkersAreCurrent == SerialSpec => []WorkerIsCurrent
<1>1. SerialInv => WorkerIsCurrent
  BY DEF SerialInv, OthersDoomed, Doomed, WorkerIsCurrent, Working, Streaming
<1> QED
  BY SerialInvHolds, <1>1, PTL

\* ... and so there is at most one that does.
THEOREM OneTaskWorks == SerialSpec => []OneWorker
<1>1. SerialInv => OneWorker
  BY DEF SerialInv, OthersDoomed, Doomed, OneWorker, Working, Streaming
<1> QED
  BY SerialInvHolds, <1>1, PTL

\* With hooks on, an approval that is answered after the task was replaced starts no
\* tool: runPreToolUseIfEnabled finds the abort flag that every replaced task carries.
THEOREM OrphansRunNoTool == ASSUME HooksEnabled PROVE SerialSpec => OrphanRunsNoTool
<1>1. SerialInv /\ [SerialNext]_vars =>
        [\A t \in Tasks : phase[t] = "toolAsk" /\ phase'[t] = "executing" => t = current]_vars
  <2> SUFFICES ASSUME SerialInv, SerialNext, NEW t \in Tasks,
                      phase[t] = "toolAsk", phase'[t] = "executing"
               PROVE  t = current
    OBVIOUS
  <2>0. TypeOK
    BY DEF SerialInv, IInv
  <2>1. ToolAnswered(t)
    <3>1. ASSUME NEW c \in Callers, CallStep(c)
          PROVE  FALSE
      BY <2>0, <3>1 DEF CallStep, AbortCurrent, SetAbort, AskResumeOnAbort, AbortReturns, DropCurrent,
         AbandonCurrent, Found, NotFound, Launch, TypeOK
    <3>2. ASSUME UserStep \/ \E s \in Tasks : TimerFires(s)
          PROVE  FALSE
      BY <3>2 DEF UserStep, StartCall, StartCancel, Respond, TimerFires
    <3>3. PICK s \in Tasks : TaskStep(s)
      BY <3>1, <3>2 DEF SerialNext, CalmTaskStep
    <3>4. s = t
      BY <2>0, <3>3 DEF TaskStep, EnterLoop, Restored, Resumed, FirstChunk, FirstChunkFails,
         BackoffOver, RetryAnswered, StreamFails, Reinit, ReinitReturns, StreamAborted, ToolCall,
         ToolAnswered, ToolDone, TurnDone, Complete, StreamError, Ask, Die, To, TypeOK
    <3> QED
      BY <3>3, <3>4 DEF TaskStep, EnterLoop, Restored, Resumed, FirstChunk, FirstChunkFails,
         BackoffOver, RetryAnswered, StreamFails, Reinit, ReinitReturns, StreamAborted, ToolCall,
         ToolDone, TurnDone, Complete, Phase
  <2>2. ~abort[t]
    BY <2>0, <2>1 DEF ToolAnswered, To, TypeOK
  <2> QED
    BY <2>2 DEF SerialInv, OthersDoomed, Doomed
<1> QED
  BY SerialInvHolds, <1>1, PTL DEF SerialSpec, OrphanRunsNoTool

-----------------------------------------------------------------------------
(***************************************************************************)
(* TaskMessages, for any number of asks and messages.  That the file is    *)
(* the list needs the lock as it is (QueueOK: its callers are in the queue *)
(* and only the first is inside) and what a save that is to come still owes *)
(* (FileOK).  That an answer belongs to its ask needs ids to be new: each ask *)
(* has a time that no earlier message has, so none reuses an answered one  *)
(* (IdsOK, AsksOK), and the slot of the answer follows the ask (SlotOK).   *)
(***************************************************************************)

Goals == {"idle", "waiting", "reorder", "listen"}

Adds == [do : {"add"}, next : Goals, message : Messages]
Updates == [do : {"update"}, next : Goals, index : Nat, partial : BOOLEAN, text : Texts]
Deletes == [do : {"delete"}, next : {"readd"}, index : Nat, message : Messages]
Saves == [do : {"save"}, next : {"idle"}]
Works == Adds \union Updates \union Deletes \union Saves

Inside(a) == pc[a] \in {"queued", "saving"}

\* What a call does under the lock is known from the call to the release of the lock.
WorkOK(a) == /\ Inside(a) => op[a] \in Works
             /\ pc[a] = "readd" => op[a] \in Deletes
             /\ ~Inside(a) /\ pc[a] # "readd" => op[a] = NoCall

\* The lock: its callers wait in the queue, and only the first is inside.
QueueOK == /\ queue \in Seq(Actors) /\ IsInjective(queue)
           /\ \A a \in Actors : Inside(a) <=> \E i \in DOMAIN queue : queue[i] = a
           /\ \A a \in Actors : pc[a] = "saving" => queue[1] = a

CallsOK == /\ pc \in [Actors -> {"idle", "queued", "saving", "waiting", "noticed", "reorder",
                                 "readd", "listen"}]
           /\ op = [a \in Actors |-> op[a]] /\ \A a \in Actors : WorkOK(a)
           /\ QueueOK

ListsOK == /\ msgs \in Seq(Messages) /\ disk \in Seq(Messages) /\ saving \in Seq(Messages)
           /\ unsaved \in BOOLEAN

\* The agent has set the list without the lock and will save it.
Owed == pc[Agent] = "queued" /\ op[Agent].do = "save"

\* A change that the file lacks is in the save under way, or in one that will come.
FileOK == /\ \A a \in Actors : pc[a] = "saving" => saving = msgs \/ Owed
          /\ (\A a \in Actors : pc[a] # "saving") => unsaved \/ disk = msgs \/ Owed

TimesOK == /\ askTs \in [Actors -> Times] /\ last \in Times
           /\ (slot = Empty \/ slot \in [at : Times, for : Times])
           /\ click \in Times /\ clicks \in 0..MaxClicks
           /\ clock \in Times /\ sent \in Times /\ clock <= sent

\* A job that has not ended makes no call of its own.
JobsOK == /\ job \in [Jobs -> {"none", "starting", "running", "over"}] /\ aborted \in BOOLEAN
          /\ \A j \in Jobs : job[j] # "over" => pc[j] = "idle"

MessagesIInv == ListsOK /\ CallsOK /\ FileOK /\ TimesOK /\ JobsOK

LEMMA MessagesFacts ==
  /\ Agent \in Actors /\ Cleanup \in Actors /\ Jobs \subseteq Actors /\ Agent # Cleanup
  /\ Agent \notin Jobs /\ Cleanup \notin Jobs /\ MaxMessages \in Nat
BY MessagesAssumption DEF Actors

-----------------------------------------------------------------------------
\* The last of some messages is one of them.
LEMMA MaxIsIn ==
  ASSUME NEW n \in Nat, NEW S, S \subseteq 1..n, S # {}
  PROVE  Max(S) \in S
<1> DEFINE T == {n - x : x \in S}
<1>1. T \subseteq Nat /\ T # {}
  <2>1. \A x \in S : n - x \in Nat
    OBVIOUS
  <2>2. PICK s \in S : TRUE
    OBVIOUS
  <2>3. n - s \in T
    OBVIOUS
  <2> QED BY <2>1, <2>3
<1>2. PICK t \in T : \A y \in T : ~(<<y, t>> \in OpToRel(<, Nat))
  BY <1>1, NatLessThanWellFounded, WFMin, Zenon
<1>3. \A y \in T : ~(y < t)
  BY <1>1, <1>2 DEF OpToRel
<1>4. PICK x \in S : t = n - x
  OBVIOUS
<1>5. \A y \in S : x >= y
  <2> SUFFICES ASSUME NEW y \in S PROVE x >= y
    OBVIOUS
  <2>1. ~(n - y < n - x)
    BY <1>3, <1>4
  <2> QED BY <2>1
<1> QED BY <1>4, <1>5 DEF Max

LEMMA LastOfIsIn ==
  ASSUME msgs \in Seq(Messages), NEW S, S \subseteq DOMAIN msgs, LastOf(S) # 0
  PROVE  LastOf(S) \in S
<1>1. Len(msgs) \in Nat /\ DOMAIN msgs = 1..Len(msgs)
  OBVIOUS
<1> QED BY <1>1, MaxIsIn DEF LastOf

LEMMA RemoveKeepsSeq ==
  ASSUME NEW S, NEW s \in Seq(S), NEW i \in DOMAIN s
  PROVE  /\ RemoveAt(s, i) \in Seq(S) /\ Len(RemoveAt(s, i)) = Len(s) - 1
         /\ \A j \in DOMAIN RemoveAt(s, i) : \E k \in DOMAIN s : RemoveAt(s, i)[j] = s[k]
<1>1. Len(s) \in Nat /\ i \in 1..Len(s) /\ \A k \in 1..Len(s) : s[k] \in S
  OBVIOUS
<1> DEFINE t == SubSeq(s, 1, i - 1)  u == SubSeq(s, i + 1, Len(s))
<1>2. /\ t \in Seq(S) /\ Len(t) = i - 1 /\ \A j \in 1..(i - 1) : t[j] = s[j]
  BY <1>1
<1>3. /\ u \in Seq(S) /\ Len(u) = Len(s) - i /\ \A j \in 1..(Len(s) - i) : u[j] = s[i + j]
  BY <1>1
<1> HIDE DEF t, u
<1>4. /\ t \o u \in Seq(S) /\ Len(t \o u) = Len(t) + Len(u)
      /\ \A j \in 1..(Len(t) + Len(u)) : (t \o u)[j] = IF j <= Len(t) THEN t[j] ELSE u[j - Len(t)]
  BY <1>2, <1>3, ConcatProperties
<1> DEFINE r == t \o u
<1>5. RemoveAt(s, i) = r
  BY DEF RemoveAt, t, u
<1>6. /\ r \in Seq(S) /\ Len(r) = Len(s) - 1
      /\ \A j \in 1..(Len(s) - 1) : r[j] = IF j <= i - 1 THEN t[j] ELSE u[j - (i - 1)]
  <2>1. Len(t) + Len(u) = Len(s) - 1
    BY <1>1, <1>2, <1>3
  <2> QED BY <1>2, <1>4, <2>1
<1> HIDE DEF r
<1>7. ASSUME NEW j \in 1..(Len(s) - 1) PROVE \E k \in 1..Len(s) : r[j] = s[k]
  <2>1. CASE j <= i - 1
    BY <1>1, <1>2, <1>6, <2>1
  <2>2. CASE ~(j <= i - 1)
    <3>1. j - (i - 1) \in 1..(Len(s) - i) /\ j + 1 \in 1..Len(s) /\ i + (j - (i - 1)) = j + 1
      BY <1>1, <2>2
    <3> QED BY <1>3, <1>6, <2>2, <3>1
  <2> QED BY <2>1, <2>2
<1>8. DOMAIN r = 1..(Len(s) - 1) /\ DOMAIN s = 1..Len(s)
  BY <1>1, <1>6
<1> QED BY <1>5, <1>6, <1>7, <1>8

-----------------------------------------------------------------------------
\* A caller that is not inside joins the queue.
LEMMA LockKeepsCalls ==
  ASSUME CallsOK, NEW a \in Actors, ~Inside(a), NEW o \in Works, Lock(a, o)
  PROVE  CallsOK'
<1>1. /\ queue' = Append(queue, a) /\ pc' = [pc EXCEPT ![a] = "queued"]
      /\ op' = [op EXCEPT ![a] = o] /\ queue \in Seq(Actors)
  BY DEF Lock, CallsOK, QueueOK
<1>2. /\ Len(queue) \in Nat /\ queue' \in Seq(Actors) /\ Len(queue') = Len(queue) + 1
      /\ queue'[Len(queue) + 1] = a /\ \A i \in 1..Len(queue) : queue'[i] = queue[i]
  BY <1>1
<1>3. \A i \in 1..Len(queue) : queue[i] # a
  BY <1>1 DEF CallsOK, QueueOK
<1>4. IsInjective(queue')
  <2>1. \A i, k \in 1..Len(queue) : queue[i] = queue[k] => i = k
    BY <1>1 DEF CallsOK, QueueOK, IsInjective
  <2>2. ASSUME NEW i \in 1..(Len(queue) + 1), NEW k \in 1..(Len(queue) + 1), queue'[i] = queue'[k]
        PROVE  i = k
    BY <1>2, <1>3, <2>1, <2>2
  <2> QED BY <1>2, <2>2 DEF IsInjective
<1>5. ASSUME NEW b \in Actors PROVE Inside(b)' <=> \E i \in DOMAIN queue' : queue'[i] = b
  <2>1. CASE b = a
    <3>1. Len(queue) + 1 \in DOMAIN queue'
      BY <1>2
    <3>2. Inside(b)'
      BY <1>1, <2>1 DEF Inside, CallsOK
    <3> QED BY <1>2, <2>1, <3>1, <3>2
  <2>2. CASE b # a
    <3>1. Inside(b)' <=> Inside(b)
      BY <1>1, <2>2 DEF Inside, CallsOK
    <3>2. Inside(b) <=> \E i \in 1..Len(queue) : queue[i] = b
      <4>1. Inside(b) <=> \E i \in DOMAIN queue : queue[i] = b
        BY Zenon DEF CallsOK, QueueOK
      <4>2. DOMAIN queue = 1..Len(queue)
        BY <1>1
      <4> QED BY <4>1, <4>2, Zenon
    <3>3. (\E i \in 1..Len(queue) : queue[i] = b) <=> (\E i \in 1..(Len(queue) + 1) : queue'[i] = b)
      BY <1>2, <2>2
    <3> QED BY <1>2, <3>1, <3>2, <3>3
  <2> QED BY <2>1, <2>2
<1>6. ASSUME NEW b \in Actors, pc'[b] = "saving" PROVE queue'[1] = b
  <2>1. b # a /\ pc[b] = "saving"
    BY <1>1, <1>6 DEF CallsOK
  <2>2. queue[1] = b /\ \E i \in DOMAIN queue : queue[i] = b
    <3>1. Inside(b)
      BY <2>1 DEF Inside
    <3> QED BY <2>1, <3>1, Zenon DEF CallsOK, QueueOK
  <2>3. 1 \in 1..Len(queue)
    <3>1. DOMAIN queue = 1..Len(queue)
      BY <1>1
    <3> QED BY <1>2, <2>2, <3>1
  <2> QED BY <1>2, <2>2, <2>3
<1>7. QueueOK'
  BY <1>2, <1>4, <1>5, <1>6 DEF QueueOK
<1>8. ASSUME NEW b \in Actors PROVE WorkOK(b)'
  BY <1>1 DEF CallsOK, WorkOK, Inside
<1>9. pc' \in [Actors -> {"idle", "queued", "saving", "waiting", "noticed", "reorder", "readd", "listen"}]
      /\ op' = [b \in Actors |-> op'[b]]
  BY <1>1 DEF CallsOK
<1> QED BY <1>7, <1>8, <1>9 DEF CallsOK

\* The first leaves it.
LEMMA LeaveKeepsCalls ==
  ASSUME CallsOK, NEW a \in Actors, Inside(a), queue # <<>>, queue[1] = a,
         NEW p \in {"idle", "waiting", "noticed", "reorder", "readd", "listen"}, NEW o,
         p = "readd" => o \in Deletes, p # "readd" => o = NoCall,
         queue' = Tail(queue), pc' = [pc EXCEPT ![a] = p], op' = [op EXCEPT ![a] = o]
  PROVE  CallsOK'
<1>1. /\ queue \in Seq(Actors) /\ Len(queue) \in Nat /\ Len(queue) >= 1
      /\ queue' \in Seq(Actors) /\ Len(queue') = Len(queue) - 1
      /\ \A i \in 1..(Len(queue) - 1) : queue'[i] = queue[i + 1]
  BY DEF CallsOK, QueueOK
<1>2. \A i, k \in 1..Len(queue) : queue[i] = queue[k] => i = k
  BY <1>1 DEF CallsOK, QueueOK, IsInjective
<1>3. IsInjective(queue')
  <2>1. ASSUME NEW i \in 1..(Len(queue) - 1), NEW k \in 1..(Len(queue) - 1), queue'[i] = queue'[k]
        PROVE  i = k
    <3>1. i + 1 \in 1..Len(queue) /\ k + 1 \in 1..Len(queue)
      BY <1>1
    <3>2. i + 1 = k + 1
      BY <1>1, <1>2, <2>1, <3>1
    <3> QED BY <1>1, <3>2
  <2>2. DOMAIN queue' = 1..(Len(queue) - 1)
    BY <1>1
  <2> QED BY <2>1, <2>2 DEF IsInjective
<1>4. ASSUME NEW b \in Actors PROVE Inside(b)' <=> \E i \in DOMAIN queue' : queue'[i] = b
  <2>1. CASE b = a
    <3>1. ~Inside(b)'
      BY <2>1 DEF Inside, CallsOK
    <3>2. ASSUME NEW i \in 1..(Len(queue) - 1) PROVE queue'[i] # a
      <4>1. i + 1 \in 1..Len(queue) /\ 1 \in 1..Len(queue) /\ i + 1 # 1
        BY <1>1
      <4> QED BY <1>1, <1>2, <4>1
    <3> QED BY <1>1, <2>1, <3>1, <3>2
  <2>2. CASE b # a
    <3>1. Inside(b)' <=> Inside(b)
      BY <2>2 DEF Inside, CallsOK
    <3>2. Inside(b) <=> \E i \in 1..Len(queue) : queue[i] = b
      BY <1>1 DEF CallsOK, QueueOK
    <3>3. ASSUME NEW i \in 1..Len(queue), queue[i] = b PROVE i - 1 \in 1..(Len(queue) - 1) /\ queue'[i - 1] = b
      <4>1. i # 1
        BY <2>2, <3>3
      <4>2. i - 1 \in 1..(Len(queue) - 1) /\ (i - 1) + 1 = i
        BY <1>1, <4>1
      <4> QED BY <1>1, <3>3, <4>2
    <3>4. ASSUME NEW i \in 1..(Len(queue) - 1), queue'[i] = b PROVE i + 1 \in 1..Len(queue) /\ queue[i + 1] = b
      BY <1>1, <3>4
    <3>5. DOMAIN queue' = 1..(Len(queue) - 1)
      BY <1>1
    <3> QED BY <3>1, <3>2, <3>3, <3>4, <3>5
  <2> QED BY <2>1, <2>2
<1>5. ASSUME NEW b \in Actors, pc'[b] = "saving" PROVE FALSE
  <2>1. b # a /\ pc[b] = "saving"
    BY <1>5 DEF CallsOK
  <2> QED BY <2>1 DEF CallsOK, QueueOK
<1>6. QueueOK'
  BY <1>1, <1>3, <1>4, <1>5 DEF QueueOK
<1>7. ASSUME NEW b \in Actors PROVE WorkOK(b)'
  BY DEF CallsOK, WorkOK, Inside
<1>8. pc' \in [Actors -> {"idle", "queued", "saving", "waiting", "noticed", "reorder", "readd", "listen"}]
      /\ op' = [b \in Actors |-> op'[b]]
  BY DEF CallsOK
<1> QED BY <1>6, <1>7, <1>8 DEF CallsOK

\* A step between two calls.
LEMMA MoveKeepsCalls ==
  ASSUME CallsOK, NEW a \in Actors, ~Inside(a), pc[a] # "readd",
         NEW p \in {"idle", "waiting", "noticed", "reorder", "listen"},
         pc' = [pc EXCEPT ![a] = p], UNCHANGED <<queue, op>>
  PROVE  CallsOK'
<1>1. \A b \in Actors : Inside(b)' <=> Inside(b)
  BY DEF CallsOK, Inside
<1>2. \A b \in Actors : pc'[b] = "saving" <=> pc[b] = "saving"
  BY DEF CallsOK, Inside
<1>3. QueueOK'
  BY <1>1, <1>2 DEF CallsOK, QueueOK
<1>4. ASSUME NEW b \in Actors PROVE WorkOK(b)'
  BY <1>1 DEF CallsOK, WorkOK
<1> QED BY <1>3, <1>4 DEF CallsOK
-----------------------------------------------------------------------------
\* What an operation makes of the list is a list.
LEMMA ChangedIsList ==
  ASSUME ListsOK, NEW a \in Actors, op[a] \in Works, Within(a)
  PROVE  Changed(op[a]) \in Seq(Messages)
<1> DEFINE o == op[a]
<1>1. msgs \in Seq(Messages)
  BY DEF ListsOK
<1>2. CASE o \in Adds
  BY <1>1, <1>2 DEF Adds, Changed
<1>3. CASE o \in Updates
  <2> DEFINE m == [msgs[o.index] EXCEPT !.text = o.text, !.partial = o.partial]
  <2>1. o.index \in 1..Len(msgs) /\ o.do = "update" /\ msgs[o.index] \in Messages
    BY <1>1, <1>3 DEF Updates, Within
  <2>2. m \in Messages
    BY <1>3, <2>1 DEF Messages, Updates
  <2>3. Changed(o) = [msgs EXCEPT ![o.index] = m]
    BY <1>1, <2>1 DEF Changed
  <2> HIDE DEF m
  <2>4. [msgs EXCEPT ![o.index] = m] \in Seq(Messages)
    BY <1>1, <2>1, <2>2, ExceptSeq
  <2> QED BY <2>3, <2>4
<1>4. CASE o \in Deletes
  <2>1. o.index \in DOMAIN msgs /\ o.do = "delete"
    BY <1>4 DEF Deletes, Within
  <2>2. Changed(o) = RemoveAt(msgs, o.index)
    BY <2>1 DEF Changed
  <2> QED BY <1>1, <2>1, <2>2, RemoveKeepsSeq
<1>5. CASE o \in Saves
  BY <1>1, <1>5 DEF Saves, Changed
<1> QED BY <1>2, <1>3, <1>4, <1>5 DEF Works

-----------------------------------------------------------------------------
\* A call that leaves the lists alone owes them nothing.
LEMMA LockKeepsFile ==
  ASSUME MessagesIInv, NEW a \in Actors, ~Inside(a), NEW o \in Works, Lock(a, o), UNCHANGED list
  PROVE  FileOK'
<1>1. /\ pc' = [pc EXCEPT ![a] = "queued"] /\ op' = [op EXCEPT ![a] = o]
      /\ msgs' = msgs /\ disk' = disk /\ saving' = saving /\ unsaved' = unsaved
  BY DEF Lock, list
<1>2. \A b \in Actors : pc'[b] = "saving" <=> pc[b] = "saving"
  BY <1>1 DEF MessagesIInv, CallsOK, Inside
<1>3. Owed => Owed'
  BY <1>1, MessagesFacts DEF MessagesIInv, CallsOK, Inside, Owed
<1> QED BY <1>1, <1>2, <1>3 DEF MessagesIInv, FileOK

LEMMA SendKeeps ==
  ASSUME MessagesIInv, NEW a \in Actors, pc[a] = "idle",
         NEW kind \in Kinds, NEW type \in Types, NEW mode \in Modes, NEW text \in Texts,
         NEW next \in Goals, Send(a, kind, type, mode, text, next)
  PROVE  /\ ListsOK' /\ CallsOK' /\ FileOK' /\ TimesOK'
         /\ pc' = [pc EXCEPT ![a] = "queued"] /\ aborted' = aborted
<1>1. ~Inside(a) /\ (mode = "partial") \in BOOLEAN /\ TimesOK /\ ListsOK /\ CallsOK
  BY DEF Inside, MessagesIInv
<1>2. CASE SendNew(a, kind, type, mode, text, next)
  <2> DEFINE m == [ts |-> clock', kind |-> kind, type |-> type, partial |-> mode = "partial", text |-> text]
             o == [do |-> "add", next |-> next, message |-> m]
  <2>1. /\ sent < MaxMessages /\ sent' = sent + 1 /\ (clock' = clock + 1 \/ clock' = clock) /\ last' = clock'
        /\ Lock(a, o) /\ UNCHANGED <<list, user, aborted>> /\ Asks(a, kind, mode, clock')
    BY <1>2 DEF SendNew
  <2>2. clock' \in Times /\ sent' \in Times /\ clock' <= sent'
    BY <1>1, <2>1, MessagesFacts DEF TimesOK, Times
  <2>3. o \in Works
    BY <1>1, <2>2 DEF Works, Adds, Messages
  <2> HIDE DEF o
  <2>4. CallsOK' /\ FileOK'
    BY <1>1, <2>1, <2>3, LockKeepsCalls, LockKeepsFile
  <2>5. TimesOK'
    BY <1>1, <2>1, <2>2 DEF TimesOK, Asks, user
  <2> QED BY <1>1, <2>1, <2>4, <2>5 DEF ListsOK, list, Lock
<1>3. CASE SendUpdate(a, kind, type, mode, text, next)
  <2> DEFINE index == LastPartial(kind, type)
             o == [do |-> "update", next |-> next, index |-> index, partial |-> mode = "partial", text |-> text]
  <2>1. /\ index # 0 /\ (last' = last \/ last' = msgs[index].ts) /\ Asks(a, kind, mode, msgs[index].ts)
        /\ Lock(a, o) /\ UNCHANGED <<list, user, time, aborted>>
    BY <1>3 DEF SendUpdate
  <2>2. index \in DOMAIN msgs
    BY <1>1, <2>1, LastOfIsIn DEF LastPartial, ListsOK
  <2>3. msgs[index].ts \in Times /\ index \in Nat
    <3>1. msgs \in Seq(Messages)
      BY <1>1 DEF ListsOK
    <3> HIDE DEF index
    <3>2. index \in 1..Len(msgs) /\ Len(msgs) \in Nat
      BY <2>2, <3>1
    <3>3. msgs[index] \in Messages
      BY <3>1, <3>2, ElementOfSeq
    <3> QED BY <3>2, <3>3 DEF Messages
  <2> HIDE DEF index
  <2>4. o \in Works
    BY <1>1, <2>3 DEF Works, Updates
  <2> HIDE DEF o
  <2>5. CallsOK' /\ FileOK'
    BY <1>1, <2>1, <2>4, LockKeepsCalls, LockKeepsFile
  <2>6. TimesOK'
    BY <1>1, <2>1, <2>3 DEF TimesOK, Asks, user, time
  <2> QED BY <1>1, <2>1, <2>5, <2>6 DEF ListsOK, list, Lock
<1> QED BY <1>2, <1>3 DEF Send

\* What the agent, the cleanup and the jobs do.
LEMMA CallStepKeeps ==
  ASSUME MessagesIInv,
         \/ Speak \/ RemoveLast \/ ReportHook \/ Reorder \/ ReAdd \/ CleanUp
         \/ \E j \in Jobs : Announce(j) \/ Listen(j) \/ JobEnds(j)
  PROVE  MessagesIInv'
<1>1. ListsOK /\ CallsOK /\ FileOK /\ TimesOK /\ JobsOK
  BY DEF MessagesIInv
<1>2. \A a \in Actors : pc[a] \in {"idle", "reorder", "readd", "listen"} => ~Inside(a)
  BY DEF Inside
<1>3. CASE Speak \/ ReportHook \/ CleanUp
  <2>1. ASSUME NEW a \in {Agent, Cleanup}, pc[a] = "idle", job' = job,
               NEW kind \in Kinds, NEW type \in Types, NEW mode \in Modes, NEW text \in Texts,
               NEW next \in Goals, Send(a, kind, type, mode, text, next)
        PROVE  MessagesIInv'
    <3>1. /\ ListsOK' /\ CallsOK' /\ FileOK' /\ TimesOK'
          /\ pc' = [pc EXCEPT ![a] = "queued"] /\ aborted' = aborted
      BY <2>1, SendKeeps, MessagesFacts
    <3>2. JobsOK'
      BY <1>1, <2>1, <3>1, MessagesFacts DEF JobsOK, CallsOK
    <3> QED BY <3>1, <3>2 DEF MessagesIInv
  <2>2. ASSUME NEW kind \in Kinds, NEW mode \in Modes
        PROVE  /\ (IF mode = "whole" THEN "text" ELSE "tool") \in Types
               /\ (IF kind = "ask" /\ mode # "partial" THEN "waiting" ELSE "idle") \in Goals
    BY DEF Types, Goals
  <2>3. CASE Speak
    <3>1. PICK kind \in Kinds, mode \in Modes :
               Send(Agent, kind, IF mode = "whole" THEN "text" ELSE "tool", mode, Agent,
                    IF kind = "ask" /\ mode # "partial" THEN "waiting" ELSE "idle")
      BY <2>3 DEF Speak
    <3> QED BY <2>1, <2>2, <2>3, <3>1, MessagesFacts DEF Speak, Texts
  <2>4. CASE ReportHook
    <3>1. Send(Agent, "say", "hook", "whole", Agent, "reorder") /\ pc[Agent] = "idle" /\ job' = job
      BY <2>4 DEF ReportHook
    <3> QED BY <2>1, <3>1, MessagesFacts DEF Texts, Kinds, Types, Modes, Goals
  <2>5. CASE CleanUp
    <3>1. /\ pc[Cleanup] = "idle" /\ job' = job
          /\ \/ Send(Cleanup, "say", "hook", "whole", Cleanup, "idle")
             \/ Send(Cleanup, "ask", "resume", "whole", Cleanup, "waiting")
      BY <2>5 DEF CleanUp
    <3> QED BY <2>1, <3>1, MessagesFacts DEF Texts, Kinds, Types, Modes, Goals
  <2> QED BY <1>3, <2>3, <2>4, <2>5
<1>4. CASE RemoveLast
  <2> DEFINE o == [do |-> "save", next |-> "idle"]
  <2>1. /\ pc[Agent] = "idle" /\ Lock(Agent, o)
        /\ UNCHANGED <<disk, saving, unsaved, askTs, answer, user, time, job, aborted>>
    BY <1>4 DEF RemoveLast
  <2>2. PICK kind \in Kinds, onlyPartial \in BOOLEAN :
               LET index == LastOf({i \in DOMAIN msgs : /\ onlyPartial => msgs[i].partial
                                                       /\ msgs[i].kind = kind
                                                       /\ msgs[i].type = "tool"})
               IN  index # 0 /\ msgs' = RemoveAt(msgs, index)
    BY <1>4 DEF RemoveLast
  <2>3. PICK index \in DOMAIN msgs : msgs' = RemoveAt(msgs, index)
    BY <1>1, <2>2, LastOfIsIn DEF ListsOK
  <2>4. ListsOK'
    BY <1>1, <2>1, <2>3, RemoveKeepsSeq DEF ListsOK
  <2>5. o \in Works
    BY DEF Works, Saves
  <2>6. /\ pc' = [pc EXCEPT ![Agent] = "queued"] /\ op' = [op EXCEPT ![Agent] = o]
    BY <2>1 DEF Lock
  <2>7. Owed'
    BY <1>1, <2>6, MessagesFacts DEF CallsOK, Owed
  <2> HIDE DEF o
  <2>8. CallsOK'
    BY <1>1, <1>2, <2>1, <2>5, LockKeepsCalls, MessagesFacts
  <2>9. FileOK'
    BY <2>7 DEF FileOK
  <2>10. TimesOK' /\ JobsOK'
    BY <1>1, <2>1, <2>6, MessagesFacts DEF TimesOK, JobsOK, CallsOK, answer, user, time
  <2> QED BY <2>4, <2>8, <2>9, <2>10 DEF MessagesIInv
<1>5. CASE Reorder
  <2>1. /\ pc[Agent] = "reorder" /\ UNCHANGED <<list, askTs, answer, user, time, job, aborted>>
    BY <1>5 DEF Reorder
  <2>2. ListsOK' /\ TimesOK'
    BY <1>1, <2>1 DEF ListsOK, TimesOK, list, answer, user, time
  <2>3. CASE ToolBeforeHook = 0
    <3>1. pc' = [pc EXCEPT ![Agent] = "idle"] /\ UNCHANGED <<queue, op>>
      BY <1>5, <2>3 DEF Reorder
    <3>2. CallsOK'
      BY <1>1, <1>2, <2>1, <3>1, MoveKeepsCalls, MessagesFacts
    <3>3. FileOK' /\ JobsOK'
      BY <1>1, <2>1, <3>1, MessagesFacts DEF FileOK, JobsOK, CallsOK, Owed, list
    <3> QED BY <2>2, <3>2, <3>3 DEF MessagesIInv
  <2>4. CASE ToolBeforeHook # 0
    <3> DEFINE i == ToolBeforeHook
               o == [do |-> "delete", next |-> "readd", index |-> i, message |-> msgs[i]]
    <3>1. Lock(Agent, o)
      BY <1>5, <2>4 DEF Reorder
    <3>2. i \in DOMAIN msgs
      <4>1. i = LastOf({k \in DOMAIN msgs : msgs[k].type = "tool"})
        BY <2>4 DEF ToolBeforeHook
      <4> QED BY <1>1, <2>4, <4>1, LastOfIsIn DEF ListsOK
    <3> HIDE DEF i
    <3>3. o \in Works
      BY <1>1, <3>2 DEF Works, Deletes, ListsOK
    <3> HIDE DEF o
    <3>4. CallsOK' /\ FileOK'
      BY <1>1, <1>2, <2>1, <3>1, <3>3, LockKeepsCalls, LockKeepsFile, MessagesFacts
    <3>5. JobsOK'
      BY <1>1, <2>1, <3>1, MessagesFacts DEF JobsOK, CallsOK, Lock
    <3> QED BY <2>2, <3>4, <3>5 DEF MessagesIInv
  <2> QED BY <2>3, <2>4
<1>6. CASE ReAdd
  <2> DEFINE o == [do |-> "add", next |-> "idle", message |-> op[Agent].message]
  <2>1. pc[Agent] = "readd" /\ Lock(Agent, o) /\ UNCHANGED <<list, askTs, answer, user, time, job, aborted>>
    BY <1>6 DEF ReAdd
  <2>2. op[Agent] \in Deletes
    BY <1>1, <2>1, MessagesFacts DEF CallsOK, WorkOK
  <2>3. o \in Works
    BY <2>2 DEF Works, Adds, Deletes, Goals
  <2> HIDE DEF o
  <2>4. CallsOK' /\ FileOK'
    BY <1>1, <1>2, <2>1, <2>3, LockKeepsCalls, LockKeepsFile, MessagesFacts
  <2>5. ListsOK' /\ TimesOK' /\ JobsOK'
    BY <1>1, <2>1, MessagesFacts DEF ListsOK, TimesOK, JobsOK, CallsOK, Lock, list, answer, user, time
  <2> QED BY <2>4, <2>5 DEF MessagesIInv
<1>7. ASSUME NEW j \in Jobs, Announce(j) PROVE MessagesIInv'
  <2>1. /\ pc[Agent] = "idle" /\ job[j] = "none" /\ Send(Agent, "say", "tool", "partial", j, "listen")
        /\ job' = [job EXCEPT ![j] = "starting"]
    BY <1>7 DEF Announce
  <2>2. /\ ListsOK' /\ CallsOK' /\ FileOK' /\ TimesOK'
        /\ pc' = [pc EXCEPT ![Agent] = "queued"] /\ aborted' = aborted
    BY <2>1, SendKeeps, MessagesFacts DEF Texts, Kinds, Types, Modes, Goals
  <2>3. JobsOK'
    BY <1>1, <2>1, <2>2, MessagesFacts DEF JobsOK, CallsOK
  <2> QED BY <2>2, <2>3 DEF MessagesIInv
<1>8. ASSUME NEW j \in Jobs, Listen(j) PROVE MessagesIInv'
  <2>1. /\ pc[Agent] = "listen" /\ pc' = [pc EXCEPT ![Agent] = "idle"] /\ job' = [job EXCEPT ![j] = "running"]
        /\ job[j] = "starting" /\ UNCHANGED <<list, queue, op, askTs, answer, user, time, aborted>>
    BY <1>8 DEF Listen
  <2>2. CallsOK'
    BY <1>1, <1>2, <2>1, MoveKeepsCalls, MessagesFacts
  <2>3. ListsOK' /\ TimesOK' /\ FileOK'
    BY <1>1, <2>1, MessagesFacts DEF ListsOK, TimesOK, FileOK, CallsOK, Owed, list, answer, user, time
  <2>4. JobsOK'
    BY <1>1, <2>1, MessagesFacts DEF JobsOK, CallsOK
  <2> QED BY <2>2, <2>3, <2>4 DEF MessagesIInv
<1>9. ASSUME NEW j \in Jobs, JobEnds(j) PROVE MessagesIInv'
  <2>1. job[j] = "running" /\ job' = [job EXCEPT ![j] = "over"] /\ pc[j] = "idle"
    BY <1>1, <1>9 DEF JobEnds, JobsOK
  <2>2. CASE Send(j, "say", "tool", "complete", j, "idle")
    <3>1. /\ ListsOK' /\ CallsOK' /\ FileOK' /\ TimesOK'
          /\ pc' = [pc EXCEPT ![j] = "queued"] /\ aborted' = aborted
      BY <2>1, <2>2, SendKeeps, MessagesFacts DEF Texts, Kinds, Types, Modes, Goals
    <3>2. JobsOK'
      BY <1>1, <2>1, <3>1, MessagesFacts DEF JobsOK, CallsOK
    <3> QED BY <3>1, <3>2 DEF MessagesIInv
  <2>3. CASE UNCHANGED <<list, calls, answer, user, time, aborted>>
    <3>1. ListsOK' /\ TimesOK' /\ FileOK' /\ CallsOK'
      BY <1>1, <2>3 DEF ListsOK, TimesOK, FileOK, CallsOK, QueueOK, WorkOK, Inside, Owed, list, calls, answer, user, time
    <3>2. JobsOK'
      BY <1>1, <2>1, <2>3 DEF JobsOK, calls
    <3> QED BY <3>1, <3>2 DEF MessagesIInv
  <2> QED BY <1>9, <2>2, <2>3 DEF JobEnds
<1> QED BY <1>3, <1>4, <1>5, <1>6, <1>7, <1>8, <1>9

\* What happens under the lock.
LEMMA LockedStepKeeps ==
  ASSUME MessagesIInv, NEW a \in Actors, Apply(a) \/ Reject(a) \/ Saved(a)
  PROVE  MessagesIInv'
<1>1. ListsOK /\ CallsOK /\ FileOK /\ TimesOK /\ JobsOK
  BY DEF MessagesIInv
<1>2. /\ Inside(a) /\ op[a] \in Works
  BY <1>1 DEF Apply, Reject, Saved, Turn, Inside, CallsOK, WorkOK
<1>3. queue # <<>> /\ queue[1] = a /\ Head(queue) = queue[1]
  <2>1. queue \in Seq(Actors) /\ \E i \in 1..Len(queue) : queue[i] = a
    BY <1>1, <1>2 DEF CallsOK, QueueOK
  <2>2. queue # <<>> /\ Head(queue) = queue[1]
    BY <2>1
  <2>3. pc[a] = "saving" => queue[1] = a
    BY <1>1 DEF CallsOK, QueueOK
  <2> QED BY <2>2, <2>3 DEF Apply, Reject, Saved, Turn
<1>4. \A j \in Jobs : j = a => job[j] = "over"
  BY <1>1, <1>2 DEF JobsOK, Inside
<1>5. ASSUME NEW b \in Actors, pc[b] = "saving" PROVE b = a
  BY <1>1, <1>3, <1>5 DEF CallsOK, QueueOK
<1>6. CASE Apply(a)
  <2>1. /\ pc[a] = "queued" /\ Within(a) /\ msgs' = Changed(op[a]) /\ saving' = msgs'
        /\ pc' = [pc EXCEPT ![a] = "saving"]
        /\ UNCHANGED <<disk, unsaved, queue, op, askTs, answer, user, time, job, aborted>>
    BY <1>6 DEF Apply, Turn
  <2>2. Changed(op[a]) \in Seq(Messages)
    BY <1>1, <1>2, <2>1, ChangedIsList
  <2>3. ListsOK' /\ TimesOK'
    BY <1>1, <2>1, <2>2 DEF ListsOK, TimesOK, answer, user, time
  <2>4. CallsOK'
    <3>1. \A b \in Actors : Inside(b)' <=> Inside(b)
      BY <1>1, <2>1 DEF CallsOK, Inside
    <3>2. \A b \in Actors : pc'[b] = "saving" => b = a
      BY <1>1, <1>5, <2>1 DEF CallsOK
    <3>3. QueueOK'
      BY <1>1, <1>3, <2>1, <3>1, <3>2 DEF CallsOK, QueueOK
    <3>4. ASSUME NEW b \in Actors PROVE WorkOK(b)'
      BY <1>1, <1>2, <2>1, <3>1 DEF CallsOK, WorkOK
    <3> QED BY <1>1, <2>1, <3>3, <3>4 DEF CallsOK
  <2>5. FileOK'
    BY <1>1, <2>1 DEF FileOK, CallsOK
  <2>6. JobsOK'
    BY <1>1, <1>4, <2>1 DEF JobsOK, CallsOK
  <2> QED BY <2>3, <2>4, <2>5, <2>6 DEF MessagesIInv
<1>7. CASE Reject(a)
  <2> DEFINE p == IF op[a].next = "listen" THEN "listen" ELSE "idle"
  <2>1. /\ pc[a] = "queued" /\ ~Within(a) /\ queue' = Tail(queue) /\ pc' = [pc EXCEPT ![a] = p]
        /\ op' = [op EXCEPT ![a] = NoCall]
        /\ UNCHANGED <<list, askTs, answer, user, time, job, aborted>>
    BY <1>7 DEF Reject, Turn
  <2>2. p \in {"listen", "idle"}
    OBVIOUS
  <2> HIDE DEF p
  <2>3. CallsOK'
    BY <1>1, <1>2, <1>3, <2>1, <2>2, LeaveKeepsCalls
  <2>4. ~(a = Agent /\ Owed)
    BY <2>1 DEF Owed, Within
  <2>5. FileOK'
    <3>1. \A b \in Actors : pc[b] # "saving" /\ pc'[b] # "saving"
      BY <1>1, <1>5, <2>1, <2>2 DEF CallsOK
    <3>2. Owed => Owed'
      BY <1>1, <2>1, <2>4, MessagesFacts DEF Owed, CallsOK
    <3> QED BY <1>1, <2>1, <3>1, <3>2 DEF FileOK, list
  <2>6. ListsOK' /\ TimesOK' /\ JobsOK'
    BY <1>1, <1>4, <2>1 DEF ListsOK, TimesOK, JobsOK, CallsOK, list, answer, user, time
  <2> QED BY <2>3, <2>5, <2>6 DEF MessagesIInv
<1>8. CASE Saved(a)
  <2> DEFINE p == op[a].next
             o == IF op[a].next = "readd" THEN op[a] ELSE NoCall
  <2>1. /\ pc[a] = "saving" /\ saving' = <<>> /\ queue' = Tail(queue) /\ pc' = [pc EXCEPT ![a] = p]
        /\ op' = [op EXCEPT ![a] = o] /\ msgs' = msgs
        /\ (disk' = saving /\ unsaved' = FALSE) \/ (disk' = disk /\ unsaved' = TRUE)
        /\ UNCHANGED <<askTs, answer, user, time, job, aborted>>
    BY <1>8 DEF Saved
  <2>2. /\ p \in {"idle", "waiting", "reorder", "listen", "readd"}
        /\ p = "readd" => o \in Deletes
        /\ p # "readd" => o = NoCall
    BY <1>2 DEF Works, Adds, Updates, Deletes, Saves, Goals
  <2> HIDE DEF p, o
  <2>3. CallsOK'
    BY <1>1, <1>2, <1>3, <2>1, <2>2, LeaveKeepsCalls
  <2>4. FileOK'
    <3>1. \A b \in Actors : pc'[b] # "saving"
      BY <1>1, <1>5, <2>1, <2>2 DEF CallsOK
    <3>2. Owed => Owed'
      BY <1>1, <2>1, MessagesFacts DEF Owed, CallsOK
    <3>3. saving = msgs \/ Owed
      BY <1>1, <2>1 DEF FileOK
    <3> QED BY <2>1, <3>1, <3>2, <3>3 DEF FileOK
  <2>5. ListsOK'
    <3>1. saving' \in Seq(Messages)
      BY <2>1, EmptySeq
    <3> QED BY <1>1, <2>1, <3>1 DEF ListsOK
  <2>6. TimesOK' /\ JobsOK'
    BY <1>1, <1>4, <2>1 DEF TimesOK, JobsOK, CallsOK, answer, user, time
  <2> QED BY <2>3, <2>4, <2>5, <2>6 DEF MessagesIInv
<1> QED BY <1>6, <1>7, <1>8

\* The user, the polls and the abort.
LEMMA OutsideStepKeeps ==
  ASSUME MessagesIInv,
         \/ Abort \/ Click \/ Deliver \/ UNCHANGED messageVars
         \/ \E a \in Actors : Poll(a) \/ Ignored(a) \/ Answered(a)
  PROVE  MessagesIInv'
<1>1. ListsOK /\ CallsOK /\ FileOK /\ TimesOK /\ JobsOK
  BY DEF MessagesIInv
<1>2. CASE Abort \/ Click \/ Deliver \/ UNCHANGED messageVars
  <2>1. UNCHANGED <<list, calls, job>>
    BY <1>2 DEF Abort, Click, Deliver, messageVars, list, calls
  <2>2. ListsOK' /\ CallsOK' /\ FileOK'
    BY <1>1, <2>1 DEF ListsOK, FileOK, CallsOK, QueueOK, WorkOK, Inside, Owed, list, calls
  <2>3. JobsOK'
    BY <1>1, <1>2, <2>1 DEF JobsOK, Abort, Click, Deliver, messageVars, calls
  <2>4. TimesOK'
    <3>1. CASE Abort \/ UNCHANGED messageVars
      BY <1>1, <3>1 DEF TimesOK, Abort, messageVars, calls, answer, user, time
    <3>2. CASE Click
      <4>1. msgs \in Seq(Messages) /\ msgs # <<>>
        BY <1>1, <3>2 DEF ListsOK, Click
      <4>2. Len(msgs) \in 1..Len(msgs)
        BY <4>1
      <4>3. msgs[Len(msgs)] \in Messages
        BY <4>1, <4>2
      <4>4. click' \in Times
        BY <3>2, <4>3 DEF Click, Last, Messages
      <4>5. clicks' \in 0..MaxClicks
        BY <1>1, <3>2, MessagesAssumption DEF Click, TimesOK
      <4> QED BY <1>1, <3>2, <4>4, <4>5 DEF TimesOK, Click, calls, answer, time
    <3>3. CASE Deliver
      <4>1. slot' \in [at : Times, for : Times] /\ click' \in Times
        BY <1>1, <3>3, MessagesFacts DEF Deliver, TimesOK, Times
      <4> QED BY <1>1, <3>3, <4>1 DEF TimesOK, Deliver, calls, time
    <3> QED BY <1>2, <3>1, <3>2, <3>3
  <2> QED BY <2>2, <2>3, <2>4 DEF MessagesIInv
<1>3. ASSUME NEW a \in Actors, Poll(a) \/ Ignored(a) \/ Answered(a) PROVE MessagesIInv'
  <2>1. PICK p \in {"noticed", "idle"} :
          /\ pc[a] \in {"waiting", "noticed"} /\ pc' = [pc EXCEPT ![a] = p]
          /\ UNCHANGED <<list, queue, op, askTs, last, user, time, job, aborted>>
          /\ slot' \in {slot, Empty}
    BY <1>3 DEF Poll, Ignored, Answered, answer
  <2>2. CallsOK'
    BY <1>1, <2>1, MoveKeepsCalls DEF Inside
  <2>3. ListsOK' /\ TimesOK'
    BY <1>1, <2>1 DEF ListsOK, TimesOK, list, user, time
  <2>4. FileOK'
    <3>1. /\ \A b \in Actors : pc'[b] = "saving" <=> pc[b] = "saving"
          /\ Owed => Owed'
      BY <1>1, <2>1, MessagesFacts DEF CallsOK, Owed
    <3> QED BY <1>1, <2>1, <3>1 DEF FileOK, list
  <2>5. JobsOK'
    BY <1>1, <2>1 DEF JobsOK, CallsOK
  <2> QED BY <2>2, <2>3, <2>4, <2>5 DEF MessagesIInv
<1> QED BY <1>2, <1>3

LEMMA InitMessagesIInv == MessagesInit => MessagesIInv
<1> SUFFICES ASSUME MessagesInit PROVE MessagesIInv
  OBVIOUS
<1>1. ListsOK
  BY EmptySeq DEF MessagesInit, ListsOK
<1>2. CallsOK
  <2>1. QueueOK
    BY DEF MessagesInit, QueueOK, Inside, IsInjective
  <2> QED BY <2>1 DEF MessagesInit, CallsOK, WorkOK, Inside
<1>3. FileOK /\ JobsOK
  BY DEF MessagesInit, FileOK, JobsOK, Actors
<1>4. TimesOK
  BY MessagesAssumption DEF MessagesInit, TimesOK, Times
<1> QED BY <1>1, <1>2, <1>3, <1>4 DEF MessagesIInv

LEMMA NextMessagesIInv == MessagesIInv /\ [MessagesNext]_messageVars => MessagesIInv'
BY CallStepKeeps, LockedStepKeeps, OutsideStepKeeps DEF MessagesNext, Progress

LEMMA MessagesIInvHolds == MessagesSpec => []MessagesIInv
BY InitMessagesIInv, NextMessagesIInv, PTL DEF MessagesSpec

\* The lists hold messages, the queue of the lock no caller twice, and a call is where the
\* code can have it.
THEOREM MessagesTypeCorrect == MessagesSpec => []MessagesTypeOK
<1>1. MessagesIInv => MessagesTypeOK
  <2> SUFFICES ASSUME MessagesIInv PROVE MessagesTypeOK
    OBVIOUS
  <2>1. \A a \in Actors : op[a].do \in {"none", "add", "update", "delete", "save"}
    BY DEF MessagesIInv, CallsOK, WorkOK, Works, Adds, Updates, Deletes, Saves, NoCall
  <2> QED BY <2>1 DEF MessagesIInv, ListsOK, CallsOK, QueueOK, TimesOK, JobsOK, MessagesTypeOK
<1> QED BY <1>1, MessagesIInvHolds, PTL

\* withStateLock: one caller at a time changes and saves the list.
THEOREM SavesAreExclusive ==
  MessagesSpec => [](\A a, b \in Actors : pc[a] = "saving" /\ pc[b] = "saving" => a = b)
<1>1. MessagesIInv => \A a, b \in Actors : pc[a] = "saving" /\ pc[b] = "saving" => a = b
  BY DEF MessagesIInv, CallsOK, QueueOK
<1> QED BY <1>1, MessagesIInvHolds, PTL

\* message-state.ts: whenever nobody is in the lock or waits for it, and the last save has
\* not failed, the file holds the list.
THEOREM FileHoldsTheList == MessagesSpec => []DiskFollows
<1>1. MessagesIInv => DiskFollows
  <2> SUFFICES ASSUME MessagesIInv, queue = <<>>, ~unsaved PROVE disk = msgs
    BY DEF DiskFollows
  <2>1. \A a \in Actors : ~Inside(a)
    BY DEF MessagesIInv, CallsOK, QueueOK
  <2> QED BY <2>1, MessagesFacts DEF MessagesIInv, FileOK, Inside, Owed
<1> QED BY <1>1, MessagesIInvHolds, PTL
-----------------------------------------------------------------------------
\* An answer is taken for that of an ask by lastMessageTs alone, so the argument is about
\* the times by which messages are known: those of the list, and of a message that a call
\* will add or has taken out.
Id(m) == <<m.ts, m.kind, m.type>>

Holds(a) == (Inside(a) \/ pc[a] = "readd") /\ op[a].do \in {"add", "delete"}

Listed == {Id(msgs[i]) : i \in DOMAIN msgs}
Held == {Id(op[a].message) : a \in {b \in Actors : Holds(b)}}
Known == Listed \union Held

\* From the call of an ask to its answer.
InAsk(a) == pc[a] \in {"waiting", "noticed"} \/ (Inside(a) /\ op[a].next = "waiting")

\* A time tells what kind of message has it.
IdsOK == /\ \A x \in Known : x[1] \in Nat /\ x[1] <= clock
         /\ \A x, y \in Known : x[1] = y[1] => x = y

\* Two asks at most, whose times differ, and a message with the time of an ask is that ask.
AsksOK == /\ last <= clock
          /\ \A a \in Actors : askTs[a] <= clock
          /\ \A a \in Actors : InAsk(a) => a \in {Agent, Cleanup}
          /\ \A a, b \in Actors : InAsk(a) /\ InAsk(b) /\ a # b => askTs[a] # askTs[b]
          /\ \A a \in Actors, x \in Known : InAsk(a) /\ x[1] = askTs[a] =>
                x[2] = "ask" /\ (x[3] = "resume" <=> a = Cleanup)

\* An ask that is still the last message has the answer to it, or none.
SlotOK == \A a \in Actors : InAsk(a) /\ last = askTs[a] =>
            /\ slot # Empty => slot.at = last
            /\ pc[a] = "noticed" => slot # Empty

FreshIInv == MessagesIInv /\ IdsOK /\ AsksOK /\ SlotOK

LEMMA HeldGrows ==
  ASSUME NEW a \in Actors, NEW S,
         \A b \in Actors \ {a} : (Holds(b)' => Holds(b)) /\ op'[b] = op[b],
         Holds(a)' => Id(op'[a].message) \in Held \union S
  PROVE  Held' \subseteq Held \union S
BY DEF Held

\* A call that ends changes what is held by its caller only.
LEMMA OthersHold ==
  ASSUME CallsOK, NEW a \in Actors, NEW p, NEW o, pc' = [pc EXCEPT ![a] = p],
         op' = [op EXCEPT ![a] = o] \/ op' = op
  PROVE  \A b \in Actors \ {a} : /\ Holds(b)' => Holds(b)
                                 /\ op'[b] = op[b] /\ pc'[b] = pc[b]
                                 /\ InAsk(b)' => InAsk(b)
BY DEF CallsOK, Holds, Inside, InAsk

\* A step that begins no ask and makes no message the last.
LEMMA QuietKeepsFresh ==
  ASSUME FreshIInv, Known' \subseteq Known, UNCHANGED <<clock, last, askTs, slot>>,
         \A b \in Actors : InAsk(b)' => InAsk(b),
         \A b \in Actors : pc'[b] = "noticed" => pc[b] = "noticed" \/ slot # Empty \/ last # askTs[b]
  PROVE  (IdsOK /\ AsksOK /\ SlotOK)'
<1>1. IdsOK'
  BY DEF FreshIInv, IdsOK
<1>2. AsksOK'
  BY DEF FreshIInv, AsksOK
<1>3. SlotOK'
  BY DEF FreshIInv, SlotOK
<1> QED BY <1>1, <1>2, <1>3

LEMMA SendKeepsFresh ==
  ASSUME ~SameMillisecond, FreshIInv, NEW a \in Actors, pc[a] = "idle",
         NEW kind \in Kinds, NEW type \in Types, NEW mode \in Modes, NEW text \in Texts,
         NEW next \in Goals, Send(a, kind, type, mode, text, next),
         next = "waiting" <=> kind = "ask" /\ mode # "partial",
         next = "waiting" => a \in {Agent, Cleanup} /\ (type = "resume" <=> a = Cleanup),
         mode # "whole" => type = "tool"
  PROVE  (IdsOK /\ AsksOK /\ SlotOK)'
<1>1. MessagesIInv /\ TimesOK /\ ListsOK /\ CallsOK /\ IdsOK /\ AsksOK /\ SlotOK
  BY DEF FreshIInv, MessagesIInv
<1>2. last \in Nat /\ clock \in Nat /\ \A b \in Actors : askTs[b] \in Nat
  BY <1>1, MessagesFacts DEF TimesOK, Times
<1>3. PICK o : /\ pc' = [pc EXCEPT ![a] = "queued"] /\ op' = [op EXCEPT ![a] = o] /\ o.next = next
               /\ \/ o.do = "update"
                  \/ o.do = "add" /\ Id(o.message) = <<clock', kind, type>> /\ last' = clock'
                     /\ (clock' = clock + 1) /\ Asks(a, kind, mode, clock')
  <2>1. CASE SendNew(a, kind, type, mode, text, next)
    <3> DEFINE o == [do |-> "add", next |-> next,
                     message |-> [ts |-> clock', kind |-> kind, type |-> type,
                                  partial |-> mode = "partial", text |-> text]]
    <3>1. Lock(a, o) /\ last' = clock' /\ clock' = clock + 1 /\ Asks(a, kind, mode, clock')
      BY <2>1 DEF SendNew
    <3>2. o.next = next /\ o.do = "add" /\ Id(o.message) = <<clock', kind, type>>
      BY DEF Id
    <3> QED BY <3>1, <3>2 DEF Lock
  <2>2. CASE SendUpdate(a, kind, type, mode, text, next)
    <3> DEFINE o == [do |-> "update", next |-> next, index |-> LastPartial(kind, type),
                     partial |-> mode = "partial", text |-> text]
    <3>1. Lock(a, o)
      BY <2>2 DEF SendUpdate
    <3>2. o.next = next /\ o.do = "update"
      OBVIOUS
    <3> QED BY <3>1, <3>2 DEF Lock
  <2> QED BY <2>1, <2>2 DEF Send
<1>4. /\ \A b \in Actors \ {a} : /\ Holds(b)' => Holds(b)
                                 /\ op'[b] = op[b] /\ pc'[b] = pc[b]
                                 /\ InAsk(b)' => InAsk(b)
      /\ pc'[a] = "queued" /\ op'[a] = o /\ (InAsk(a)' <=> next = "waiting")
      /\ Listed' = Listed
  <2>1. msgs' = msgs
    BY DEF Send, SendNew, SendUpdate, list
  <2>2. op = [b \in Actors |-> op[b]] /\ DOMAIN pc = Actors
    BY <1>1 DEF CallsOK
  <2>3. pc'[a] = "queued" /\ op'[a] = o
    BY <1>3, <2>2
  <2>4. Listed' = Listed
    BY <2>1 DEF Listed
  <2>5. InAsk(a)' <=> next = "waiting"
    BY <1>3, <2>3 DEF Inside, InAsk
  <2>6. \A b \in Actors \ {a} : /\ Holds(b)' => Holds(b)
                                /\ op'[b] = op[b] /\ pc'[b] = pc[b]
                                /\ InAsk(b)' => InAsk(b)
    BY <1>1, <1>3, OthersHold
  <2> QED BY <2>3, <2>4, <2>5, <2>6
<1>5. CASE o.do = "add" /\ Id(o.message) = <<clock', kind, type>> /\ last' = clock'
           /\ (clock' = clock + 1) /\ Asks(a, kind, mode, clock')
  <2> DEFINE new == <<clock', kind, type>>
  <2>1. Known' \subseteq Known \union {new}
    <3>1. Held' \subseteq Held \union {new}
      BY <1>4, <1>5, HeldGrows
    <3> QED BY <1>4, <3>1 DEF Known
  <2>2. new[1] = clock + 1 /\ new[2] = kind /\ new[3] = type
    BY <1>5
  <2> HIDE DEF new
  <2>3. \A x \in Known' : x = new \/ (x \in Known /\ x[1] \in Nat /\ x[1] <= clock)
    BY <1>1, <2>1 DEF IdsOK
  <2>4. IdsOK'
    <3>1. \A x \in Known' : x[1] \in Nat /\ x[1] <= clock'
      BY <1>2, <1>5, <2>2, <2>3
    <3>2. \A x, y \in Known' : x[1] = y[1] => x = y
      <4>1. \A x \in Known' : x[1] = new[1] => x = new
        BY <1>2, <2>2, <2>3
      <4>2. \A x, y \in Known : x[1] = y[1] => x = y
        BY <1>1 DEF IdsOK
      <4> QED BY <2>3, <4>1, <4>2
    <3> QED BY <3>1, <3>2 DEF IdsOK
  <2>5. \A b \in Actors : /\ b # a => askTs'[b] = askTs[b]
                          /\ next = "waiting" => askTs'[a] = clock + 1
                          /\ next # "waiting" => askTs'[a] = askTs[a]
    BY <1>1, <1>5 DEF Asks, TimesOK
  <2>6. \A b \in Actors : InAsk(b)' => b = a \/ (InAsk(b) /\ askTs'[b] <= clock)
    BY <1>1, <1>4, <2>5 DEF AsksOK
  <2>7. AsksOK'
    <3>1. last' <= clock' /\ \A b \in Actors : askTs'[b] <= clock'
      BY <1>1, <1>2, <1>5, <2>5 DEF AsksOK
    <3>2. \A b \in Actors : InAsk(b)' => b \in {Agent, Cleanup}
      BY <1>1, <1>4 DEF AsksOK
    <3>3. ASSUME NEW b \in Actors, NEW c \in Actors, InAsk(b)', InAsk(c)', b # c
          PROVE  askTs'[b] # askTs'[c]
      <4>1. CASE b = a
        BY <1>2, <1>4, <2>5, <2>6, <3>3, <4>1
      <4>2. CASE c = a
        BY <1>2, <1>4, <2>5, <2>6, <3>3, <4>2
      <4>3. CASE b # a /\ c # a
        BY <1>1, <1>4, <2>5, <3>3, <4>3 DEF AsksOK
      <4> QED BY <4>1, <4>2, <4>3
    <3>4. ASSUME NEW b \in Actors, NEW x \in Known', InAsk(b)', x[1] = askTs'[b]
          PROVE  x[2] = "ask" /\ (x[3] = "resume" <=> b = Cleanup)
      <4>1. CASE b = a
        <5>1. x[1] = clock + 1 /\ next = "waiting"
          BY <1>4, <2>5, <3>4, <4>1
        <5>2. x = new
          BY <1>2, <2>3, <5>1
        <5> QED BY <2>2, <4>1, <5>1, <5>2
      <4>2. CASE b # a
        <5>1. x[1] <= clock /\ InAsk(b) /\ x[1] = askTs[b]
          BY <1>4, <2>5, <2>6, <3>4, <4>2
        <5>2. x \in Known
          BY <1>2, <2>2, <2>3, <5>1
        <5> QED BY <1>1, <5>1, <5>2 DEF AsksOK
      <4> QED BY <4>1, <4>2
    <3> QED BY <3>1, <3>2, <3>3, <3>4 DEF AsksOK
  <2>8. SlotOK'
    <3>1. ASSUME NEW b \in Actors, InAsk(b)', last' = askTs'[b]
          PROVE  b = a /\ slot' = Empty /\ pc'[b] # "noticed"
      <4>1. b = a
        BY <1>2, <1>5, <2>5, <2>6, <3>1
      <4> QED BY <1>4, <1>5, <3>1, <4>1 DEF Asks
    <3> QED BY <3>1 DEF SlotOK
  <2> QED BY <2>4, <2>7, <2>8
<1>6. CASE o.do = "update"
  <2>1. SendUpdate(a, kind, type, mode, text, next)
    <3>1. SendNew(a, kind, type, mode, text, next) => op'[a].do = "add"
      BY <1>1 DEF SendNew, Lock, CallsOK
    <3> QED BY <1>4, <1>6, <3>1 DEF Send
  <2> DEFINE index == LastPartial(kind, type)
             m == msgs[index]
  <2>2. /\ mode # "whole" /\ index # 0 /\ last' = (IF mode = "complete" THEN m.ts ELSE last)
        /\ Asks(a, kind, mode, m.ts) /\ clock' = clock
    BY <2>1 DEF SendUpdate, time
  <2>3. index \in DOMAIN msgs /\ m.kind = kind /\ m.type = type
    BY <1>1, <2>2, LastOfIsIn DEF LastPartial, ListsOK
  <2> HIDE DEF index
  <2> DEFINE x == Id(m)
  <2>4. x \in Known /\ x[1] = m.ts /\ x[2] = kind /\ x[3] = type
    BY <2>3 DEF Known, Listed, Id
  <2> HIDE DEF x, m
  <2>5. m.ts \in Nat /\ m.ts <= clock /\ \A y \in Known : y[1] = m.ts => y = x
    BY <1>1, <2>4 DEF IdsOK
  <2>6. Known' \subseteq Known
    <3>1. ~Holds(a)'
      BY <1>4, <1>6 DEF Holds
    <3>2. Held' \subseteq Held \union {}
      BY <1>4, <3>1, HeldGrows
    <3> QED BY <1>4, <3>2 DEF Known
  <2>7. type = "tool"
    BY <2>2
  <2>8. IdsOK'
    BY <1>1, <2>2, <2>6 DEF IdsOK
  <2>9. CASE next = "waiting"
    <3>1. /\ kind = "ask" /\ last' = m.ts /\ slot' = Empty /\ askTs' = [askTs EXCEPT ![a] = m.ts]
          /\ a # Cleanup /\ a = Agent
      BY <2>2, <2>7, <2>9 DEF Asks, Modes
    <3>2. askTs'[a] = m.ts /\ \A b \in Actors \ {a} : askTs'[b] = askTs[b]
      BY <1>1, <3>1 DEF TimesOK
    <3>3. \A b \in Actors \ {a} : InAsk(b)' => askTs[b] # m.ts
      <4>1. \A b \in Actors \ {a} : InAsk(b) => b = Cleanup
        BY <1>1, <3>1 DEF AsksOK
      <4>2. \A b \in Actors : InAsk(b) /\ askTs[b] = m.ts => (x[3] = "resume" <=> b = Cleanup)
        BY <1>1, <2>4 DEF AsksOK
      <4> QED BY <1>4, <2>4, <2>7, <4>1, <4>2
    <3>4. AsksOK'
      <4>1. last' <= clock' /\ \A b \in Actors : askTs'[b] <= clock'
        BY <1>1, <2>2, <2>5, <3>1, <3>2 DEF AsksOK
      <4>2. \A b \in Actors : InAsk(b)' => b \in {Agent, Cleanup}
        BY <1>1, <1>4, <3>1 DEF AsksOK
      <4>3. \A b, c \in Actors : InAsk(b)' /\ InAsk(c)' /\ b # c => askTs'[b] # askTs'[c]
        BY <1>1, <1>4, <3>2, <3>3 DEF AsksOK
      <4>4. ASSUME NEW b \in Actors, NEW y \in Known', InAsk(b)', y[1] = askTs'[b]
            PROVE  y[2] = "ask" /\ (y[3] = "resume" <=> b = Cleanup)
        <5>1. CASE b = a
          BY <2>4, <2>5, <2>6, <2>7, <3>1, <3>2, <4>4, <5>1
        <5>2. CASE b # a
          BY <1>1, <1>4, <2>6, <3>2, <4>4, <5>2 DEF AsksOK
        <5> QED BY <5>1, <5>2
      <4> QED BY <4>1, <4>2, <4>3, <4>4 DEF AsksOK
    <3>5. SlotOK'
      BY <1>4, <3>1, <3>2, <3>3 DEF SlotOK
    <3> QED BY <2>8, <3>4, <3>5
  <2>10. CASE next # "waiting"
    <3>1. /\ slot' = slot /\ askTs' = askTs /\ ~InAsk(a)'
          /\ last' = last \/ (last' = m.ts /\ kind = "say")
      BY <1>4, <2>2, <2>10 DEF Asks, Kinds, Modes
    <3>2. \A b \in Actors : InAsk(b)' => InAsk(b) /\ b # a
      BY <1>4, <3>1
    <3>3. AsksOK'
      BY <1>1, <2>2, <2>5, <2>6, <3>1, <3>2 DEF AsksOK
    <3>4. ASSUME NEW b \in Actors, InAsk(b)', last' = askTs'[b] PROVE last' = last
      <4>1. kind = "say" => askTs[b] # m.ts
        BY <1>1, <2>4, <3>2, <3>4 DEF AsksOK
      <4> QED BY <3>1, <3>4, <4>1
    <3>5. SlotOK'
      BY <1>1, <1>4, <3>1, <3>2, <3>4 DEF SlotOK
    <3> QED BY <2>8, <3>3, <3>5
  <2> QED BY <2>9, <2>10
<1> QED BY <1>3, <1>5, <1>6
\* An operation lists nothing that was not known.
LEMMA ChangedIsKnown ==
  ASSUME ListsOK, NEW a \in Actors, Inside(a), op[a] \in Works, Within(a), msgs' = Changed(op[a])
  PROVE  Listed' \subseteq Known
<1> DEFINE o == op[a]
<1>1. msgs \in Seq(Messages) /\ Len(msgs) \in Nat /\ DOMAIN msgs = 1..Len(msgs)
  BY DEF ListsOK
<1>2. CASE o \in Adds
  <2>1. Id(o.message) \in Known
    BY <1>2 DEF Adds, Holds, Known, Held
  <2>2. msgs' = Append(msgs, o.message) /\ o.message \in Messages
    BY <1>2 DEF Adds, Changed
  <2> HIDE DEF o
  <2>3. \A i \in DOMAIN msgs' : (i \in DOMAIN msgs /\ msgs'[i] = msgs[i]) \/ msgs'[i] = o.message
    BY <1>1, <2>2
  <2> QED BY <2>1, <2>3 DEF Listed, Known
<1>3. CASE o \in Updates
  <2>1. o.index \in DOMAIN msgs /\ o.do = "update" /\ \A i \in DOMAIN msgs : msgs[i] \in Messages
    BY <1>1, <1>3 DEF Updates, Within
  <2>2. msgs' = [msgs EXCEPT ![o.index].text = o.text, ![o.index].partial = o.partial]
    BY <2>1 DEF Changed
  <2> HIDE DEF o
  <2>3. ASSUME NEW i \in DOMAIN msgs' PROVE i \in DOMAIN msgs /\ Id(msgs'[i]) = Id(msgs[i])
    <3>1. i \in DOMAIN msgs
      BY <1>1, <2>2
    <3>2. CASE i = o.index
      BY <1>1, <2>1, <2>2, <3>1, <3>2 DEF Id, Messages
    <3>3. CASE i # o.index
      BY <1>1, <2>2, <3>1, <3>3
    <3> QED BY <3>1, <3>2, <3>3
  <2> QED BY <2>3 DEF Listed, Known
<1>4. CASE o \in Deletes
  <2>1. o.index \in DOMAIN msgs /\ o.do = "delete"
    BY <1>4 DEF Deletes, Within
  <2> DEFINE i == o.index
  <2>2. msgs' = RemoveAt(msgs, i) /\ i \in DOMAIN msgs
    BY <2>1 DEF Changed
  <2> HIDE DEF i
  <2>3. \A j \in DOMAIN msgs' : \E k \in DOMAIN msgs : msgs'[j] = msgs[k]
    <3>1. \A j \in DOMAIN RemoveAt(msgs, i) : \E k \in DOMAIN msgs : RemoveAt(msgs, i)[j] = msgs[k]
      BY <1>1, <2>2, RemoveKeepsSeq, ZenonT(60)
    <3> QED BY <2>2, <3>1, Zenon
  <2> QED BY <2>3 DEF Listed, Known
<1>5. CASE o \in Saves
  <2>1. msgs' = msgs
    BY <1>5 DEF Saves, Changed
  <2> QED BY <2>1 DEF Listed, Known
<1> QED BY <1>2, <1>3, <1>4, <1>5 DEF Works

\* The calls that send no message keep what is known.
LEMMA CallKeepsFresh ==
  ASSUME FreshIInv, RemoveLast \/ Reorder \/ ReAdd \/ \E j \in Jobs : Listen(j)
  PROVE  (IdsOK /\ AsksOK /\ SlotOK)'
<1>1. MessagesIInv /\ TimesOK /\ ListsOK /\ CallsOK
  BY DEF FreshIInv, MessagesIInv
<1>2. UNCHANGED <<clock, last, askTs, slot>>
  BY DEF RemoveLast, Reorder, ReAdd, Listen, answer, time
<1>3. SUFFICES ASSUME NEW p \in {"queued", "idle"}, NEW o, pc' = [pc EXCEPT ![Agent] = p],
                      op' = [op EXCEPT ![Agent] = o] \/ op' = op,
                      p = "queued" => op'[Agent].next \in {"idle", "readd"},
                      Listed' \subseteq Listed,
                      Holds(Agent)' => Id(op'[Agent].message) \in Known
               PROVE  (IdsOK /\ AsksOK /\ SlotOK)'
  <2>1. CASE RemoveLast
    <3> DEFINE o == [do |-> "save", next |-> "idle"]
    <3>1. Lock(Agent, o)
      BY <2>1 DEF RemoveLast
    <3>2. PICK kind \in Kinds, onlyPartial \in BOOLEAN :
               LET index == LastOf({i \in DOMAIN msgs : /\ onlyPartial => msgs[i].partial
                                                       /\ msgs[i].kind = kind
                                                       /\ msgs[i].type = "tool"})
               IN  index # 0 /\ msgs' = RemoveAt(msgs, index)
      BY <2>1 DEF RemoveLast
    <3>3. PICK index \in DOMAIN msgs : msgs' = RemoveAt(msgs, index)
      BY <1>1, <3>2, LastOfIsIn DEF ListsOK
    <3>4. Listed' \subseteq Listed
      <4>1. \A j \in DOMAIN msgs' : \E k \in DOMAIN msgs : msgs'[j] = msgs[k]
        BY <1>1, <3>3, RemoveKeepsSeq DEF ListsOK
      <4> QED BY <4>1 DEF Listed
    <3>5. op'[Agent] = o /\ ~Holds(Agent)'
      BY <1>1, <3>1, MessagesFacts DEF Lock, Holds, CallsOK
    <3>6. /\ pc' = [pc EXCEPT ![Agent] = "queued"] /\ op' = [op EXCEPT ![Agent] = o]
          /\ op'[Agent].next \in {"idle", "readd"}
      BY <3>1, <3>5 DEF Lock
    <3> HIDE DEF o
    <3> QED BY <1>3, <3>4, <3>5, <3>6
  <2>2. CASE ReAdd
    <3> DEFINE o == [do |-> "add", next |-> "idle", message |-> op[Agent].message]
    <3>1. Lock(Agent, o) /\ Listed' = Listed /\ pc[Agent] = "readd"
      BY <2>2 DEF ReAdd, Listed, list
    <3>2. op'[Agent] = o /\ Holds(Agent)
      BY <1>1, <3>1, MessagesFacts DEF Lock, Holds, CallsOK, WorkOK, Deletes
    <3>3. Id(o.message) \in Known
      BY <3>2, MessagesFacts DEF Known, Held
    <3>4. /\ pc' = [pc EXCEPT ![Agent] = "queued"] /\ op' = [op EXCEPT ![Agent] = o]
          /\ op'[Agent].next \in {"idle", "readd"}
      BY <3>1, <3>2 DEF Lock
    <3> HIDE DEF o
    <3> QED BY <1>3, <3>1, <3>2, <3>3, <3>4
  <2>3. CASE Reorder
    <3>1. Listed' = Listed /\ pc[Agent] = "reorder"
      BY <2>3 DEF Reorder, Listed, list
    <3>2. CASE ToolBeforeHook = 0
      <4>1. pc' = [pc EXCEPT ![Agent] = "idle"] /\ op' = op
        BY <2>3, <3>2 DEF Reorder
      <4>2. ~Holds(Agent)'
        BY <1>1, <4>1, MessagesFacts DEF Holds, Inside, CallsOK
      <4> QED BY <1>3, <3>1, <4>1, <4>2
    <3>3. CASE ToolBeforeHook # 0
      <4> DEFINE i == ToolBeforeHook
                 o == [do |-> "delete", next |-> "readd", index |-> i, message |-> msgs[i]]
      <4>1. Lock(Agent, o)
        BY <2>3, <3>3 DEF Reorder
      <4>2. i \in DOMAIN msgs
        <5>1. i = LastOf({k \in DOMAIN msgs : msgs[k].type = "tool"})
          BY <3>3 DEF ToolBeforeHook
        <5> QED BY <1>1, <3>3, <5>1, LastOfIsIn DEF ListsOK
      <4> HIDE DEF i
      <4>3. Id(o.message) \in Known
        BY <4>2 DEF Known, Listed
      <4>4. op'[Agent] = o
        BY <1>1, <4>1, MessagesFacts DEF Lock, CallsOK
      <4>5. /\ pc' = [pc EXCEPT ![Agent] = "queued"] /\ op' = [op EXCEPT ![Agent] = o]
            /\ op'[Agent].next \in {"idle", "readd"}
        BY <4>1, <4>4 DEF Lock
      <4> HIDE DEF o
      <4> QED BY <1>3, <3>1, <4>3, <4>4, <4>5
    <3> QED BY <3>2, <3>3
  <2>4. ASSUME NEW j \in Jobs, Listen(j) PROVE (IdsOK /\ AsksOK /\ SlotOK)'
    <3>1. pc' = [pc EXCEPT ![Agent] = "idle"] /\ op' = op /\ Listed' = Listed
      BY <2>4 DEF Listen, Listed, list
    <3>2. ~Holds(Agent)'
      BY <1>1, <3>1, MessagesFacts DEF Holds, Inside, CallsOK
    <3> QED BY <1>3, <3>1, <3>2
  <2> QED BY <2>1, <2>2, <2>3, <2>4
<1>4. \A b \in Actors \ {Agent} : /\ Holds(b)' => Holds(b)
                                  /\ op'[b] = op[b] /\ pc'[b] = pc[b]
                                  /\ InAsk(b)' => InAsk(b)
  BY <1>1, <1>3, OthersHold, MessagesFacts
<1>5. pc'[Agent] = p /\ ~InAsk(Agent)'
  BY <1>1, <1>3, MessagesFacts DEF CallsOK, InAsk, Inside
<1>6. Known' \subseteq Known
  <2>1. Held' \subseteq Held \union Known
    BY <1>3, <1>4, HeldGrows, MessagesFacts DEF Known
  <2> QED BY <1>3, <2>1 DEF Known
<1>7. \A b \in Actors : /\ InAsk(b)' => InAsk(b)
                        /\ pc'[b] = "noticed" => pc[b] = "noticed"
  BY <1>4, <1>5
<1> QED BY <1>2, <1>6, <1>7, QuietKeepsFresh

\* What happens under the lock moves known messages.
LEMMA LockedKeepsFresh ==
  ASSUME FreshIInv, NEW a \in Actors, Apply(a) \/ Reject(a) \/ Saved(a)
  PROVE  (IdsOK /\ AsksOK /\ SlotOK)'
<1>1. MessagesIInv /\ TimesOK /\ ListsOK /\ CallsOK
  BY DEF FreshIInv, MessagesIInv
<1>2. UNCHANGED <<clock, last, askTs, slot>>
  BY DEF Apply, Reject, Saved, answer, time
<1>3. Inside(a) /\ op[a] \in Works
  BY <1>1 DEF Apply, Reject, Saved, Turn, Inside, CallsOK, WorkOK
<1>4. CASE Apply(a)
  <2>1. /\ pc' = [pc EXCEPT ![a] = "saving"] /\ op' = op /\ msgs' = Changed(op[a]) /\ Within(a)
    BY <1>4 DEF Apply
  <2>2. \A b \in Actors : /\ Holds(b)' => Holds(b)
                          /\ InAsk(b)' => InAsk(b)
                          /\ pc'[b] = "noticed" => pc[b] = "noticed"
    BY <1>1, <1>3, <2>1 DEF CallsOK, Holds, InAsk, Inside
  <2>3. Held' \subseteq Held
    BY <2>1, <2>2 DEF Held
  <2>4. Listed' \subseteq Known
    BY <1>1, <1>3, <2>1, ChangedIsKnown
  <2>5. Known' \subseteq Known
    BY <2>3, <2>4 DEF Known
  <2> QED BY <1>2, <2>2, <2>5, QuietKeepsFresh
<1>5. CASE Reject(a) \/ Saved(a)
  <2>1. PICK p \in {"idle", "listen", "waiting", "reorder", "readd"}, o \in {op[a], NoCall} :
                    /\ pc' = [pc EXCEPT ![a] = p] /\ op' = [op EXCEPT ![a] = o]
                    /\ p = "waiting" => op[a].next = "waiting"
                    /\ p = "readd" => o = op[a]
    <3>1. CASE Reject(a)
      BY <3>1 DEF Reject
    <3>2. CASE Saved(a)
      <4>1. op[a].next \in {"idle", "listen", "waiting", "reorder", "readd"}
        BY <1>3 DEF Works, Adds, Updates, Deletes, Saves, Goals
      <4> QED BY <3>2, <4>1 DEF Saved
    <3> QED BY <1>5, <3>1, <3>2
  <2>2. \A b \in Actors \ {a} : /\ Holds(b)' => Holds(b)
                                /\ op'[b] = op[b] /\ pc'[b] = pc[b]
                                /\ InAsk(b)' => InAsk(b)
    BY <1>1, <2>1, OthersHold
  <2>3. pc'[a] = p /\ op'[a] = o
    BY <1>1, <2>1 DEF CallsOK
  <2>4. InAsk(a)' => InAsk(a)
    BY <1>3, <2>1, <2>3 DEF InAsk, Inside
  <2>5. Held' \subseteq Held
    <3>1. Holds(a)' => Holds(a) /\ op'[a] = op[a]
      BY <1>3, <2>1, <2>3 DEF Holds, Inside
    <3> QED BY <2>2, <3>1 DEF Held
  <2>6. Known' \subseteq Known
    <3>1. msgs' = msgs
      BY <1>5 DEF Reject, Saved, list
    <3> QED BY <2>5, <3>1 DEF Known, Listed
  <2>7. \A b \in Actors : /\ InAsk(b)' => InAsk(b)
                          /\ pc'[b] = "noticed" => pc[b] = "noticed"
    BY <2>1, <2>2, <2>3, <2>4
  <2> QED BY <1>2, <2>6, <2>7, QuietKeepsFresh
<1> QED BY <1>4, <1>5

LEMMA OutsideKeepsFresh ==
  ASSUME FreshIInv,
         \/ Abort \/ Click \/ Deliver \/ UNCHANGED messageVars
         \/ \E a \in Actors : Poll(a) \/ Ignored(a) \/ Answered(a)
         \/ \E j \in Jobs : JobEnds(j) /\ UNCHANGED <<list, calls, answer, user, time, aborted>>
  PROVE  (IdsOK /\ AsksOK /\ SlotOK)'
<1>1. MessagesIInv /\ TimesOK /\ ListsOK /\ CallsOK /\ IdsOK /\ AsksOK /\ SlotOK
  BY DEF FreshIInv, MessagesIInv
<1>2. CASE Abort \/ Click \/ UNCHANGED messageVars
           \/ \E j \in Jobs : JobEnds(j) /\ UNCHANGED <<list, calls, answer, user, time, aborted>>
  <2>1. UNCHANGED <<msgs, op, pc, clock, last, askTs, slot>>
    BY <1>2 DEF Abort, Click, messageVars, list, calls, answer, time
  <2>2. Known' \subseteq Known /\ \A b \in Actors : InAsk(b)' => InAsk(b)
    BY <2>1 DEF Known, Listed, Held, Holds, Inside, InAsk
  <2> QED BY <2>1, <2>2, QuietKeepsFresh
<1>3. CASE Deliver
  <2>1. UNCHANGED <<msgs, op, pc, clock, last, askTs>> /\ slot' = [at |-> last, for |-> click]
    BY <1>3 DEF Deliver, list, calls, time
  <2>2. Known' = Known /\ \A b \in Actors : InAsk(b)' <=> InAsk(b)
    BY <2>1 DEF Known, Listed, Held, Holds, Inside, InAsk
  <2>3. slot'.at = last /\ slot' # Empty
    <3>1. slot'.at = last
      BY <2>1
    <3>2. slot' \in [at : 0..MaxMessages, for : 0..MaxMessages]
      BY <1>1, <2>1 DEF TimesOK, Times
    <3> QED BY <3>1, <3>2, MessagesAssumption
  <2>4. IdsOK' /\ AsksOK'
    BY <1>1, <2>1, <2>2 DEF IdsOK, AsksOK
  <2>5. SlotOK'
    BY <2>1, <2>3 DEF SlotOK
  <2> QED BY <2>4, <2>5
<1>4. ASSUME NEW a \in Actors, Poll(a) \/ Ignored(a) \/ Answered(a) PROVE (IdsOK /\ AsksOK /\ SlotOK)'
  <2>1. PICK p \in {"noticed", "idle"} :
          /\ pc[a] \in {"waiting", "noticed"} /\ pc' = [pc EXCEPT ![a] = p]
          /\ UNCHANGED <<msgs, op, clock, last, askTs>>
    BY <1>4 DEF Poll, Ignored, Answered, list, answer, time
  <2>2. \A b \in Actors : /\ InAsk(b)' => InAsk(b)
                          /\ Holds(b)' => Holds(b)
                          /\ b # a => pc'[b] = pc[b]
    BY <1>1, <2>1 DEF CallsOK, InAsk, Inside, Holds
  <2>3. Known' \subseteq Known
    BY <2>1, <2>2 DEF Known, Listed, Held
  <2>4. CASE Poll(a) \/ Ignored(a)
    <3>1. slot' = slot
      BY <2>4 DEF Poll, Ignored, answer
    <3>2. \A b \in Actors : pc'[b] = "noticed" => pc[b] = "noticed" \/ slot # Empty \/ last # askTs[b]
      BY <1>1, <2>2, <2>4 DEF Poll, Ignored, CallsOK
    <3> QED BY <2>1, <2>2, <2>3, <3>1, <3>2, QuietKeepsFresh
  <2>5. CASE Answered(a)
    <3>1. slot' = Empty /\ last = askTs[a] /\ pc'[a] = "idle" /\ InAsk(a)
      BY <1>1, <2>5 DEF Answered, CallsOK, InAsk
    <3>2. IdsOK'
      BY <1>1, <2>1, <2>3 DEF IdsOK
    <3>3. AsksOK'
      BY <1>1, <2>1, <2>2, <2>3 DEF AsksOK
    <3>4. ASSUME NEW b \in Actors, InAsk(b)', last' = askTs'[b] PROVE pc'[b] # "noticed"
      <4>1. b # a => askTs[b] # askTs[a]
        BY <1>1, <2>2, <3>1, <3>4 DEF AsksOK
      <4> QED BY <2>1, <3>1, <3>4, <4>1
    <3>5. SlotOK'
      BY <3>1, <3>4 DEF SlotOK
    <3> QED BY <3>2, <3>3, <3>5
  <2> QED BY <1>4, <2>4, <2>5
<1> QED BY <1>2, <1>3, <1>4

LEMMA NextFreshIInv ==
  ASSUME ~SameMillisecond, FreshIInv, [MessagesNext]_messageVars
  PROVE  FreshIInv'
<1>1. MessagesIInv'
  BY NextMessagesIInv DEF FreshIInv
<1>2. CASE Speak
  <2>1. PICK kind \in Kinds, mode \in Modes :
             Send(Agent, kind, IF mode = "whole" THEN "text" ELSE "tool", mode, Agent,
                  IF kind = "ask" /\ mode # "partial" THEN "waiting" ELSE "idle")
    BY <1>2 DEF Speak
  <2> DEFINE type == IF mode = "whole" THEN "text" ELSE "tool"
             next == IF kind = "ask" /\ mode # "partial" THEN "waiting" ELSE "idle"
  <2>2. /\ type \in Types /\ next \in Goals /\ Agent \in Texts /\ pc[Agent] = "idle"
        /\ (next = "waiting" <=> kind = "ask" /\ mode # "partial")
        /\ type # "resume" /\ (mode # "whole" => type = "tool")
    BY <1>2, MessagesFacts DEF Types, Goals, Texts, Speak
  <2>3. Send(Agent, kind, type, mode, Agent, next)
    BY <2>1
  <2> HIDE DEF type, next
  <2> QED BY <1>1, <2>2, <2>3, SendKeepsFresh, MessagesFacts DEF FreshIInv
<1>3. ASSUME NEW a \in Actors, NEW type \in {"hook", "tool", "resume"}, NEW mode \in {"whole", "partial", "complete"},
             NEW kind \in Kinds, NEW text \in Actors, NEW next \in Goals,
             Send(a, kind, type, mode, text, next), pc[a] = "idle",
             \/ kind = "say" /\ next # "waiting"
             \/ kind = "ask" /\ next = "waiting" /\ type = "resume" /\ mode = "whole" /\ a = Cleanup,
             mode # "whole" => type = "tool"
      PROVE  FreshIInv'
  <2>1. type \in Types /\ mode \in Modes /\ text \in Texts
    BY <1>3 DEF Types, Modes, Texts
  <2>2. /\ next = "waiting" <=> kind = "ask" /\ mode # "partial"
        /\ next = "waiting" => a \in {Agent, Cleanup} /\ (type = "resume" <=> a = Cleanup)
    BY <1>3
  <2> QED BY <1>1, <1>3, <2>1, <2>2, SendKeepsFresh DEF FreshIInv
<1>4. CASE ReportHook \/ CleanUp
  <2>1. CASE ReportHook
    BY <1>3, <2>1, MessagesFacts DEF ReportHook, Goals, Kinds
  <2>2. CASE CleanUp
    BY <1>3, <2>2, MessagesFacts DEF CleanUp, Goals, Kinds
  <2> QED BY <1>4, <2>1, <2>2
<1>5. ASSUME NEW j \in Jobs, Announce(j) PROVE FreshIInv'
  <2>1. pc[Agent] = "idle" /\ Send(Agent, "say", "tool", "partial", j, "listen") /\ j \in Actors
    BY <1>5, MessagesFacts DEF Announce
  <2> QED BY <1>3, <2>1, MessagesFacts DEF Goals, Kinds
<1>6. ASSUME NEW j \in Jobs, JobEnds(j) PROVE FreshIInv'
  <2>1. pc[j] = "idle" /\ j \in Actors
    BY <1>6, MessagesFacts DEF FreshIInv, MessagesIInv, JobsOK, JobEnds
  <2>2. CASE Send(j, "say", "tool", "complete", j, "idle")
    BY <1>3, <2>1, <2>2 DEF Goals, Kinds
  <2>3. CASE UNCHANGED <<list, calls, answer, user, time, aborted>>
    BY <1>1, <1>6, <2>3, OutsideKeepsFresh DEF FreshIInv
  <2> QED BY <1>6, <2>2, <2>3 DEF JobEnds
<1>7. CASE RemoveLast \/ Reorder \/ ReAdd \/ \E j \in Jobs : Listen(j)
  BY <1>1, <1>7, CallKeepsFresh DEF FreshIInv
<1>8. CASE \E a \in Actors : Apply(a) \/ Reject(a) \/ Saved(a)
  BY <1>1, <1>8, LockedKeepsFresh DEF FreshIInv
<1>9. CASE \/ Abort \/ Click \/ Deliver \/ UNCHANGED messageVars
           \/ \E a \in Actors : Poll(a) \/ Ignored(a) \/ Answered(a)
  BY <1>1, <1>9, OutsideKeepsFresh DEF FreshIInv
<1> QED BY <1>2, <1>4, <1>5, <1>6, <1>7, <1>8, <1>9 DEF MessagesNext, Progress

LEMMA InitFreshIInv == MessagesInit => FreshIInv
<1> SUFFICES ASSUME MessagesInit PROVE FreshIInv
  OBVIOUS
<1>1. MessagesIInv
  BY InitMessagesIInv
<1>2. \A a \in Actors : ~Holds(a) /\ ~InAsk(a)
  BY DEF MessagesInit, Holds, InAsk, Inside
<1>3. Known = {}
  BY <1>2 DEF MessagesInit, Known, Listed, Held
<1> QED BY <1>1, <1>2, <1>3 DEF MessagesInit, FreshIInv, IdsOK, AsksOK, SlotOK

\* TaskMessenger.ts: where no two messages get the same Date.now(), an ask returns what
\* was answered while it was the last message, and no answer at all but that.  Two with one
\* time have one id, and the property fails.
THEOREM AnswersReturnFresh == ASSUME ~SameMillisecond PROVE MessagesSpec => AnswersAreFresh
<1>1. FreshIInv => \A a \in Actors : Answered(a) => slot # Empty /\ slot.at = askTs[a]
  BY DEF FreshIInv, SlotOK, Answered, InAsk
<1>2. FreshIInv /\ [MessagesNext]_messageVars => FreshIInv'
  BY NextFreshIInv
<1> QED BY <1>1, <1>2, InitFreshIInv, PTL DEF MessagesSpec, AnswersAreFresh

=============================================================================

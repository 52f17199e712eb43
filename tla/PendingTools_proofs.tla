------------------------- MODULE PendingTools_proofs -------------------------
(***************************************************************************)
(* Proofs about PendingTools, for every set of jobs.  What makes the       *)
(* properties inductive is how listening, announcing and running go        *)
(* together for each job (JobShape).                                       *)
(***************************************************************************)
EXTENDS PendingTools, Subagents, TLAPS

\* A job is listened to while it runs and its notifier is past its await; then it is
\* announced once.
JobShape == \A j \in Jobs :
  /\ listener[j] = (io[j] # "none" /\ status[j] = "running")
  /\ notices[j] = (IF io[j] = "none" \/ status[j] = "running" THEN 0 ELSE 1)
  /\ status[j] = "none" => io[j] = "none"
  /\ At("announcing", j) => status[j] # "none" /\ io[j] = "none"

IInv == TypeOK /\ JobShape /\ WaiterIsTold

RegistryStep == \A j \in Jobs : status'[j] # status[j] =>
  \/ status[j] = "none" /\ status'[j] = "running"
  \/ status[j] = "running" /\ status'[j] \in Terminal
  \/ status[j] \in Terminal /\ status'[j] = "pruned"

-----------------------------------------------------------------------------
\* The initial state: nothing is registered.
LEMMA InitIInv == Init => IInv
<1> SUFFICES ASSUME Init PROVE IInv
  OBVIOUS
<1>1. TypeOK
  <2>1. /\ status \in [Jobs -> {"none", "running", "pruned"} \union Terminal]
        /\ io \in [Jobs -> {"none", "running"} \union Ended]
        /\ notices \in [Jobs -> 0..1]
    BY DEF Init
  <2>2. /\ signal \in [Jobs -> BOOLEAN]
        /\ background \in [Jobs -> BOOLEAN]
        /\ listener \in [Jobs -> BOOLEAN]
    BY Zenon DEF Init
  <2>3. agent \in [at : {"idle", "tool"}, job : {NoJob}]
    BY DEF Init
  <2> QED
    BY <2>1, <2>2, <2>3 DEF Init, TypeOK
<1>2. agent.at = "idle"
  BY DEF Init
<1>3. \A j \in Jobs : ~At("announcing", j) /\ ~At("waiting", j)
  BY <1>2 DEF At
<1>4. JobShape /\ WaiterIsTold
  BY <1>3 DEF Init, JobShape, WaiterIsTold
<1> QED
  BY <1>1, <1>4 DEF IInv

\* Settling some jobs keeps the registry and the notifier in shape, whoever settles.
LEMMA SettleKeepsShape ==
  ASSUME TypeOK, JobShape, NEW K \in SUBSET Jobs, NEW s \in Terminal, Settle(K, s),
         UNCHANGED io
  PROVE  /\ status' \in [Jobs -> {"none", "running", "pruned"} \union Terminal]
         /\ listener' \in [Jobs -> BOOLEAN]
         /\ notices' \in [Jobs -> 0..1]
         /\ superseded' \in BOOLEAN
         /\ \A j \in Jobs :
              /\ listener'[j] = (io'[j] # "none" /\ status'[j] = "running")
              /\ notices'[j] = (IF io'[j] = "none" \/ status'[j] = "running" THEN 0 ELSE 1)
              /\ status'[j] = "none" <=> status[j] = "none"
              /\ status'[j] = "running" <=> status[j] = "running" /\ j \notin K
         /\ RegistryStep
<1> DEFINE told == {j \in Running(K) : listener[j]}
<1>1. status' = [j \in Jobs |-> IF j \in K /\ status[j] = "running" THEN s ELSE status[j]]
  BY DEF Settle, Running
<1>2. /\ listener' = [j \in Jobs |-> listener[j] /\ j \notin told]
      /\ notices' = [j \in Jobs |-> IF j \in told THEN notices[j] + 1 ELSE notices[j]]
  BY DEF Settle, Emit
<1>3. superseded' \in BOOLEAN
  BY DEF Settle, Emit
<1>4. \A j \in Jobs : j \in told <=> j \in K /\ status[j] = "running" /\ listener[j]
  BY DEF Running
<1>5. s \in {"completed", "failed", "cancelled"}
  BY DEF Terminal
<1> HIDE DEF told
<1>6. status' \in [Jobs -> {"none", "running", "pruned"} \union Terminal]
  BY <1>1 DEF TypeOK
<1>7. ASSUME NEW j \in Jobs
      PROVE  /\ status'[j] = (IF j \in K /\ status[j] = "running" THEN s ELSE status[j])
             /\ listener'[j] = (listener[j] /\ j \notin told)
             /\ notices'[j] = (IF j \in told THEN notices[j] + 1 ELSE notices[j])
  BY <1>1, <1>2
<1>8. ASSUME NEW j \in Jobs
      PROVE  listener'[j] = (io'[j] # "none" /\ status'[j] = "running")
  BY <1>4, <1>5, <1>7 DEF JobShape
<1>9. ASSUME NEW j \in Jobs
      PROVE  notices'[j] = (IF io'[j] = "none" \/ status'[j] = "running" THEN 0 ELSE 1)
  BY <1>4, <1>5, <1>7 DEF JobShape, TypeOK
<1>10. listener' \in [Jobs -> BOOLEAN]
  BY <1>2, <1>4 DEF TypeOK
<1>11. notices' \in [Jobs -> 0..1]
  BY <1>2, <1>9
<1>12. ASSUME NEW j \in Jobs
       PROVE  /\ status'[j] = "none" <=> status[j] = "none"
              /\ status'[j] = "running" <=> status[j] = "running" /\ j \notin K
  BY <1>5, <1>7
<1>13. RegistryStep
  BY <1>7 DEF RegistryStep
<1> QED
  BY <1>3, <1>6, <1>8, <1>9, <1>10, <1>11, <1>12, <1>13

\* Where the agent can be.
AgentTypes == [at : {"idle", "tool"}, job : {NoJob}] \union [at : Busy, job : Jobs]

LEMMA AgentMoves ==
  /\ [at |-> "idle", job |-> NoJob] \in AgentTypes
  /\ [at |-> "tool", job |-> NoJob] \in AgentTypes
  /\ \A j \in Jobs, stage \in Busy : [at |-> stage, job |-> j] \in AgentTypes
BY DEF AgentTypes, Busy

LEMMA NextStageMoves ==
  ASSUME NEW j \in Jobs, NextStage(j)
  PROVE  agent' \in AgentTypes /\ agent'.at \in {"tool", "approving"}
<1>1. CASE Goto("tool", NoJob)
  BY <1>1, AgentMoves DEF Goto
<1>2. CASE Goto("approving", j)
  <2>1. agent' = [at |-> "approving", job |-> j] /\ "approving" \in Busy
    BY <1>2 DEF Goto, Busy
  <2> QED
    BY <2>1, AgentMoves
<1> QED
  BY <1>1, <1>2 DEF NextStage

\* A step that leaves the registry and the notifier alone.
LEMMA QuietStep ==
  ASSUME IInv, UNCHANGED <<status, listener, notices>>,
         \A j \in Jobs : io'[j] = "none" <=> io[j] = "none",
         UNCHANGED agent \/ agent'.at \in {"idle", "tool", "racing", "approving"}
  PROVE  JobShape' /\ WaiterIsTold'
<1>1. ASSUME NEW j \in Jobs
      PROVE  /\ At("announcing", j)' => At("announcing", j)
             /\ At("waiting", j)' => At("waiting", j)
  BY DEF At
<1>2. JobShape'
  BY <1>1 DEF IInv, JobShape
<1>3. WaiterIsTold'
  BY <1>1 DEF IInv, WaiterIsTold
<1> QED
  BY <1>2, <1>3

\* A step that settles jobs and takes a waiting agent off them, or leaves no agent waiting.
LEMMA SettlingStep ==
  ASSUME IInv, NEW K \in SUBSET Jobs, NEW s \in Terminal, Settle(K, s),
         signal' \in [Jobs -> BOOLEAN], background' \in [Jobs -> BOOLEAN],
         teardown' \in {"no", "cancelled", "aborted"}, UNCHANGED io,
         \/ Wake(K)
         \/ agent' \in AgentTypes /\ agent'.at \in {"tool", "approving"}
         \/ UNCHANGED agent /\ agent.at \in {"idle", "tool", "approving"}
  PROVE  IInv' /\ RegistryStep
<1>1. TypeOK /\ JobShape /\ WaiterIsTold
  BY DEF IInv
<1>2. /\ status' \in [Jobs -> {"none", "running", "pruned"} \union Terminal]
      /\ listener' \in [Jobs -> BOOLEAN]
      /\ notices' \in [Jobs -> 0..1]
      /\ superseded' \in BOOLEAN
      /\ \A j \in Jobs :
           /\ listener'[j] = (io'[j] # "none" /\ status'[j] = "running")
           /\ notices'[j] = (IF io'[j] = "none" \/ status'[j] = "running" THEN 0 ELSE 1)
           /\ status'[j] = "none" <=> status[j] = "none"
           /\ status'[j] = "running" <=> status[j] = "running" /\ j \notin K
      /\ RegistryStep
  BY <1>1, SettleKeepsShape
<1>3. /\ agent' \in AgentTypes
      /\ UNCHANGED agent \/ agent'.at \in {"tool", "approving"}
  BY <1>1, AgentMoves DEF Wake, Goto, TypeOK, AgentTypes
<1>4. TypeOK'
  BY <1>1, <1>2, <1>3 DEF TypeOK, AgentTypes
<1>5. ASSUME NEW j \in Jobs, At("announcing", j)'
      PROVE  status'[j] # "none" /\ io'[j] = "none"
  <2>1. At("announcing", j)
    BY <1>3, <1>5 DEF At
  <2> QED
    BY <1>1, <1>2, <2>1 DEF JobShape
<1>6. ASSUME NEW j \in Jobs
      PROVE  status'[j] = "none" => io'[j] = "none"
  BY <1>1, <1>2, <1>6 DEF JobShape
<1>7. JobShape'
  BY <1>2, <1>5, <1>6 DEF JobShape
<1>8. ASSUME NEW j \in Jobs, At("waiting", j)'
      PROVE  status'[j] = "running"
  <2>1. At("waiting", j) /\ agent'.at = "waiting" /\ UNCHANGED agent
    BY <1>3, <1>8 DEF At
  <2>2. agent.at = "waiting" /\ agent.job = j /\ status[j] = "running"
    BY <1>1, <2>1 DEF At, WaiterIsTold
  <2>3. Wake(K)
    BY <2>1, <2>2
  <2>4. j \notin Running(K)
    <3>1. agent.job \in Running(K) => agent' = [at |-> "tool", job |-> NoJob]
      BY <2>2, <2>3 DEF Wake, Goto
    <3> QED
      BY <2>1, <2>2, <3>1
  <2> QED
    BY <1>2, <2>2, <2>4 DEF Running
<1>9. WaiterIsTold'
  BY <1>8 DEF WaiterIsTold
<1> QED
  BY <1>2, <1>4, <1>7, <1>9 DEF IInv

-----------------------------------------------------------------------------
\* Every step keeps the invariant, and moves each registry entry forward only.
LEMMA NextIInv == IInv /\ [Next]_vars => IInv' /\ (RegistryStep \/ UNCHANGED vars)
<1> SUFFICES ASSUME IInv, [Next]_vars
             PROVE  IInv' /\ (RegistryStep \/ UNCHANGED vars)
  OBVIOUS
<1> USE DEF IInv
<1>1. TypeOK /\ agent \in AgentTypes
  BY DEF TypeOK, AgentTypes
<1>2. ASSUME UNCHANGED <<status, listener, notices>>, TypeOK',
             \A j \in Jobs : io'[j] = "none" <=> io[j] = "none",
             UNCHANGED agent \/ agent'.at \in {"idle", "tool", "racing", "approving"}
      PROVE  IInv' /\ RegistryStep
  BY <1>2, QuietStep DEF RegistryStep
<1>3. CASE UNCHANGED vars
  BY <1>3 DEF vars, TypeOK, JobShape, WaiterIsTold, At
<1>4. CASE BeginTool \/ EndTool
  <2>1. agent'.at \in {"idle", "tool"} /\ TypeOK'
    BY <1>1, <1>4, AgentMoves DEF BeginTool, EndTool, Goto, TypeOK, AgentTypes
  <2> QED
    BY <1>2, <1>4, <2>1 DEF BeginTool, EndTool
<1>5. CASE SetAbort \/ AskResume
  BY <1>1, <1>2, <1>5 DEF SetAbort, AskResume, TypeOK
<1>6. CASE CancelAll
  <2>1. signal' \in [Jobs -> BOOLEAN]
    BY <1>6 DEF CancelAll, Cancel, Running
  <2> QED
    BY <1>1, <1>6, <2>1, SettlingStep DEF CancelAll, Cancel, TypeOK, Terminal
<1>7. ASSUME NEW j \in Jobs, Register(j)
      PROVE  IInv' /\ RegistryStep
  <2>1. /\ status' = [status EXCEPT ![j] = "running"] /\ status[j] = "none"
        /\ agent' = [at |-> "announcing", job |-> j]
        /\ UNCHANGED <<signal, io, background, listener, notices, superseded, teardown>>
    BY <1>7 DEF Register, Goto
  <2>2. TypeOK'
    BY <1>1, <2>1, AgentMoves DEF TypeOK, AgentTypes, Busy
  <2>3. io[j] = "none"
    BY <2>1 DEF JobShape
  <2>4. \A k \in Jobs : status'[k] = (IF k = j THEN "running" ELSE status[k])
    BY <1>1, <2>1 DEF TypeOK
  <2>5. \A k \in Jobs : (At("announcing", k)' => k = j) /\ ~At("waiting", k)'
    BY <2>1 DEF At
  <2>6. JobShape' /\ WaiterIsTold'
    BY <2>1, <2>3, <2>4, <2>5 DEF JobShape, WaiterIsTold
  <2>7. RegistryStep
    BY <2>1, <2>4 DEF RegistryStep
  <2> QED
    BY <2>2, <2>6, <2>7
<1>8. ASSUME NEW j \in Jobs, Launch(j)
      PROVE  IInv' /\ RegistryStep
  <2>1. /\ At("announcing", j) /\ Listen(j)
        /\ io' = [io EXCEPT ![j] = "running"]
        /\ agent' = [at |-> "racing", job |-> j]
        /\ UNCHANGED <<status, signal, background, superseded, teardown>>
    BY <1>8 DEF Launch, Goto
  <2>2. /\ status[j] # "none" /\ io[j] = "none" /\ notices[j] = 0 /\ listener[j] = FALSE
    BY <2>1 DEF JobShape
  <2>3. /\ io' \in [Jobs -> {"none", "running"} \union Ended]
        /\ \A k \in Jobs : io'[k] = (IF k = j THEN "running" ELSE io[k])
    BY <1>1, <2>1 DEF TypeOK
  <2>4. /\ listener' \in [Jobs -> BOOLEAN]
        /\ notices' \in [Jobs -> 0..1]
        /\ \A k \in Jobs :
             /\ listener'[k] = (IF k = j THEN status[j] = "running" ELSE listener[k])
             /\ notices'[k] = (IF k = j /\ status[j] # "running" THEN 1 ELSE notices[k])
    <3>1. CASE status[j] = "running"
      <4>1. listener' = [listener EXCEPT ![j] = TRUE] /\ notices' = notices
        BY <2>1, <3>1 DEF Listen
      <4> QED
        BY <1>1, <3>1, <4>1 DEF TypeOK
    <3>2. CASE status[j] # "running"
      <4>1. notices' = [notices EXCEPT ![j] = 1] /\ listener' = listener
        BY <2>1, <2>2, <3>2 DEF Listen
      <4> QED
        BY <1>1, <2>2, <3>2, <4>1 DEF TypeOK
    <3> QED
      BY <3>1, <3>2
  <2>5. TypeOK'
    BY <1>1, <2>1, <2>3, <2>4, AgentMoves DEF TypeOK, AgentTypes, Busy
  <2>6. \A k \in Jobs : ~At("announcing", k)' /\ ~At("waiting", k)'
    BY <2>1 DEF At
  <2>7. JobShape' /\ WaiterIsTold'
    BY <2>1, <2>2, <2>3, <2>4, <2>6 DEF JobShape, WaiterIsTold
  <2> QED
    BY <2>1, <2>5, <2>7 DEF RegistryStep
<1>9. ASSUME NEW j \in Jobs, FastPath(j)
      PROVE  IInv' /\ RegistryStep
  <2>1. Result(j) \in Terminal /\ Settle({j}, Result(j))
    BY <1>9 DEF FastPath, Result, Terminal
  <2>2. agent' \in AgentTypes /\ agent'.at \in {"tool", "approving"}
    BY <1>9, NextStageMoves DEF FastPath
  <2> QED
    BY <1>1, <1>9, <2>1, <2>2, SettlingStep DEF FastPath, TypeOK
<1>10. ASSUME NEW j \in Jobs, GoBackground(j)
       PROVE  IInv' /\ RegistryStep
  <2>1. agent' \in AgentTypes /\ agent'.at \in {"tool", "approving"}
    BY <1>10, NextStageMoves DEF GoBackground
  <2>2. TypeOK'
    BY <1>1, <1>10, <2>1 DEF GoBackground, TypeOK, AgentTypes
  <2> QED
    BY <1>2, <1>10, <2>1, <2>2 DEF GoBackground
<1>11. ASSUME NEW j \in Jobs, BackgroundSettles(j)
       PROVE  IInv' /\ RegistryStep
  <2>1. background' \in [Jobs -> BOOLEAN]
    BY <1>1, <1>11 DEF BackgroundSettles, TypeOK
  <2>2. CASE io[j] = "aborted"
    <3>1. TypeOK'
      BY <1>1, <1>11, <2>1, <2>2 DEF BackgroundSettles, TypeOK
    <3> QED
      BY <1>2, <1>11, <2>2, <3>1 DEF BackgroundSettles
  <2>3. CASE io[j] # "aborted"
    <3>1. Result(j) \in Terminal /\ Settle({j}, Result(j)) /\ Wake({j})
      BY <1>11, <2>3 DEF BackgroundSettles, Result, Terminal
    <3> QED
      BY <1>1, <1>11, <2>1, <3>1, SettlingStep DEF BackgroundSettles, TypeOK
  <2> QED
    BY <2>2, <2>3
<1>12. ASSUME NEW j \in Jobs, NEW approved \in BOOLEAN, Answered(j, approved)
       PROVE  IInv' /\ RegistryStep
  <2>1. agent' \in AgentTypes /\ agent'.at = "tool"
    BY <1>12, AgentMoves DEF Answered, Goto
  <2>2. CASE approved
    <3>1. TypeOK'
      BY <1>1, <1>12, <2>1, <2>2 DEF Answered, TypeOK, AgentTypes
    <3> QED
      BY <1>2, <1>12, <2>1, <2>2, <3>1 DEF Answered
  <2>3. CASE ~approved
    <3>1. Settle({j}, "cancelled") /\ signal' \in [Jobs -> BOOLEAN]
      BY <1>12, <2>3 DEF Answered, Cancel, Running
    <3> QED
      BY <1>1, <1>12, <2>1, <3>1, SettlingStep DEF Answered, TypeOK, Terminal
  <2> QED
    BY <2>2, <2>3
<1>13. ASSUME NEW j \in Jobs, AskIgnored(j) \/ WaitTimeout(j)
       PROVE  IInv' /\ RegistryStep
  <2>1. agent' \in AgentTypes /\ agent'.at \in {"idle", "tool"}
    BY <1>13, AgentMoves DEF AskIgnored, WaitTimeout, Goto
  <2>2. TypeOK'
    BY <1>1, <1>13, <2>1 DEF AskIgnored, WaitTimeout, TypeOK, AgentTypes
  <2> QED
    BY <1>2, <1>13, <2>1, <2>2 DEF AskIgnored, WaitTimeout
<1>14. ASSUME NEW j \in Jobs, NEW outcome \in Ended, IOEnds(j, outcome)
       PROVE  IInv' /\ RegistryStep
  <2>1. TypeOK' /\ \A k \in Jobs : io'[k] = "none" <=> io[k] = "none"
    BY <1>1, <1>14 DEF IOEnds, TypeOK, Ended
  <2> QED
    BY <1>2, <1>14, <2>1 DEF IOEnds
<1>15. ASSUME NEW j \in Jobs, NEW old \in SUBSET Prunable, NEW wait \in BOOLEAN,
              GetResult(j, old, wait)
       PROVE  IInv' /\ RegistryStep
  <2>1. /\ InTool
        /\ status' = [k \in Jobs |-> IF k \in old THEN "pruned" ELSE status[k]]
        /\ \/ status[j] = "running" /\ agent' = [at |-> "waiting", job |-> j]
           \/ UNCHANGED agent
        /\ UNCHANGED <<signal, io, background, listener, notices, superseded, teardown>>
    BY <1>15 DEF GetResult, Goto
  <2>2. \A k \in old : status[k] \in Terminal
    BY DEF Prunable
  <2>3. \A k \in Jobs : status'[k] = (IF k \in old THEN "pruned" ELSE status[k])
    BY <2>1
  <2>4. status' \in [Jobs -> {"none", "running", "pruned"} \union Terminal]
    BY <1>1, <2>1 DEF TypeOK
  <2>5. TypeOK'
    BY <1>1, <2>1, <2>4, AgentMoves DEF TypeOK, AgentTypes, Busy
  <2>6. \A k \in Jobs : /\ ~At("announcing", k)'
                        /\ At("waiting", k)' => k = j /\ status[j] = "running"
    BY <2>1 DEF InTool, At
  <2>7. JobShape' /\ WaiterIsTold'
    BY <2>1, <2>2, <2>3, <2>6 DEF JobShape, WaiterIsTold, Terminal
  <2>8. RegistryStep
    BY <2>2, <2>3 DEF RegistryStep
  <2> QED
    BY <2>5, <2>7, <2>8
<1> QED
  BY <1>3, <1>4, <1>5, <1>6, <1>7, <1>8, <1>9, <1>10, <1>11, <1>12, <1>13, <1>14, <1>15
  DEF Next, Handle

LEMMA IInvHolds == Spec => []IInv
<1>1. Init => IInv
  BY InitIInv
<1>2. IInv /\ [Next]_vars => IInv'
  BY NextIInv
<1> QED
  BY <1>1, <1>2, PTL DEF Spec

-----------------------------------------------------------------------------
\* The variables keep their types.
THEOREM TypeCorrect == Spec => []TypeOK
<1>1. IInv => TypeOK
  BY DEF IInv
<1> QED
  BY <1>1, IInvHolds, PTL

\* However jobs end and tasks are torn down, every job that started and has ended was
\* announced once, and none that runs was.
THEOREM AnnouncementsAreExact == Spec => []AnnouncedOnce
<1>1. IInv => AnnouncedOnce
  BY DEF IInv, JobShape, AnnouncedOnce
<1> QED
  BY <1>1, IInvHolds, PTL

\* get_tool_result never sleeps on a job that has already ended.
THEOREM WaiterIsNeverMissed == Spec => []WaiterIsTold
<1>1. IInv => WaiterIsTold
  BY DEF IInv
<1> QED
  BY <1>1, IInvHolds, PTL

\* A registry entry reaches one terminal status, and is dropped only from there.
THEOREM EntriesSettleOnce == Spec => SettlesOnce
<1>1. IInv /\ [Next]_vars => [RegistryStep]_vars
  BY NextIInv
<1>2. [][RegistryStep]_vars => SettlesOnce
  BY DEF RegistryStep, SettlesOnce
<1> QED
  BY <1>1, <1>2, IInvHolds, PTL DEF Spec

-----------------------------------------------------------------------------
(***************************************************************************)
(* Subagents, for every set of agents and any limits.  TurnsAreBounded is  *)
(* no invariant of steps: what the current turn has had and the reminders  *)
(* before it must be counted against the turns that are done (Paid).  An   *)
(* abort asks once more because a delay that runs already is the only step *)
(* that leads to a request without looking at it (Obeys).                  *)
(***************************************************************************)

\* The replies that n turns allow.
Budget(n) == n * (MaxEmpty + 1)

\* The replies of a runner are those of its turns, each with reminders before it: the
\* current turn has had as many as the runner counts.
Paid(r) ==
  /\ r.turns <= limit
  /\ r.at \in {"request", "backoff", "tool"} => r.turns < limit
  /\ r.at \notin Over /\ r.empties > 0 => r.turns < limit
  /\ r.at \notin Over \union {"tool"} => r.replies <= Budget(r.turns) + r.empties
  /\ r.at = "tool" => r.empties = 0 /\ r.replies <= Budget(r.turns + 1)
  /\ r.at \in Over => r.replies <= Budget(limit)

\* Only the delay of a retry outlasts an abort and ends in a request, and no delay begins
\* after one.
Obeys(r) == r.late > 0 => abort /\ r.late = 1 /\ r.at # "backoff"

RunnerOK(r) ==
  /\ r \in Runners /\ Len(r.calls) <= MaxCalls
  /\ r.at = "backoff" => r.attempt < MaxAttempts
  /\ r.at \in Over => r.timer = "none"
  /\ Obeys(r)
  /\ limit > 0 => Paid(r)

CallOK == /\ limit \in {0, MaxTurns} /\ abort \in BOOLEAN /\ poll \in {"armed", "fired", "off"}
          /\ jobs \subseteq Agents

AgentsIInv == CallOK /\ run = [a \in Agents |-> run[a]] /\ \A a \in Agents : RunnerOK(run[a])

LEMMA BudgetGrows ==
  /\ \A n \in Nat : Budget(n) \in Nat /\ Budget(n + 1) = Budget(n) + MaxEmpty + 1
  /\ \A m, n \in Nat : m <= n => Budget(m) <= Budget(n)
<1>1. MaxEmpty + 1 \in Nat
  BY SubagentsAssumption
<1>2. \A K \in Nat, n \in Nat : n * K \in Nat /\ (n + 1) * K = n * K + K
  OBVIOUS
<1>3. \A K \in Nat, m, n \in Nat : m <= n => m * K <= n * K
  OBVIOUS
<1>4. \A n \in Nat : Budget(n) \in Nat /\ Budget(n + 1) = Budget(n) + (MaxEmpty + 1)
  BY <1>1, <1>2 DEF Budget
<1>5. \A m, n \in Nat : m <= n => Budget(m) <= Budget(n)
  BY <1>1, <1>3 DEF Budget
<1> QED BY <1>4, <1>5, SubagentsAssumption

\* What a runner has paid for is within the limit wherever it is.
LEMMA WithinBudget ==
  ASSUME CallOK, NEW r, RunnerOK(r), limit > 0
  PROVE  r.replies <= Budget(limit)
<1>1. /\ r.turns \in Nat /\ r.empties \in 0..MaxEmpty /\ r.replies \in Nat /\ limit \in Nat
      /\ MaxEmpty \in Nat /\ r.at \in Places
  BY SubagentsAssumption DEF CallOK, RunnerOK, Runners
<1>2. Paid(r)
  BY DEF RunnerOK
<1>3. CASE r.turns < limit
  <2>1. Budget(r.turns + 1) <= Budget(limit) /\ Budget(r.turns + 1) = Budget(r.turns) + MaxEmpty + 1
        /\ Budget(r.turns) \in Nat /\ Budget(limit) \in Nat
    <3>1. r.turns + 1 \in Nat /\ r.turns + 1 <= limit
      BY <1>1, <1>3
    <3>2. Budget(r.turns + 1) <= Budget(limit)
      BY <1>1, <3>1, BudgetGrows
    <3> QED BY <1>1, <3>2, BudgetGrows
  <2> QED BY <1>1, <1>2, <1>3, <2>1 DEF Paid, Places
<1>4. CASE r.turns = limit
  <2>1. Budget(limit) \in Nat
    BY <1>1, BudgetGrows
  <2> QED BY <1>1, <1>2, <1>4, <2>1 DEF Paid, Places
<1> QED BY <1>1, <1>2, <1>3, <1>4 DEF Paid

LEMMA EndKeeps ==
  ASSUME CallOK, NEW r, RunnerOK(r), NEW how \in Over
  PROVE  RunnerOK(End(r, how))
<1>1. End(r, how) \in Runners
  BY DEF RunnerOK, Runners, End, Places
<1>2. how # "backoff" /\ how \notin {"request", "backoff", "tool"}
  BY DEF Over
<1>3. limit > 0 => Paid(End(r, how))
  BY <1>2, WithinBudget DEF RunnerOK, Runners, Paid, End
<1> QED BY <1>1, <1>2, <1>3 DEF RunnerOK, Runners, End, Obeys

LEMMA StopKeeps ==
  ASSUME CallOK, NEW r, RunnerOK(r)
  PROVE  RunnerOK(Stop(r))
<1>1. "limited" \in Over /\ "failed" \in Over
  BY DEF Over
<1> QED BY <1>1, EndKeeps DEF Stop

LEMMA OutOfTurnsKeeps ==
  ASSUME CallOK, NEW r, RunnerOK(r), r.at \in {"setup", "loop"}
  PROVE  /\ RunnerOK(OutOfTurns(r)) /\ OutOfTurns(r).at = r.at
         /\ limit > 0 /\ (~OutOfTurns(r).aborted \/ OutOfTurns(r).reason # "turns")
              => OutOfTurns(r).turns < limit
<1> DEFINE s == OutOfTurns(r)
<1>1. s \in Runners
  BY DEF RunnerOK, Runners, OutOfTurns
<1>2. /\ s.at = r.at /\ s.turns = r.turns /\ s.empties = r.empties /\ s.replies = r.replies
      /\ s.calls = r.calls /\ s.attempt = r.attempt /\ s.timer = r.timer /\ s.late = r.late
      /\ limit > 0 /\ r.turns >= limit => s.aborted /\ s.reason = "turns"
  BY DEF RunnerOK, Runners, OutOfTurns
<1>3. r.turns \in Nat /\ limit \in Nat
  BY SubagentsAssumption DEF RunnerOK, Runners, CallOK
<1>4. limit > 0 => Paid(s)
  BY <1>2 DEF RunnerOK, Paid
<1>5. RunnerOK(s)
  BY <1>1, <1>2, <1>4 DEF RunnerOK, Obeys
<1> QED BY <1>2, <1>3, <1>5

\* A request is begun with turns left and before an abort.
LEMMA RequestKeeps ==
  ASSUME CallOK, NEW r, RunnerOK(r), r.at \in {"setup", "loop"}, ~abort,
         limit > 0 => r.turns < limit
  PROVE  RunnerOK(Request(r)) /\ RunnerOK(Request(WrapUp(r)))
<1>1. 1 \in 1..MaxAttempts /\ <<>> \in Seq(Calls) /\ Len(<<>>) <= MaxCalls
  BY SubagentsAssumption
<1>2. Request(r) \in Runners /\ Request(WrapUp(r)) \in Runners
  BY <1>1 DEF RunnerOK, Runners, Request, WrapUp, Begin, Places
<1>3. ASSUME NEW q \in {Request(r), Request(WrapUp(r))}
      PROVE  /\ q.at = "request" /\ q.turns = r.turns /\ q.empties = r.empties
             /\ q.replies = r.replies /\ q.calls = <<>> /\ q.late = r.late
  <2>1. r \in Runners
    BY DEF RunnerOK
  <2>2. CASE q = Request(r)
    BY <2>1, <2>2 DEF Runners, Request, Begin
  <2>3. CASE q = Request(WrapUp(r))
    BY <2>1, <2>3 DEF Runners, Request, WrapUp, Begin
  <2> QED BY <2>2, <2>3
<1>4. limit > 0 => Paid(Request(r)) /\ Paid(Request(WrapUp(r)))
  BY <1>3 DEF RunnerOK, Paid, Over
<1> QED BY <1>1, <1>2, <1>3, <1>4 DEF RunnerOK, Obeys, Over

LEMMA LoopKeeps ==
  ASSUME CallOK, NEW r, RunnerOK(r), r.at \in {"setup", "loop"}
  PROVE  RunnerOK(Loop(r))
<1> DEFINE s == OutOfTurns(r)
<1>1. /\ RunnerOK(s) /\ s.at \in {"setup", "loop"}
      /\ limit > 0 /\ (~s.aborted \/ s.reason # "turns") => s.turns < limit
  BY OutOfTurnsKeeps
<1> HIDE DEF s
<1>2. \/ Loop(r) = Request(s) /\ ~abort /\ ~s.aborted
      \/ Loop(r) = Request(WrapUp(s)) /\ ~abort /\ s.reason = "time"
      \/ Loop(r) = Stop(s)
  BY DEF Loop, ShouldAbort, s
<1> QED BY <1>1, <1>2, RequestKeeps, StopKeeps

\* The calls of a reply, where the turn they belong to is paid for.
LEMMA WorkKeeps ==
  ASSUME CallOK, NEW r, r \in Runners, Len(r.calls) <= MaxCalls, Obeys(r), r.at \in {"request", "tool"},
         limit > 0 => r.turns < limit /\ r.empties = 0 /\ r.replies <= Budget(r.turns + 1),
         NEW k \in Nat \ {0}
  PROVE  RunnerOK(Work(r, k))
<1>1. RunnerOK(TurnDone(r))
  <2>1. TurnDone(r) \in Runners
    <3>1. (IF limit > 0 THEN r.turns + 1 ELSE 0) \in 0..MaxTurns /\ 0 \in 0..MaxCalls
      BY SubagentsAssumption DEF Runners, CallOK
    <3> QED BY <3>1 DEF TurnDone, Runners, Places
  <2>2. /\ TurnDone(r).at = "loop" /\ TurnDone(r).late = r.late /\ TurnDone(r).calls = r.calls
        /\ limit > 0 => /\ TurnDone(r).turns = r.turns + 1 /\ TurnDone(r).empties = 0
                         /\ TurnDone(r).replies = r.replies
    BY DEF TurnDone, Runners
  <2>3. limit > 0 => Paid(TurnDone(r))
    <3>1. ASSUME limit > 0 PROVE r.turns + 1 <= limit /\ Budget(r.turns + 1) \in Nat /\ r.turns \in Nat
      <4>1. r.turns \in Nat /\ limit \in Nat
        BY SubagentsAssumption DEF Runners, CallOK
      <4>2. r.turns + 1 \in Nat /\ r.turns + 1 <= limit
        BY <3>1, <4>1
      <4>3. Budget(r.turns + 1) \in Nat
        BY <4>2, BudgetGrows, Zenon
      <4> QED BY <4>1, <4>2, <4>3
    <3> QED BY <2>2, <3>1 DEF Paid, Over
  <2> QED BY <2>1, <2>2, <2>3 DEF RunnerOK, Obeys, Over
<1>2. RunnerOK(End(r, "answered"))
  <2>1. End(r, "answered") \in Runners
    BY DEF Runners, End, Places, Over
  <2>2. ASSUME limit > 0 PROVE Budget(r.turns + 1) <= Budget(limit) /\ Budget(r.turns + 1) \in Nat /\ Budget(limit) \in Nat
    <3>1. r.turns + 1 \in Nat /\ limit \in Nat /\ r.turns + 1 <= limit
      BY <2>2, SubagentsAssumption DEF Runners, CallOK
    <3> QED BY <3>1, BudgetGrows
  <2>3. /\ End(r, "answered").at = "answered" /\ End(r, "answered").timer = "none"
        /\ End(r, "answered").turns = r.turns /\ End(r, "answered").replies = r.replies
        /\ End(r, "answered").late = r.late /\ End(r, "answered").calls = r.calls
    BY DEF End, Runners
  <2>4. r.replies \in Nat /\ r.turns \in Nat /\ limit \in Nat
    BY SubagentsAssumption DEF Runners, CallOK
  <2>5. limit > 0 => Paid(End(r, "answered"))
    BY <2>2, <2>3, <2>4 DEF Paid, Over
  <2> QED BY <2>1, <2>3, <2>5 DEF RunnerOK, Obeys
<1>3. ASSUME NEW i \in k..Len(r.calls) PROVE RunnerOK([r EXCEPT !.at = "tool", !.next = i])
  <2> DEFINE q == [r EXCEPT !.at = "tool", !.next = i]
  <2>1. i \in 0..MaxCalls
    BY SubagentsAssumption DEF Runners
  <2>2. q \in Runners
    BY <2>1 DEF Runners, Places
  <2>3. /\ q.at = "tool" /\ q.timer = r.timer /\ q.turns = r.turns /\ q.replies = r.replies
        /\ q.late = r.late /\ q.calls = r.calls /\ q.empties = r.empties
    BY DEF Runners
  <2>4. r.turns \in Nat /\ limit \in Nat
    BY SubagentsAssumption DEF Runners, CallOK
  <2>5. limit > 0 => Paid(q)
    BY <2>3, <2>4 DEF Paid, Over
  <2> HIDE DEF q
  <2>6. RunnerOK(q)
    BY <2>2, <2>3, <2>5 DEF RunnerOK, Obeys, Over
  <2> QED BY <2>6 DEF q
<1>4. \/ Work(r, k) = TurnDone(r)
      \/ Work(r, k) = End(r, "answered")
      \/ \E i \in k..Len(r.calls) : Work(r, k) = [r EXCEPT !.at = "tool", !.next = i]
  BY DEF Work
<1> QED BY <1>1, <1>2, <1>3, <1>4

\* The end of a reply: with calls, the last without any, or one that a reminder answers.
LEMMA ReplyKeeps ==
  ASSUME CallOK, NEW r, RunnerOK(r), r.at = "request"
  PROVE  LET t == [r EXCEPT !.replies = IF limit > 0 THEN @ + 1 ELSE 0]
         IN /\ r.calls # <<>> => RunnerOK(Work([t EXCEPT !.empties = 0], 1))
            /\ r.empties = MaxEmpty => RunnerOK(End(t, "failed"))
            /\ r.empties # MaxEmpty => RunnerOK([t EXCEPT !.at = "loop", !.empties = @ + 1])
<1> DEFINE t == [r EXCEPT !.replies = IF limit > 0 THEN @ + 1 ELSE 0]
           n == IF limit > 0 THEN r.replies + 1 ELSE 0
           w == [t EXCEPT !.empties = 0]
           e == [t EXCEPT !.at = "loop", !.empties = @ + 1]
           f == End(t, "failed")
<1>1. /\ r \in Runners /\ limit \in Nat /\ MaxEmpty \in Nat /\ MaxCalls \in Nat
      /\ r.replies \in Nat /\ r.turns \in Nat /\ r.empties \in 0..MaxEmpty
  BY SubagentsAssumption DEF RunnerOK, CallOK, Runners
<1>2. n \in Nat
  BY <1>1
<1>3. ASSUME limit > 0
      PROVE  /\ r.turns < limit /\ n <= Budget(r.turns) + r.empties + 1 /\ n <= Budget(r.turns + 1)
             /\ n <= Budget(limit) /\ Budget(r.turns) \in Nat /\ Budget(r.turns + 1) \in Nat
             /\ Budget(limit) \in Nat
  <2>1. r.turns < limit /\ r.replies <= Budget(r.turns) + r.empties
    BY <1>3 DEF RunnerOK, Paid, Over
  <2>2. Budget(r.turns + 1) = Budget(r.turns) + MaxEmpty + 1 /\ Budget(r.turns) \in Nat
    BY <1>1, BudgetGrows
  <2>3. r.turns + 1 \in Nat /\ r.turns + 1 <= limit
    BY <1>1, <2>1
  <2>4. Budget(r.turns + 1) <= Budget(limit) /\ Budget(limit) \in Nat
    BY <1>1, <2>3, BudgetGrows
  <2>5. n = r.replies + 1
    BY <1>3
  <2> HIDE DEF n
  <2> QED BY <1>1, <2>1, <2>2, <2>4, <2>5
<1>4. /\ t = [r EXCEPT !.replies = n] /\ t \in Runners /\ t.replies = n
      /\ t.at = r.at /\ t.turns = r.turns /\ t.empties = r.empties /\ t.calls = r.calls
      /\ t.timer = r.timer /\ t.late = r.late /\ t.attempt = r.attempt
  <2>1. t = [r EXCEPT !.replies = n]
    BY <1>1 DEF Runners
  <2> HIDE DEF n, t
  <2> QED BY <1>1, <1>2, <2>1 DEF Runners
<1>5. Len(r.calls) <= MaxCalls /\ Obeys(r)
  BY DEF RunnerOK
<1> HIDE DEF t, n
<1>6. ASSUME r.calls # <<>> PROVE RunnerOK(Work(w, 1))
  <2>1. /\ w \in Runners /\ w.at = r.at /\ w.turns = r.turns /\ w.empties = 0 /\ w.replies = n
        /\ w.calls = r.calls /\ w.late = r.late
    <3>1. 0 \in 0..MaxEmpty
      BY <1>1
    <3> QED BY <1>4, <3>1 DEF Runners
  <2> HIDE DEF w
  <2>2. Len(w.calls) <= MaxCalls /\ Obeys(w) /\ w.at \in {"request", "tool"}
    BY <1>5, <2>1 DEF Obeys
  <2>3. limit > 0 => w.turns < limit /\ w.empties = 0 /\ w.replies <= Budget(w.turns + 1)
    BY <1>3, <2>1
  <2>4. 1 \in Nat \ {0}
    OBVIOUS
  <2> QED BY <2>1, <2>2, <2>3, <2>4, WorkKeeps
<1>7. RunnerOK(f)
  <2>1. /\ f \in Runners /\ f.at = "failed" /\ f.timer = "none" /\ f.turns = r.turns
        /\ f.replies = n /\ f.late = r.late /\ f.calls = r.calls
    BY <1>4 DEF Runners, End, Places, Over
  <2> HIDE DEF f
  <2>2. limit > 0 => Paid(f)
    BY <1>1, <1>3, <2>1 DEF Paid, Over
  <2> QED BY <1>5, <2>1, <2>2 DEF RunnerOK, Obeys
<1>8. ASSUME r.empties # MaxEmpty PROVE RunnerOK(e)
  <2>1. r.empties + 1 \in 0..MaxEmpty
    BY <1>1, <1>8
  <2>2. /\ e \in Runners /\ e.at = "loop" /\ e.timer = r.timer /\ e.turns = r.turns
        /\ e.empties = r.empties + 1 /\ e.replies = n /\ e.calls = r.calls /\ e.late = r.late
    BY <1>4, <2>1 DEF Runners, Places
  <2> HIDE DEF e
  <2>3. ASSUME limit > 0 PROVE e.turns < limit /\ e.replies <= Budget(e.turns) + e.empties
    BY <1>1, <1>2, <1>3, <2>2, <2>3
  <2>4. limit > 0 => Paid(e)
    BY <1>1, <2>2, <2>3 DEF Paid, Over
  <2> QED BY <1>5, <2>2, <2>4 DEF RunnerOK, Obeys, Over
<1> QED BY <1>6, <1>7, <1>8 DEF t

\* Another attempt, at once or after a delay.
LEMMA RetryKeeps ==
  ASSUME CallOK, NEW r, RunnerOK(r), r.attempt < MaxAttempts,
         \/ r.at = "backoff"
         \/ r.at = "request" /\ ~abort
  PROVE  RunnerOK([Begin(r) EXCEPT !.attempt = @ + 1]) /\ (~abort => RunnerOK([r EXCEPT !.at = "backoff"]))
<1> DEFINE n == [Begin(r) EXCEPT !.attempt = @ + 1]
           b == [r EXCEPT !.at = "backoff"]
           late == IF abort THEN r.late + 1 ELSE r.late
<1>1. /\ r \in Runners /\ MaxAttempts \in Nat /\ r.attempt \in 1..MaxAttempts /\ r.late \in Nat
      /\ abort \in BOOLEAN
  BY SubagentsAssumption DEF RunnerOK, Runners, CallOK
<1>2. r.attempt + 1 \in 1..MaxAttempts
  BY <1>1
<1>3. late \in Nat
  BY <1>1
<1>4. Begin(r) = [r EXCEPT !.at = "request", !.late = late]
  BY DEF Begin
<1>5. Obeys(r) /\ Len(r.calls) <= MaxCalls /\ (limit > 0 => Paid(r))
  BY DEF RunnerOK
<1>6. late > 0 => abort /\ late = 1
  BY <1>1, <1>5 DEF Obeys
<1> HIDE DEF late
<1>7. RunnerOK(n)
  <2>1. /\ n \in Runners /\ n.at = "request" /\ n.turns = r.turns /\ n.empties = r.empties
        /\ n.replies = r.replies /\ n.calls = r.calls /\ n.late = late
    BY <1>1, <1>2, <1>3, <1>4 DEF Runners, Places
  <2> HIDE DEF n
  <2>2. limit > 0 => Paid(n)
    BY <1>5, <2>1 DEF Paid, Over
  <2> QED BY <1>5, <1>6, <2>1, <2>2 DEF RunnerOK, Obeys, Over
<1>8. ASSUME ~abort PROVE RunnerOK(b)
  <2>1. /\ b \in Runners /\ b.at = "backoff" /\ b.turns = r.turns /\ b.empties = r.empties
        /\ b.replies = r.replies /\ b.calls = r.calls /\ b.late = r.late /\ b.attempt = r.attempt
    BY <1>1 DEF Runners, Places
  <2> HIDE DEF b
  <2>2. limit > 0 => Paid(b)
    BY <1>5, <2>1 DEF Paid, Over
  <2> QED BY <1>5, <1>8, <2>1, <2>2 DEF RunnerOK, Obeys, Over
<1> QED BY <1>7, <1>8

LEMMA GoesKeeps ==
  ASSUME AgentsIInv, NEW a \in Agents, NEW r, RunnerOK(r), Goes(a, r)
  PROVE  AgentsIInv'
<1>1. /\ run' = [b \in Agents |-> IF b = a THEN r ELSE run[b]]
      /\ UNCHANGED <<limit, jobs, abort, poll>>
  BY DEF Goes, AgentsIInv
<1>2. CallOK'
  BY <1>1 DEF AgentsIInv, CallOK
<1>3. ASSUME NEW b \in Agents PROVE RunnerOK(run[b])'
  <2>1. run'[b] = r \/ run'[b] = run[b]
    BY <1>1
  <2>2. RunnerOK(run'[b])
    BY <2>1 DEF AgentsIInv
  <2> QED BY <1>1, <2>2 DEF RunnerOK, Paid, Obeys
<1> QED BY <1>1, <1>2, <1>3 DEF AgentsIInv

\* One step of one runner.
LEMMA RunnerStep ==
  ASSUME AgentsIInv, NEW a \in Agents,
         \/ Prepared(a) \/ SetupFails(a) \/ Turn(a) \/ Chunk(a) \/ ReplyEnds(a)
         \/ StreamFails(a) \/ Again(a) \/ TimeUp(a) \/ WrapUpOver(a)
  PROVE  AgentsIInv'
<1> DEFINE r == run[a]
<1>1. /\ CallOK /\ RunnerOK(r) /\ r \in Runners /\ limit \in Nat
      /\ MaxEmpty \in Nat /\ MaxCalls \in Nat /\ MaxAttempts \in Nat
  BY SubagentsAssumption DEF AgentsIInv, RunnerOK, CallOK
<1>2. CASE Prepared(a)
  <2> DEFINE t == [r EXCEPT !.timer = "limit"]
  <2>1. r.at = "setup"
    BY <1>2 DEF Prepared
  <2>2. t \in Runners
    BY <1>1 DEF Runners
  <2>3. /\ t.at = r.at /\ t.turns = r.turns /\ t.empties = r.empties /\ t.replies = r.replies
        /\ t.calls = r.calls /\ t.attempt = r.attempt /\ t.late = r.late
    BY <1>1 DEF Runners
  <2> HIDE DEF t
  <2>4. RunnerOK(t)
    BY <1>1, <2>1, <2>2, <2>3 DEF RunnerOK, Obeys, Paid, Over
  <2>5. RunnerOK(Loop(t)) /\ RunnerOK(Stop(r))
    BY <1>1, <2>1, <2>3, <2>4, LoopKeeps, StopKeeps
  <2> QED BY <1>2, <2>5, GoesKeeps DEF Prepared, t
<1>3. CASE SetupFails(a)
  <2>1. RunnerOK(End(r, "failed"))
    BY <1>1, EndKeeps DEF Over
  <2> QED BY <1>3, <2>1, GoesKeeps DEF SetupFails
<1>4. CASE Turn(a)
  <2>1. RunnerOK(Loop(r))
    BY <1>1, <1>4, LoopKeeps DEF Turn
  <2> QED BY <1>4, <2>1, GoesKeeps DEF Turn
<1>5. CASE Chunk(a)
  <2>1. CASE ShouldAbort(r)
    <3>1. RunnerOK(Stop(r))
      BY <1>1, StopKeeps
    <3> QED BY <1>5, <2>1, <3>1, GoesKeeps DEF Chunk
  <2>2. CASE ~ShouldAbort(r)
    <3>1. PICK kind \in Kinds : Goes(a, [r EXCEPT !.calls = Append(@, [kind |-> kind, attempt |-> r.attempt])])
      BY <1>5, <2>2 DEF Chunk
    <3> DEFINE call == [kind |-> kind, attempt |-> r.attempt]
               q == [r EXCEPT !.calls = Append(@, call)]
    <3>2. call \in Calls /\ r.calls \in Seq(Calls) /\ Len(r.calls) < MaxCalls /\ r.at = "request"
      BY <1>1, <1>5, <2>2 DEF Calls, Runners, Chunk
    <3> HIDE DEF call
    <3>3. Append(r.calls, call) \in Seq(Calls) /\ Len(Append(r.calls, call)) <= MaxCalls
      BY <1>1, <3>2
    <3>4. q \in Runners /\ Len(q.calls) <= MaxCalls
      BY <1>1, <3>3 DEF Runners
    <3>5. /\ q.at = r.at /\ q.turns = r.turns /\ q.empties = r.empties /\ q.replies = r.replies
          /\ q.timer = r.timer /\ q.late = r.late
      BY <1>1 DEF Runners
    <3> HIDE DEF q
    <3>6. RunnerOK(q)
      BY <1>1, <3>2, <3>4, <3>5 DEF RunnerOK, Obeys, Paid, Over
    <3> QED BY <3>1, <3>6, GoesKeeps DEF q, call
  <2> QED BY <2>1, <2>2
<1>6. CASE ReplyEnds(a)
  <2> DEFINE t == [r EXCEPT !.replies = IF limit > 0 THEN @ + 1 ELSE 0]
  <2>1. r.at = "request"
    BY <1>6 DEF ReplyEnds
  <2>2. t.calls = r.calls /\ t.empties = r.empties
    BY <1>1 DEF Runners
  <2>3. /\ r.calls # <<>> => RunnerOK(Work([t EXCEPT !.empties = 0], 1))
        /\ r.empties = MaxEmpty => RunnerOK(End(t, "failed"))
        /\ r.empties # MaxEmpty => RunnerOK([t EXCEPT !.at = "loop", !.empties = @ + 1])
    BY <1>1, <2>1, ReplyKeeps
  <2> QED BY <1>6, <2>2, <2>3, GoesKeeps DEF ReplyEnds
<1>7. CASE StreamFails(a) \/ Again(a)
  <2> DEFINE n == [Begin(r) EXCEPT !.attempt = @ + 1]
             b == [r EXCEPT !.at = "backoff"]
  <2>1. RunnerOK(Stop(r)) /\ RunnerOK(End(r, "failed"))
    BY <1>1, StopKeeps, EndKeeps DEF Over
  <2>2. CASE Again(a)
    <3>1. r.at = "backoff" /\ r.attempt < MaxAttempts
      BY <1>1, <2>2 DEF Again, RunnerOK
    <3>2. RunnerOK(n)
      BY <1>1, <3>1, RetryKeeps
    <3> QED BY <2>2, <3>2, GoesKeeps DEF Again
  <2>3. CASE StreamFails(a)
    <3>1. r.at = "request" /\ (MayRetry(r) => ~abort /\ r.attempt < MaxAttempts)
      BY <2>3 DEF MayRetry, ShouldAbort, StreamFails
    <3>2. MayRetry(r) => RunnerOK(n) /\ RunnerOK(b)
      BY <1>1, <3>1, RetryKeeps
    <3> QED BY <2>1, <2>3, <3>2, GoesKeeps DEF StreamFails
  <2> QED BY <1>7, <2>2, <2>3
<1>8. CASE TimeUp(a) \/ WrapUpOver(a)
  <2>1. PICK reason \in {"time", "late"} :
          Goes(a, [r EXCEPT !.timer = "none", !.aborted = TRUE, !.reason = reason])
    BY <1>8 DEF TimeUp, WrapUpOver
  <2> DEFINE q == [r EXCEPT !.timer = "none", !.aborted = TRUE, !.reason = reason]
  <2>2. q \in Runners
    BY <1>1 DEF Runners
  <2>3. /\ q.at = r.at /\ q.turns = r.turns /\ q.empties = r.empties /\ q.replies = r.replies
        /\ q.calls = r.calls /\ q.attempt = r.attempt /\ q.late = r.late /\ q.timer = "none"
    BY <1>1 DEF Runners
  <2> HIDE DEF q
  <2>4. RunnerOK(q)
    BY <1>1, <2>2, <2>3 DEF RunnerOK, Obeys, Paid
  <2> QED BY <2>1, <2>4, GoesKeeps DEF q
<1> QED BY <1>2, <1>3, <1>4, <1>5, <1>6, <1>7, <1>8

\* A tool has run in a turn that is paid for.
LEMMA ToolStep ==
  ASSUME AgentsIInv, NEW a \in Agents, ToolReturns(a)
  PROVE  AgentsIInv'
<1> DEFINE r == run[a]
<1>1. /\ CallOK /\ RunnerOK(r) /\ r \in Runners /\ r.at = "tool" /\ r.next \in Nat /\ r.next + 1 \in Nat \ {0}
  BY SubagentsAssumption DEF AgentsIInv, RunnerOK, ToolReturns, Runners
<1>2. Len(r.calls) <= MaxCalls /\ Obeys(r)
  BY <1>1 DEF RunnerOK
<1>3. limit > 0 => r.turns < limit /\ r.empties = 0 /\ r.replies <= Budget(r.turns + 1)
  BY <1>1 DEF RunnerOK, Paid
<1>4. RunnerOK(Work(r, r.next + 1))
  BY <1>1, <1>2, <1>3, WorkKeeps
<1> DEFINE q == Work(r, r.next + 1)
<1>5. run' = [b \in Agents |-> IF b = a THEN q ELSE run[b]]
  BY DEF ToolReturns, AgentsIInv
<1> HIDE DEF q
<1>6. CallOK'
  BY <1>1 DEF CallOK, ToolReturns
<1>7. ASSUME NEW b \in Agents PROVE RunnerOK(run[b])'
  <2>1. RunnerOK(run'[b])
    BY <1>4, <1>5 DEF AgentsIInv, q
  <2> QED BY <2>1 DEF RunnerOK, Paid, Obeys, ToolReturns
<1> QED BY <1>5, <1>6, <1>7 DEF AgentsIInv

\* What the task and its handler do.
LEMMA CallStep ==
  ASSUME AgentsIInv, TaskAborts \/ Polled \/ Return \/ (\E a \in Agents : JobEnds(a)) \/ UNCHANGED agentVars
  PROVE  AgentsIInv'
<1>1. CallOK' /\ limit' = limit /\ (abort => abort')
  BY DEF AgentsIInv, CallOK, TaskAborts, Polled, Return, JobEnds, agentVars
<1>2. CASE run' = run
  <2>1. \A a \in Agents : RunnerOK(run[a])'
    BY <1>1, <1>2 DEF AgentsIInv, RunnerOK, Paid, Obeys
  <2> QED BY <1>1, <1>2, <2>1 DEF AgentsIInv
<1>3. CASE Polled
  <2>1. run' = [a \in Agents |-> [run[a] EXCEPT !.aborted = TRUE]] /\ UNCHANGED <<limit, abort>>
    BY <1>3 DEF Polled
  <2>2. ASSUME NEW a \in Agents PROVE RunnerOK(run[a])'
    <3>1. RunnerOK(run[a]) /\ run[a] \in Runners
      BY DEF AgentsIInv, RunnerOK
    <3>2. /\ run'[a] \in Runners /\ run'[a].at = run[a].at /\ run'[a].turns = run[a].turns
          /\ run'[a].empties = run[a].empties /\ run'[a].replies = run[a].replies
          /\ run'[a].calls = run[a].calls /\ run'[a].attempt = run[a].attempt
          /\ run'[a].late = run[a].late /\ run'[a].timer = run[a].timer
      BY <2>1, <3>1 DEF Runners
    <3> QED BY <2>1, <3>1, <3>2 DEF RunnerOK, Paid, Obeys
  <2>3. run' = [a \in Agents |-> run'[a]]
    BY <2>1
  <2> QED BY <1>1, <2>2, <2>3 DEF AgentsIInv
<1> QED BY <1>2, <1>3 DEF TaskAborts, Return, JobEnds, agentVars

LEMMA InitAgentsIInv == AgentsInit => AgentsIInv
<1> SUFFICES ASSUME AgentsInit PROVE AgentsIInv
  OBVIOUS
<1>1. /\ limit \in Nat /\ MaxTurns \in Nat /\ MaxEmpty \in Nat /\ MaxCalls \in Nat /\ MaxAttempts \in Nat \ {0}
  BY SubagentsAssumption DEF AgentsInit
<1>2. /\ 0 \in 0..MaxTurns /\ 0 \in 0..MaxEmpty /\ 0 \in 0..MaxCalls /\ 1 \in 1..MaxAttempts
      /\ <<>> \in Seq(Calls) /\ Len(<<>>) <= MaxCalls /\ 0 \in Nat
  BY <1>1
<1>3. Fresh \in Runners
  BY <1>2 DEF Fresh, Runners, Places
<1>4. /\ Fresh.at = "setup" /\ Fresh.turns = 0 /\ Fresh.empties = 0 /\ Fresh.replies = 0
      /\ Fresh.calls = <<>> /\ Fresh.late = 0
  BY DEF Fresh
<1>5. limit > 0 => Paid(Fresh)
  <2>1. Budget(0) \in Nat
    BY BudgetGrows
  <2> QED BY <1>1, <1>4, <2>1 DEF Paid, Over
<1>6. RunnerOK(Fresh)
  BY <1>2, <1>3, <1>4, <1>5 DEF RunnerOK, Obeys, Over
<1> QED BY <1>6 DEF AgentsInit, AgentsIInv, CallOK

LEMMA AgentsIInvHolds == AgentsSpec => []AgentsIInv
<1>1. ASSUME AgentsIInv, [AgentsNext]_agentVars PROVE AgentsIInv'
  BY <1>1, RunnerStep, ToolStep, CallStep DEF AgentsNext
<1> QED BY <1>1, InitAgentsIInv, PTL DEF AgentsSpec

\* The runners and what the handler keeps have their types: no timer, count or call
\* outside of what SubagentRunner.ts keeps.
THEOREM AgentsTypeCorrect == AgentsSpec => []AgentsTypeOK
<1>1. AgentsIInv => AgentsTypeOK
  BY DEF AgentsIInv, CallOK, RunnerOK, AgentsTypeOK
<1> QED BY <1>1, AgentsIInvHolds, PTL

\* SubagentRunner.ts: after the abort of the task a runner begins one request at most,
\* the one that a delay of a retry ends in.
THEOREM AbortEndsRequests == AgentsSpec => []AbortedAsksOnceMore
<1>1. AgentsIInv => AbortedAsksOnceMore
  <2>1. ASSUME NEW r, RunnerOK(r) PROVE r.late <= 1
    <3>1. r \in Runners /\ Obeys(r)
      BY <2>1 DEF RunnerOK
    <3>2. r.late \in Nat
      BY <3>1 DEF Runners
    <3> QED BY <3>1, <3>2 DEF Obeys
  <2> QED BY <2>1 DEF AgentsIInv, AbortedAsksOnceMore
<1> QED BY <1>1, AgentsIInvHolds, PTL

\* SubagentRunner.ts: max_turns turns have max_turns times MAX_EMPTY_ASSISTANT_RETRIES + 1
\* replies at most, whatever the replies hold and however often a stream fails.
THEOREM RepliesAreBounded == AgentsSpec => []TurnsAreBounded
<1>1. AgentsIInv => TurnsAreBounded
  BY WithinBudget DEF AgentsIInv, TurnsAreBounded, Budget
<1> QED BY <1>1, AgentsIInvHolds, PTL

=============================================================================

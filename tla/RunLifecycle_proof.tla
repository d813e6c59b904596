------------------------- MODULE RunLifecycle_proof -------------------------
(***************************************************************************)
(* Theorems about RunLifecycle for every set of requests and every bound   *)
(* on faults and restarts: first what holds whatever fails, then what a    *)
(* run keeps as long as none of its statements has failed.                 *)
(***************************************************************************)
EXTENDS RunLifecycle, TLAPS

\* The row is inserted once, by the worker that has not started yet.
FreshRun == pc[worker] = "create" => row.status = "absent"

IInv == ApprovalInv /\ FreshRun

\* What one step may not do to a cancelled row.
CancelledKept == row.status = "cancelled" => row'.status = "cancelled"

\* How a step of process p to program point `next` may move the control state
\* the invariant speaks of.
Flow(p, next) ==
    /\ next # "create"
    /\ p = worker /\ pc[p] \in WorkerAfterWaiting => next \in WorkerAfterWaiting
    /\ p \in Approvers /\ next \in BeforeExecution =>
           pc[p] \in BeforeExecution /\ approves[p]

\* How it may move the row.
RowFlow(p, next) ==
    /\ CancelledKept
    /\ row.status = "absent" => row' = row \/ (p = worker /\ pc[p] = "create")
    /\ row'.status = "waiting_for_approval" =>
           \/ row.status = "waiting_for_approval"
           \/ p = worker /\ pc[p] \notin WorkerAfterWaiting
              /\ next \in WorkerAfterWaiting

\* A step that respects Flow and RowFlow, decides nothing and executes nothing
\* keeps the invariant.
LEMMA QuietStep ==
    ASSUME IInv, TypeOK', NEW p \in Processes, NEW next \in ProgramPoints,
           pc' = [pc EXCEPT ![p] = next],
           \A q \in Processes : q # p => st'[q] = st[q],
           st'[p].status = "waiting_for_approval" => next \in WaitingPoints(p),
           Flow(p, next), RowFlow(p, next),
           UNCHANGED <<approves, decision, executions>>
    PROVE  IInv' /\ CancelledKept
<1>1. /\ TypeOK /\ worker \in Processes
      /\ \A q \in Processes : pc'[q] = IF q = p THEN next ELSE pc[q]
  BY DEF IInv, ApprovalInv, TypeOK, Processes
<1>2. WaitingIsWrittenOnce'
  <2>1. \A q \in Processes :
            st'[q].status = "waiting_for_approval" => pc'[q] \in WaitingPoints(q)
    BY <1>1 DEF IInv, ApprovalInv, WaitingIsWrittenOnce
  <2>2. row'.status = "waiting_for_approval" => pc'[worker] \in WorkerAfterWaiting
    BY <1>1 DEF IInv, ApprovalInv, WaitingIsWrittenOnce, Flow, RowFlow
  <2> QED BY <2>1, <2>2 DEF WaitingIsWrittenOnce, WaitingPoints
<1>3. ClaimIsExclusive'
  <2>1. decision # "none" => /\ pc'[worker] \in WorkerAfterWaiting
                             /\ row'.status # "waiting_for_approval"
    BY <1>1 DEF IInv, ApprovalInv, ClaimIsExclusive, Flow, RowFlow
  <2>2. \A a \in Approvers : pc'[a] \in BeforeExecution =>
            pc[a] \in BeforeExecution /\ (pc'[a] = pc[a] \/ approves[a])
    BY <1>1 DEF Flow, Processes
  <2> QED BY <2>1, <2>2 DEF IInv, ApprovalInv, ClaimIsExclusive
<1>4. ApprovedSqlRunsAtMostOnce'
  BY DEF IInv, ApprovalInv, ApprovedSqlRunsAtMostOnce
<1>5. FreshRun'
  BY <1>1 DEF IInv, FreshRun, Flow, RowFlow
<1> QED BY <1>2, <1>3, <1>4, <1>5 DEF IInv, ApprovalInv, RowFlow

-----------------------------------------------------------------------------
(* One lemma per statement of AgentRunStore: given where the process goes, *)
(* the statement keeps the types and the invariant.                        *)

Points == {p \in ProgramPoints : p # "create"}

LEMMA PointsOfPrograms ==
    /\ Points \subseteq ProgramPoints
    /\ WorkerTry \subseteq Points /\ ApproverTry \subseteq Points
    /\ BeforeExecution \subseteq Points /\ Failing \subseteq Points
    /\ Cancelling \subseteq Points /\ Rejecting \subseteq Points
    /\ Stopped \subseteq Points
    /\ {"ckpt_created", "save_planning", "ckpt_plan", "claim", "load",
        "signal", "idle", "refused"} \subseteq Points
  BY DEF Points, ProgramPoints, WorkerTry, WorkerTail, ApproverTry,
         BeforeExecution, Failing, Cancelling, Rejecting, Stopped, Unstarted

\* Assigning one field of a process's state keeps the state's type.
LEMMA BecomeType ==
    ASSUME st \in [Processes -> AgentState], NEW p \in Processes,
           NEW status \in RowStatuses, Become(p, status)
    PROVE  /\ st' \in [Processes -> AgentState]
           /\ st'[p].status = status
           /\ \A q \in Processes : q # p => st'[q] = st[q]
  BY DEF Become, AgentState

LEMMA CheckpointKeeps ==
    ASSUME IInv, NEW p \in Processes, NEW here, NEW next \in Points,
           NEW status \in RowStatuses, Checkpoint(p, here, next, status),
           Flow(p, next),
           status = "waiting_for_approval" => next \in WaitingPoints(p)
    PROVE  IInv' /\ CancelledKept
<1>1. TypeOK' /\ st'[p].status = status
              /\ \A q \in Processes : q # p => st'[q] = st[q]
  BY BecomeType DEF IInv, ApprovalInv, TypeOK, Checkpoint, Goto, Others,
                    history, budgets, Points
<1>2. RowFlow(p, next)
  BY DEF Checkpoint, RowFlow, CancelledKept
<1> QED
  BY <1>1, <1>2, QuietStep DEF Checkpoint, Goto, Others, history, Points

LEMMA RecordEventKeeps ==
    ASSUME IInv, NEW p \in Processes, NEW here, NEW next \in Points,
           NEW event \in EventType, NEW status \in RowStatuses,
           RecordEvent(p, here, event, next, status), Flow(p, next),
           status = "waiting_for_approval" => next \in WaitingPoints(p)
    PROVE  IInv' /\ CancelledKept
<1>1. TypeOK' /\ st'[p].status = status
              /\ \A q \in Processes : q # p => st'[q] = st[q]
  BY BecomeType DEF IInv, ApprovalInv, TypeOK, RecordEvent, Goto, Others,
                    history, budgets, Points
<1>2. RowFlow(p, next)
  BY DEF RecordEvent, RowFlow, CancelledKept
<1> QED
  BY <1>1, <1>2, QuietStep DEF RecordEvent, Goto, Others, history, Points

\* A raised exception leaves the process failing or stopped.
LEMMA ThrowType ==
    ASSUME TypeOK, NEW p \in Processes, Throw(p)
    PROVE  /\ st' \in [Processes -> AgentState]
           /\ \A q \in Processes : q # p => st'[q] = st[q]
           /\ \E next \in {"raised", "fail_finish", "fail_save"} :
                 /\ pc' = [pc EXCEPT ![p] = next]
                 /\ st'[p].status = "waiting_for_approval" => next = "raised"
<1>1. CASE UNCHANGED st /\ pc' = [pc EXCEPT ![p] = "raised"]
  BY <1>1 DEF TypeOK
<1>2. CASE /\ Become(p, "failed")
           /\ \/ pc' = [pc EXCEPT ![p] = "fail_finish"]
              \/ pc' = [pc EXCEPT ![p] = "fail_save"]
  <2>1. "failed" \in RowStatuses BY DEF RowStatuses, RunStatuses
  <2>2. /\ st' \in [Processes -> AgentState] /\ st'[p].status = "failed"
        /\ \A q \in Processes : q # p => st'[q] = st[q]
    BY <1>2, <2>1, BecomeType DEF TypeOK
  <2> QED BY <1>2, <2>2
<1> QED BY <1>1, <1>2 DEF Throw, Goto

LEMMA ThrowKeeps ==
    ASSUME IInv, NEW p \in Processes, Throw(p),
           UNCHANGED <<row, ckpt, steps, log, stepId, approves, flag, decision>>,
           executions' = executions,
           faults' \in 0..MaxFaults, UNCHANGED crashes
    PROVE  IInv' /\ CancelledKept
<1>1. PICK next \in {"raised", "fail_finish", "fail_save"} :
          /\ pc' = [pc EXCEPT ![p] = next]
          /\ st'[p].status = "waiting_for_approval" => next = "raised"
  BY ThrowType DEF IInv, ApprovalInv
<1>2. /\ st' \in [Processes -> AgentState]
      /\ \A q \in Processes : q # p => st'[q] = st[q]
  BY ThrowType DEF IInv, ApprovalInv
<1>3. next \in Points
  BY DEF Points, ProgramPoints, Failing, Stopped
<1>4. TypeOK'
  BY <1>1, <1>2, <1>3 DEF IInv, ApprovalInv, TypeOK, Points
<1>5. Flow(p, next) /\ RowFlow(p, next)
  BY DEF Flow, RowFlow, CancelledKept, WorkerAfterWaiting, Failing, Stopped,
         BeforeExecution
<1> QED
  BY <1>1, <1>2, <1>3, <1>4, <1>5, QuietStep DEF Points, WaitingPoints, Stopped

\* Only a save that starts a waiting period may write a waiting state.
LEMMA SaveKeeps ==
    ASSUME IInv, NEW p \in Processes, NEW here, NEW next \in Points,
           NEW status \in RowStatuses, NEW assigned \in BOOLEAN,
           SaveState(p, here, next, status, assigned), Flow(p, next),
           status = "waiting_for_approval" => next \in WaitingPoints(p),
           here \in WaitingPoints(p) =>
               /\ p = worker /\ here \notin WorkerAfterWaiting
               /\ next \in WorkerAfterWaiting
    PROVE  IInv' /\ CancelledKept
<1>1. CASE CanSave(st[p])
  <2>1. /\ row' = st[p] /\ Goto(p, next) /\ Become(p, status)
        /\ stepId' = [stepId EXCEPT ![p] = assigned]
        /\ pc[p] = here
        /\ UNCHANGED <<ckpt, steps, log, approves, flag, decision, executions,
                       faults, crashes>>
    BY <1>1 DEF SaveState, Others, history, budgets
  <2>2. TypeOK' /\ st'[p].status = status
                /\ \A q \in Processes : q # p => st'[q] = st[q]
    BY <2>1, BecomeType DEF IInv, ApprovalInv, TypeOK, Goto, Points
  <2>3. RowFlow(p, next)
    BY <1>1, <2>1 DEF IInv, ApprovalInv, WaitingIsWrittenOnce, RowFlow,
                      CancelledKept, CanSave
  <2> QED
    BY <2>1, <2>2, <2>3, QuietStep DEF Goto, Points
<1>2. CASE ~CanSave(st[p])
  BY <1>2, ThrowKeeps DEF SaveState, Others, history, budgets, IInv, ApprovalInv,
                          TypeOK
<1> QED BY <1>1, <1>2

LEMMA StartStepKeeps ==
    ASSUME IInv, NEW p \in Processes, NEW here, NEW next \in Points,
           StartStep(p, here, next), Flow(p, next)
    PROVE  IInv' /\ CancelledKept
<1>1. /\ st' \in [Processes -> AgentState]
      /\ st'[p].status = "running"
      /\ \A q \in Processes : q # p => st'[q] = st[q]
  BY DEF IInv, ApprovalInv, TypeOK, StartStep, AgentState, RowStatuses,
         RunStatuses
<1>2. steps' \in [StepType -> StepStatus]
  BY DEF IInv, ApprovalInv, TypeOK, StartStep, StepType, StepStatus, StepOf
<1>3. TypeOK'
  BY <1>1, <1>2 DEF IInv, ApprovalInv, TypeOK, StartStep, Goto, Others,
                    history, budgets, Points
<1>4. RowFlow(p, next)
  BY DEF StartStep, RowFlow, CancelledKept
<1> QED
  BY <1>1, <1>3, <1>4, QuietStep DEF StartStep, Goto, Others, history, Points

LEMMA FinishStepKeeps ==
    ASSUME IInv, NEW p \in Processes, NEW here, NEW next \in Points,
           NEW outcome \in StepStatus,
           FinishStep(p, here, outcome, next), Flow(p, next),
           here \in WaitingPoints(p) => next \in WaitingPoints(p)
    PROVE  IInv' /\ CancelledKept
<1>1. steps' \in [StepType -> StepStatus]
  BY DEF IInv, ApprovalInv, TypeOK, FinishStep, StepType, StepStatus, StepOf
<1>2. TypeOK'
  BY <1>1 DEF IInv, ApprovalInv, TypeOK, FinishStep, Goto, Others,
              history, budgets, Points
<1>3. RowFlow(p, next)
  BY DEF FinishStep, RowFlow, CancelledKept
<1>4. st'[p].status = "waiting_for_approval" => next \in WaitingPoints(p)
  BY DEF IInv, ApprovalInv, WaitingIsWrittenOnce, FinishStep
<1> QED
  BY <1>2, <1>3, <1>4, QuietStep DEF FinishStep, Goto, Others, history, Points

-----------------------------------------------------------------------------
(* The programs, one step per call site.                                   *)

\* Assigned statuses are statuses.
LEMMA StatusNames ==
    {"absent", "created", "planning", "running", "waiting_for_approval",
     "verifying", "completed", "failed", "cancelled"} = RowStatuses
  BY DEF RowStatuses, RunStatuses

LEMMA AnswerKeeps == IInv /\ Answer => IInv' /\ CancelledKept
<1> SUFFICES ASSUME IInv, Answer PROVE IInv' /\ CancelledKept
  OBVIOUS
<1> USE StatusNames, PointsOfPrograms
<1>t. TypeOK /\ worker \in Processes /\ worker \notin Approvers
      /\ stepId[worker] \in BOOLEAN /\ st[worker] \in AgentState
      /\ st[worker].status \in RowStatuses
  BY ActorsAreDistinct DEF IInv, ApprovalInv, TypeOK, Processes, AgentState
<1>1. CASE Create
  <2>1. TypeOK'
    BY <1>1, <1>t DEF Create, TypeOK, Goto, Others, history, budgets, Points
  <2>2. Flow(worker, "ckpt_created") /\ RowFlow(worker, "ckpt_created")
    BY <1>1, <1>t DEF Create, Flow, RowFlow, CancelledKept, WorkerAfterWaiting,
         WorkerTail, Failing, Stopped, IInv, FreshRun, ApprovalInv, WaitingIsWrittenOnce,
         WaitingPoints
  <2>3. st'[worker].status # "waiting_for_approval"
    BY <1>1, <1>t DEF Create, IInv, ApprovalInv, WaitingIsWrittenOnce,
         WaitingPoints, Stopped
  <2> QED
    BY <1>1, <1>t, <2>1, <2>2, <2>3, QuietStep
       DEF Create, Goto, Others, history, Points
<1>2. CASE CheckpointCreated
  <2>1. Flow(worker, "save_planning")
    BY <1>2, <1>t DEF CheckpointCreated, Checkpoint, Flow, WorkerAfterWaiting,
                      WorkerTail, Failing, Stopped
  <2> QED BY <1>2, <1>t, <2>1, CheckpointKeeps DEF CheckpointCreated
<1>3. CASE SavePlanning
  <2>1. Flow(worker, "ckpt_plan")
    BY <1>3, <1>t DEF SavePlanning, Save, SaveState, Flow, WorkerAfterWaiting,
                      WorkerTail, Failing, Stopped
  <2> QED
    BY <1>3, <1>t, <2>1, SaveKeeps DEF SavePlanning, Save, WaitingPoints, Stopped
<1>4. CASE CheckpointPlan
  <2>1. Flow(worker, "start")
    BY <1>4, <1>t DEF CheckpointPlan, Checkpoint, Flow, WorkerAfterWaiting,
                      WorkerTail, Failing, Stopped
  <2> QED
    BY <1>4, <1>t, <2>1, CheckpointKeeps DEF CheckpointPlan, WorkerTry
<1>5. ASSUME NEW here \in {"start", "workflow", "verify", "save_final"},
             Interrupt(here)
      PROVE  IInv' /\ CancelledKept
  <2>1. TypeOK'
    BY <1>5, <1>t DEF Interrupt, TypeOK, Goto, durable, Others, history,
                      budgets, Points, Cancelling
  <2>2. Flow(worker, "interrupted") /\ RowFlow(worker, "interrupted")
    BY <1>5, <1>t DEF Interrupt, Flow, RowFlow, CancelledKept, durable,
                      WorkerAfterWaiting,
                       WorkerTail, Failing, Stopped
  <2> QED
    BY <1>5, <1>t, <2>1, <2>2, QuietStep
       DEF Interrupt, Goto, durable, Others, history, Points, Cancelling,
           WaitingPoints
<1>6. CASE StartWorkflow
  <2>1. Flow(worker, "save_running")
    BY <1>6, <1>t DEF StartWorkflow, StartStep, Flow, WorkerAfterWaiting,
                      WorkerTail, Failing, Stopped
  <2> QED
    BY <1>6, <1>t, <2>1, StartStepKeeps DEF StartWorkflow, WorkerTry
<1>7. CASE SaveRunning
  <2>1. Flow(worker, "ckpt_started")
    BY <1>7, <1>t DEF SaveRunning, SaveState, Flow, WorkerAfterWaiting,
                      WorkerTail, Failing, Stopped
  <2> QED
    BY <1>7, <1>t, <2>1, SaveKeeps
       DEF SaveRunning, WaitingPoints, Stopped, WorkerTry
<1>8. CASE CheckpointStarted
  <2>1. Flow(worker, "workflow")
    BY <1>8, <1>t DEF CheckpointStarted, Checkpoint, Flow, WorkerAfterWaiting,
                      WorkerTail, Failing, Stopped
  <2> QED
    BY <1>8, <1>t, <2>1, CheckpointKeeps DEF CheckpointStarted, WorkerTry
<1>9. CASE WorkflowFails \/ VerificationFails
  BY <1>9, <1>t, ThrowKeeps
     DEF WorkflowFails, VerificationFails, durable, Others, history, budgets,
         TypeOK
<1>10. CASE WorkflowAnswers \/ VerificationPasses
  <2>1. PICK next \in {"save_verifying", "finish"},
             status \in {"verifying", "completed"} :
          /\ Goto(worker, next) /\ Become(worker, status)
          /\ pc[worker] \in {"workflow", "verify"}
          /\ UNCHANGED <<durable, stepId, Others>>
    BY <1>10 DEF WorkflowAnswers, VerificationPasses
  <2>2. /\ st' \in [Processes -> AgentState]
        /\ st'[worker].status = status
        /\ \A q \in Processes : q # worker => st'[q] = st[q]
    BY <2>1, <1>t, BecomeType DEF TypeOK
  <2>3. TypeOK'
    BY <2>1, <2>2, <1>t DEF TypeOK, Goto, durable, Others, history, budgets,
                            Points, WorkerTry
  <2>4. Flow(worker, next) /\ RowFlow(worker, next)
    BY <2>1, <1>t DEF Flow, RowFlow, CancelledKept, durable,
                      WorkerAfterWaiting,
                       WorkerTail, Failing, Stopped
  <2> QED
    BY <2>1, <2>2, <2>3, <2>4, <1>t, QuietStep
       DEF Goto, durable, Others, history, Points, WorkerTry
<1>11. ASSUME NEW roles \in RoleSets, WorkflowDrafts(roles)
       PROVE  IInv' /\ CancelledKept
  <2>1. /\ st' \in [Processes -> AgentState]
        /\ \A q \in Processes : q # worker => st'[q] = st[q]
    BY <1>11, <1>t DEF WorkflowDrafts, TypeOK, AgentState, ApprovalStatus
  <2>2. TypeOK'
    BY <1>11, <2>1, <1>t DEF WorkflowDrafts, TypeOK, Goto, durable, Others,
                             history, budgets, Points, WorkerTry
  <2>3. Flow(worker, "finish") /\ RowFlow(worker, "finish")
    BY <1>11, <1>t DEF WorkflowDrafts, Flow, RowFlow, CancelledKept, durable,
                       WorkerAfterWaiting,
                       WorkerTail, Failing, Stopped
  <2> QED
    BY <1>11, <2>1, <2>2, <2>3, <1>t, QuietStep
       DEF WorkflowDrafts, Goto, durable, Others, history, Points, WorkerTry,
           WaitingPoints
<1>12. CASE SaveVerifying
  <2>1. Flow(worker, "ckpt_verifying")
    BY <1>12, <1>t DEF SaveVerifying, Save, SaveState, Flow,
                       WorkerAfterWaiting,
                       WorkerTail, Failing, Stopped
  <2> QED
    BY <1>12, <1>t, <2>1, SaveKeeps
       DEF SaveVerifying, Save, WaitingPoints, Stopped, WorkerTry
<1>13. CASE CheckpointVerifying
  <2>1. Flow(worker, "verify")
    BY <1>13, <1>t DEF CheckpointVerifying, Checkpoint, Flow,
                       WorkerAfterWaiting,
                       WorkerTail, Failing, Stopped
  <2> QED
    BY <1>13, <1>t, <2>1, CheckpointKeeps DEF CheckpointVerifying, WorkerTry
<1>14. CASE FinishWorkflow
  <2>1. Flow(worker, "save_final")
    BY <1>14, <1>t DEF FinishWorkflow, FinishStep, Flow, WorkerAfterWaiting,
                       WorkerTail, Failing, Stopped
  <2> QED
    BY <1>14, <1>t, <2>1, FinishStepKeeps
       DEF FinishWorkflow, WorkerTry, StepStatus, WaitingPoints
<1>15. CASE SaveFinal
  <2>1. Flow(worker, "ckpt_step")
    BY <1>15, <1>t DEF SaveFinal, Save, SaveState, Flow, WorkerAfterWaiting,
                       WorkerTail, Failing, Stopped
  <2> QED
    BY <1>15, <1>t, <2>1, SaveKeeps
       DEF SaveFinal, Save, WaitingPoints, Stopped, Failing, WorkerTry,
           WorkerTail, WorkerAfterWaiting
<1>16. CASE CheckpointStep
  <2>1. Flow(worker, "ckpt_final")
    BY <1>16, <1>t DEF CheckpointStep, Checkpoint, Flow, WorkerAfterWaiting,
                       WorkerTail
  <2> QED
    BY <1>16, <1>t, <2>1, CheckpointKeeps
       DEF CheckpointStep, WorkerTry, WorkerTail, WaitingPoints
<1>17. CASE CheckpointFinal
  <2> DEFINE next == IF st[worker].status = "completed"
                     THEN "event_completed" ELSE "done"
  <2>1. next \in Points /\ next \in WorkerAfterWaiting /\ next # "create"
    BY DEF WorkerTry, WorkerTail, WorkerAfterWaiting, Stopped
  <2>2. Flow(worker, next)
    BY <2>1, <1>t DEF Flow
  <2>3. Checkpoint(worker, "ckpt_final", next, st[worker].status)
    BY <1>17 DEF CheckpointFinal
  <2>4. st[worker].status = "waiting_for_approval" => next \in WaitingPoints(worker)
    BY DEF WaitingPoints, Stopped
  <2> HIDE DEF next
  <2> QED BY <2>1, <2>2, <2>3, <2>4, <1>t, CheckpointKeeps
<1>18. CASE EventCompleted
  <2>1. Flow(worker, "done")
    BY <1>t DEF Flow, WorkerAfterWaiting, Stopped
  <2> QED
    BY <1>18, <1>t, <2>1, RecordEventKeeps
       DEF EventCompleted, EventType, WaitingPoints, Stopped
<1> QED
  BY <1>1, <1>2, <1>3, <1>4, <1>5, <1>6, <1>7, <1>8, <1>9, <1>10, <1>11,
     <1>12, <1>13, <1>14, <1>15, <1>16, <1>17, <1>18 DEF Answer

LEMMA FailKeeps ==
    ASSUME IInv, NEW p \in Processes, Fail(p)
    PROVE  IInv' /\ CancelledKept
<1> USE StatusNames, PointsOfPrograms
<1>1. \A next \in Failing \cup {"raised"} : next \in Points /\ Flow(p, next)
  BY DEF Flow, WorkerAfterWaiting, Failing, Stopped, BeforeExecution
<1>2. CASE FailFinish(p)
  BY <1>1, <1>2, FinishStepKeeps
     DEF FailFinish, StepStatus, WaitingPoints, Stopped, Failing
<1>3. CASE FailSave(p)
  BY <1>1, <1>3, SaveKeeps
     DEF FailSave, Save, WaitingPoints, Stopped, Failing, IInv, ApprovalInv,
         TypeOK
<1>4. CASE FailEvent(p)
  BY <1>1, <1>4, RecordEventKeeps DEF FailEvent, EventType, Failing
<1>5. CASE FailCheckpoint(p)
  BY <1>1, <1>5, CheckpointKeeps DEF FailCheckpoint
<1> QED BY <1>2, <1>3, <1>4, <1>5 DEF Fail

LEMMA InterruptedKeeps == IInv /\ Interrupted => IInv' /\ CancelledKept
<1> SUFFICES ASSUME IInv, Interrupted PROVE IInv' /\ CancelledKept
  OBVIOUS
<1> USE StatusNames, PointsOfPrograms
<1>t. TypeOK /\ worker \in Processes /\ worker \notin Approvers
      /\ stepId[worker] \in BOOLEAN
  BY ActorsAreDistinct DEF IInv, ApprovalInv, TypeOK, Processes
<1>1. CASE LoadInterrupted
  <2>1. PICK next \in {"claim_cancel", "late_finish", "late_save"} :
          Goto(worker, next)
    BY <1>1 DEF LoadInterrupted
  <2>2. TypeOK'
    BY <1>1, <2>1, <1>t
       DEF LoadInterrupted, TypeOK, Goto, durable, Others, history, budgets,
           Points, Cancelling
  <2>3. st'[worker].status # "waiting_for_approval"
    BY <1>1, <1>t DEF LoadInterrupted, TypeOK, IInv, ApprovalInv,
         WaitingIsWrittenOnce, WorkerAfterWaiting, WorkerTail, Failing, Stopped
  <2>4. Flow(worker, next) /\ RowFlow(worker, next)
    BY <1>1, <2>1, <1>t
       DEF LoadInterrupted, Flow, RowFlow, CancelledKept, durable,
           WorkerAfterWaiting, WorkerTail, Failing, Stopped
  <2>5. \A q \in Processes : q # worker => st'[q] = st[q]
    BY <1>1, <1>t DEF LoadInterrupted, TypeOK
  <2> QED
    BY <1>1, <2>1, <2>2, <2>3, <2>4, <2>5, <1>t, QuietStep
       DEF LoadInterrupted, Goto, durable, Others, history, Points, Cancelling
<1>2. CASE LateFinish
  <2>1. Flow(worker, "late_save")
    BY <1>2, <1>t DEF LateFinish, FinishStep, Flow, WorkerAfterWaiting,
                      WorkerTail, Failing, Stopped
  <2> QED
    BY <1>2, <2>1, <1>t, FinishStepKeeps
       DEF LateFinish, StepStatus, WaitingPoints, Stopped, Cancelling
<1>3. CASE LateSave
  <2>1. Flow(worker, "raised")
    BY <1>t DEF Flow, WorkerAfterWaiting, Stopped
  <2> QED
    BY <1>3, <2>1, <1>t, SaveKeeps
       DEF LateSave, Save, WaitingPoints, Stopped
<1> QED BY <1>1, <1>2, <1>3 DEF Interrupted

LEMMA CancelKeeps ==
    ASSUME IInv, NEW p \in {worker} \cup Cancellers, Cancel(p)
    PROVE  IInv' /\ CancelledKept
<1> USE StatusNames, PointsOfPrograms
<1>t. TypeOK /\ p \in Processes /\ p \notin Approvers
      /\ stepId[p] \in BOOLEAN
  BY ActorsAreDistinct DEF IInv, ApprovalInv, TypeOK, Processes
<1>f. /\ \A next \in Cancelling \cup {"signal", "refused"} :
             pc[p] \notin WorkerAfterWaiting => Flow(p, next)
      /\ Flow(p, "raised")
      /\ Cancelling \cap WorkerAfterWaiting = {}
  BY <1>t DEF Flow, WorkerAfterWaiting, WorkerTail, Failing, Stopped, Cancelling
<1>1. CASE ClaimCancellation(p) /\ ClaimableCancellation
  <2>1. PICK next \in {"cancel_finish", "cancel_save"} : Goto(p, next)
    BY <1>1, <1>t DEF ClaimCancellation
  <2>2. /\ row' \in AgentState /\ row'.status = "cancelled"
        /\ row.status # "absent"
    BY <1>1, <1>t DEF ClaimCancellation, ClaimableCancellation, TypeOK,
                      AgentState
  <2>3. /\ st' \in [Processes -> AgentState]
        /\ st'[p].status = "cancelled"
        /\ \A q \in Processes : q # p => st'[q] = st[q]
    <3>1. MarkedCancelled(p) \in AgentState
          /\ MarkedCancelled(p).status = "cancelled"
      BY <1>t DEF MarkedCancelled, TypeOK, AgentState, ApprovalStatus
    <3>2. st' = [st EXCEPT ![p] = MarkedCancelled(p)]
      BY <1>1 DEF ClaimCancellation
    <3> HIDE DEF MarkedCancelled
    <3> QED BY <3>1, <3>2, <1>t DEF TypeOK
  <2>4. TypeOK'
    BY <1>1, <2>1, <2>2, <2>3, <1>t
       DEF ClaimCancellation, TypeOK, Goto, Others, history, budgets, Points,
           Cancelling
  <2>5. Flow(p, next) /\ RowFlow(p, next)
    BY <1>1, <1>f, <2>1, <2>2, <1>t
       DEF ClaimCancellation, RowFlow, CancelledKept, Cancelling
  <2> QED
    BY <1>1, <2>1, <2>3, <2>4, <2>5, <1>t, QuietStep
       DEF ClaimCancellation, Goto, Others, history, Points, Cancelling
<1>2. CASE ClaimCancellation(p) /\ ~ClaimableCancellation
  <2>1. PICK next \in {"raised", "refused"} :
          Goto(p, next) /\ (p = worker <=> next = "raised")
    BY <1>2, <1>t DEF ClaimCancellation
  <2>2. TypeOK'
    BY <1>2, <2>1, <1>t
       DEF ClaimCancellation, TypeOK, Goto, Others, history, budgets, Points,
           Stopped
  <2>3. Flow(p, next) /\ RowFlow(p, next)
    BY <1>2, <1>f, <2>1, <1>t
       DEF ClaimCancellation, RowFlow, CancelledKept, Cancelling
  <2>4. next \in WaitingPoints(p)
    BY <2>1 DEF WaitingPoints, Stopped
  <2> QED
    BY <1>2, <2>1, <2>2, <2>3, <2>4, <1>t, QuietStep
       DEF ClaimCancellation, Goto, Others, history, Points, Stopped
<1>3. CASE CancelFinish(p)
  <2>1. Flow(p, "cancel_save")
    BY <1>3, <1>f DEF CancelFinish, FinishStep, Cancelling
  <2> QED
    BY <1>3, <2>1, <1>t, FinishStepKeeps
       DEF CancelFinish, StepStatus, WaitingPoints, Stopped, Cancelling
<1>4. CASE CancelSave(p)
  <2>1. Flow(p, "cancel_event")
    BY <1>4, <1>f DEF CancelSave, Save, SaveState, Cancelling
  <2> QED
    BY <1>4, <2>1, <1>t, SaveKeeps
       DEF CancelSave, Save, WaitingPoints, Stopped, Cancelling
<1>5. CASE CancelEvent(p)
  <2>1. Flow(p, "cancel_ckpt")
    BY <1>5, <1>f DEF CancelEvent, RecordEvent, Cancelling
  <2>2. PICK event \in EventType :
          RecordEvent(p, "cancel_event", event, "cancel_ckpt", "cancelled")
    BY <1>5 DEF CancelEvent, EventType
  <2> QED
    BY <2>1, <2>2, <1>t, RecordEventKeeps DEF Cancelling
<1>6. CASE CancelCheckpoint(p)
  <2>1. PICK next \in {"raised", "signal"} :
          Checkpoint(p, "cancel_ckpt", next, "cancelled")
    BY <1>6 DEF CancelCheckpoint
  <2>2. Flow(p, next)
    BY <1>f, <2>1 DEF Checkpoint, Cancelling
  <2> QED
    BY <2>1, <2>2, <1>t, CheckpointKeeps DEF Stopped
<1> QED BY <1>1, <1>2, <1>3, <1>4, <1>5, <1>6 DEF Cancel

LEMMA RequestCancellationKeeps ==
    ASSUME IInv, NEW c \in Cancellers,
           \/ RequestCancellation(c) \/ Disconnect(c)
           \/ LoadForCancellation(c) \/ Signal(c)
    PROVE  IInv' /\ CancelledKept
<1> USE PointsOfPrograms
<1>t. /\ TypeOK /\ c \in Processes /\ c \notin Approvers /\ c # worker
      /\ \A next \in {"load", "claim_cancel", "refused", "done"} :
             Flow(c, next) /\ next \in WaitingPoints(c) /\ next \in Points
  BY ActorsAreDistinct
     DEF IInv, ApprovalInv, TypeOK, Processes, Flow, WaitingPoints, Stopped,
         Cancelling
<1>1. PICK next \in {"load", "claim_cancel", "refused", "done"} : Goto(c, next)
  BY DEF RequestCancellation, Disconnect, LoadForCancellation, Signal
<1>2. /\ st' \in [Processes -> AgentState]
      /\ \A q \in Processes : q # c => st'[q] = st[q]
  BY <1>t DEF RequestCancellation, Disconnect, LoadForCancellation, Signal,
              TypeOK
<1>3. flag' \in BOOLEAN
  BY <1>t, StreamedIsBoolean
     DEF RequestCancellation, Disconnect, LoadForCancellation, Signal, TypeOK,
         Others, Registered
<1>4. UNCHANGED <<durable, stepId, approves, history, budgets>>
  BY DEF RequestCancellation, Disconnect, LoadForCancellation, Signal, Others
<1>5. TypeOK'
  BY <1>1, <1>2, <1>3, <1>4, <1>t
     DEF TypeOK, Goto, durable, history, budgets, Points
<1>6. RowFlow(c, next)
  BY <1>4 DEF RowFlow, CancelledKept, durable
<1> QED
  BY <1>1, <1>2, <1>4, <1>5, <1>6, <1>t, QuietStep
     DEF Goto, history, Points

LEMMA RequestApprovalKeeps ==
    ASSUME IInv, NEW a \in Approvers, NEW roles \in RoleSets,
           NEW approved \in BOOLEAN, RequestApproval(a, roles, approved)
    PROVE  IInv' /\ CancelledKept
<1>t. TypeOK /\ a \in Processes /\ a # worker /\ worker \in Processes
  BY ActorsAreDistinct DEF IInv, ApprovalInv, TypeOK, Processes
<1>1. PICK next \in {"claim", "refused"} : pc' = [pc EXCEPT ![a] = next]
  BY DEF RequestApproval, Goto
<1>2. /\ st' \in [Processes -> AgentState]
      /\ \A q \in Processes : q # a => st'[q] = st[q]
      /\ approves' \in [Approvers -> BOOLEAN]
      /\ \A b \in Approvers : b # a => approves'[b] = approves[b]
  BY <1>t DEF RequestApproval, TypeOK
<1>3. UNCHANGED <<row, ckpt, steps, log, stepId, flag, decision, executions,
                 faults, crashes>>
  BY DEF RequestApproval, durable, history, budgets
<1>4. TypeOK'
  BY <1>1, <1>2, <1>3, <1>t DEF TypeOK, ProgramPoints, Unstarted
<1>5. pc'[a] \notin BeforeExecution /\ pc'[a] \in WaitingPoints(a)
  BY <1>1, <1>t DEF BeforeExecution, WaitingPoints, TypeOK
<1>6. \A q \in Processes : q # a => pc'[q] = pc[q]
  BY <1>1, <1>t DEF TypeOK
<1>7. WaitingIsWrittenOnce'
  BY <1>2, <1>3, <1>5, <1>6, <1>t
     DEF IInv, ApprovalInv, WaitingIsWrittenOnce, WaitingPoints
<1>8. ClaimIsExclusive'
  BY <1>2, <1>3, <1>5, <1>6, <1>t
     DEF IInv, ApprovalInv, ClaimIsExclusive, Processes
<1> QED
  BY <1>3, <1>4, <1>6, <1>7, <1>8, <1>t
     DEF IInv, ApprovalInv, ApprovedSqlRunsAtMostOnce, FreshRun, CancelledKept

\* Only a row that waits can be claimed, so no one else has claimed it before.
LEMMA ClaimApprovalKeeps ==
    ASSUME IInv, NEW a \in Approvers, ClaimApproval(a)
    PROVE  IInv' /\ CancelledKept
<1>t. TypeOK /\ a \in Processes /\ a # worker /\ worker \in Processes
  BY ActorsAreDistinct DEF IInv, ApprovalInv, TypeOK, Processes
<1>1. CASE ClaimableApproval
  <2>1. /\ row' = [row EXCEPT !.status = "running"]
        /\ decision' = IF approves[a] THEN "approved" ELSE "rejected"
        /\ st' = [st EXCEPT ![a].status = "running", ![a].approval = decision']
        /\ pc' = [pc EXCEPT ![a] = "received"]
        /\ UNCHANGED <<ckpt, steps, log, stepId, approves, flag, executions,
                       faults, crashes>>
    BY <1>1 DEF ClaimApproval, Goto, budgets
  <2>2. decision = "none" /\ executions = 0
        /\ pc[worker] \in WorkerAfterWaiting
        /\ \A b \in Approvers : pc[b] \notin BeforeExecution
    BY <1>1 DEF ClaimableApproval, IInv, ApprovalInv, ClaimIsExclusive,
                WaitingIsWrittenOnce
  <2>3. /\ row' \in AgentState /\ row'.status = "running"
        /\ st' \in [Processes -> AgentState] /\ st'[a].status = "running"
        /\ \A q \in Processes : q # a => st'[q] = st[q] /\ pc'[q] = pc[q]
        /\ decision' \in {"approved", "rejected"}
    BY <2>1, <1>t DEF TypeOK, AgentState, ApprovalStatus, RowStatuses,
                      RunStatuses
  <2>4. TypeOK'
    BY <2>1, <2>3, <1>t DEF TypeOK, ProgramPoints, BeforeExecution
  <2>5. WaitingIsWrittenOnce'
    BY <2>3, <1>t DEF IInv, ApprovalInv, WaitingIsWrittenOnce, WaitingPoints
  <2>6. pc'[a] = "received" /\ pc'[worker] = pc[worker]
        /\ \A b \in Approvers : b # a => pc'[b] \notin BeforeExecution
    BY <2>1, <2>2, <2>3, <1>t DEF TypeOK, Processes
  <2>7. ClaimIsExclusive'
    BY <2>1, <2>2, <2>3, <2>6 DEF ClaimIsExclusive
  <2> QED
    BY <1>1, <2>1, <2>2, <2>4, <2>5, <2>6, <2>7
       DEF IInv, ApprovalInv, ApprovedSqlRunsAtMostOnce, FreshRun,
           CancelledKept, ClaimableApproval, WorkerAfterWaiting, WorkerTail,
           Failing, Stopped
<1>2. CASE ~ClaimableApproval
  <2>1. /\ UNCHANGED <<row, decision, st>> /\ Goto(a, "refused")
        /\ UNCHANGED <<ckpt, steps, log, stepId, approves, flag, executions,
                       faults, crashes>>
    BY <1>2 DEF ClaimApproval, budgets
  <2>2. TypeOK'
    BY <2>1, <1>t DEF TypeOK, Goto, ProgramPoints, Unstarted
  <2>3. Flow(a, "refused") /\ RowFlow(a, "refused")
        /\ "refused" \in WaitingPoints(a)
    BY <2>1, <1>t DEF Flow, RowFlow, CancelledKept, BeforeExecution,
                      WaitingPoints
  <2> QED
    BY <2>1, <2>2, <2>3, <1>t, QuietStep
       DEF Goto, ProgramPoints, Unstarted
<1> QED BY <1>1, <1>2

\* The one request before the execution point is the one that executes.
LEMMA ExecuteKeeps ==
    ASSUME IInv, NEW a \in Approvers, Execute(a)
    PROVE  IInv' /\ CancelledKept
<1>t. TypeOK /\ a \in Processes /\ a # worker /\ worker \in Processes
  BY ActorsAreDistinct DEF IInv, ApprovalInv, TypeOK, Processes
<1>1. /\ pc[a] = "execute" /\ executions' = executions + 1
      /\ UNCHANGED <<row, ckpt, steps, log, stepId, approves, flag, decision,
                     faults, crashes>>
  BY DEF Execute, durable, budgets
<1>2. /\ executions = 0 /\ decision = "approved"
      /\ \A b \in Approvers : b # a => pc[b] \notin BeforeExecution
  <2>1. pc[a] \in BeforeExecution
    BY <1>1 DEF BeforeExecution
  <2> QED
    BY <1>1, <2>1 DEF IInv, ApprovalInv, ClaimIsExclusive
<1>3. /\ st' \in [Processes -> AgentState]
      /\ \A q \in Processes : q # a => st'[q] = st[q]
      /\ \E next \in {"finish", "raised", "fail_finish", "fail_save"} :
            /\ pc' = [pc EXCEPT ![a] = next]
            /\ st'[a].status = "waiting_for_approval" => next = "raised"
  <2>1. CASE /\ Goto(a, "finish")
             /\ st' = [st EXCEPT ![a].approval = "none"]
    <3>1. st[a].status # "waiting_for_approval"
      BY <1>1, <1>t DEF IInv, ApprovalInv, WaitingIsWrittenOnce, WaitingPoints,
                        Stopped
    <3>2. /\ st' \in [Processes -> AgentState]
          /\ \A q \in Processes : q # a => st'[q] = st[q]
          /\ st'[a].status = st[a].status
      BY <2>1, <1>t DEF TypeOK, AgentState, ApprovalStatus
    <3> QED BY <2>1, <3>1, <3>2 DEF Goto
  <2>2. CASE Throw(a)
    BY <2>2, <1>t, ThrowType
  <2> QED BY <2>1, <2>2 DEF Execute
<1>4. PICK next \in {"finish", "raised", "fail_finish", "fail_save"} :
          /\ pc' = [pc EXCEPT ![a] = next]
          /\ st'[a].status = "waiting_for_approval" => next = "raised"
  BY <1>3
<1>5. /\ pc'[a] = next /\ next \notin BeforeExecution
      /\ \A q \in Processes : q # a => pc'[q] = pc[q]
  BY <1>4, <1>t DEF TypeOK, BeforeExecution
<1>6. TypeOK'
  BY <1>1, <1>3, <1>4, <1>t
     DEF TypeOK, ProgramPoints, ApproverTry, Failing, Stopped
<1>7. WaitingIsWrittenOnce'
  BY <1>1, <1>3, <1>4, <1>5, <1>t
     DEF IInv, ApprovalInv, WaitingIsWrittenOnce, WaitingPoints, Stopped
<1>8. ClaimIsExclusive'
  BY <1>1, <1>2, <1>5, <1>t
     DEF IInv, ApprovalInv, ClaimIsExclusive, Processes
<1> QED
  BY <1>1, <1>2, <1>5, <1>6, <1>7, <1>8, <1>t
     DEF IInv, ApprovalInv, ApprovedSqlRunsAtMostOnce, FreshRun, CancelledKept

LEMMA ResolveKeeps ==
    ASSUME IInv, NEW a \in Approvers, Resolve(a)
    PROVE  IInv' /\ CancelledKept
<1> USE StatusNames, PointsOfPrograms
<1>t. /\ TypeOK /\ a \in Processes /\ a # worker
      /\ stepId[a] \in BOOLEAN
      /\ pc[a] \in BeforeExecution => pc[a] = "received" \/ approves[a]
  BY ActorsAreDistinct
     DEF IInv, ApprovalInv, ClaimIsExclusive, TypeOK, Processes
<1>1. CASE ClaimApproval(a)
  BY <1>1, ClaimApprovalKeeps
<1>2. CASE Execute(a)
  BY <1>2, ExecuteKeeps
<1>3. CASE ReceiveApproval(a)
  <2>1. Flow(a, "save_approved")
    BY <1>3, <1>t DEF ReceiveApproval, RecordEvent, Flow, BeforeExecution
  <2> QED
    BY <1>3, <2>1, <1>t, RecordEventKeeps DEF ReceiveApproval, EventType, BeforeExecution, Rejecting,
           ApproverTry
<1>4. CASE ReceiveRejection(a)
  <2>1. Flow(a, "save_rejected")
    BY <1>4, <1>t DEF ReceiveRejection, RecordEvent, Flow, BeforeExecution
  <2> QED
    BY <1>4, <2>1, <1>t, RecordEventKeeps DEF ReceiveRejection, EventType, BeforeExecution, Rejecting,
           ApproverTry
<1>5. CASE SaveRejected(a)
  <2>1. Flow(a, "event_rejected")
    BY <1>5, <1>t DEF SaveRejected, Save, SaveState, Flow, BeforeExecution
  <2> QED
    BY <1>5, <2>1, <1>t, SaveKeeps
       DEF SaveRejected, Save, WaitingPoints, Stopped, BeforeExecution, Rejecting,
           ApproverTry
<1>6. CASE EventRejected(a)
  <2>1. Flow(a, "ckpt_rejected")
    BY <1>6, <1>t DEF EventRejected, RecordEvent, Flow, BeforeExecution
  <2> QED
    BY <1>6, <2>1, <1>t, RecordEventKeeps DEF EventRejected, EventType, BeforeExecution, Rejecting,
           ApproverTry
<1>7. CASE CheckpointRejected(a)
  <2>1. Flow(a, "done")
    BY <1>7, <1>t DEF CheckpointRejected, Checkpoint, Flow, BeforeExecution
  <2> QED BY <1>7, <2>1, <1>t, CheckpointKeeps
          DEF CheckpointRejected, Stopped
<1>8. CASE SaveApproved(a)
  <2>1. Flow(a, "ckpt_approved")
    BY <1>8, <1>t DEF SaveApproved, Save, SaveState, Flow, BeforeExecution
  <2> QED
    BY <1>8, <2>1, <1>t, SaveKeeps
       DEF SaveApproved, Save, WaitingPoints, Stopped, BeforeExecution, Rejecting,
           ApproverTry
<1>9. CASE CheckpointApproved(a)
  <2>1. Flow(a, "start")
    BY <1>9, <1>t DEF CheckpointApproved, Checkpoint, Flow, BeforeExecution
  <2> QED BY <1>9, <2>1, <1>t, CheckpointKeeps
          DEF CheckpointApproved, BeforeExecution, Rejecting, ApproverTry
<1>10. CASE StartExecution(a)
  <2>1. Flow(a, "save_started")
    BY <1>10, <1>t DEF StartExecution, StartStep, Flow, BeforeExecution
  <2> QED BY <1>10, <2>1, <1>t, StartStepKeeps
          DEF StartExecution, BeforeExecution, Rejecting, ApproverTry
<1>11. CASE SaveStarted(a)
  <2>1. Flow(a, "save_counted")
    BY <1>11,
     <1>t DEF SaveStarted, Save, SaveState, Flow, BeforeExecution
  <2> QED
    BY <1>11,
     <2>1, <1>t, SaveKeeps
       DEF SaveStarted, Save, WaitingPoints, Stopped, BeforeExecution, Rejecting,
           ApproverTry
<1>12. CASE SaveCounted(a)
  <2>1. Flow(a, "ckpt_executing")
    BY <1>12, <1>t DEF SaveCounted, Save, SaveState, Flow, BeforeExecution
  <2> QED
    BY <1>12, <2>1, <1>t, SaveKeeps
       DEF SaveCounted, Save, WaitingPoints, Stopped, BeforeExecution, Rejecting,
           ApproverTry
<1>13. CASE CheckpointExecuting(a)
  <2>1. Flow(a, "execute")
    BY <1>13, <1>t DEF CheckpointExecuting, Checkpoint, Flow, BeforeExecution
  <2> QED BY <1>13, <2>1, <1>t, CheckpointKeeps
          DEF CheckpointExecuting, BeforeExecution, Rejecting, ApproverTry
<1>14. CASE FinishExecution(a)
  <2>1. Flow(a, "save_result")
    BY <1>14, <1>t DEF FinishExecution, FinishStep, Flow, BeforeExecution
  <2> QED
    BY <1>14, <2>1, <1>t, FinishStepKeeps
       DEF FinishExecution, StepStatus, WaitingPoints, Stopped, BeforeExecution, Rejecting,
           ApproverTry
<1>15. CASE SaveResult(a)
  <2>1. Flow(a, "ckpt_result")
    BY <1>15, <1>t DEF SaveResult, Save, SaveState, Flow, BeforeExecution
  <2> QED
    BY <1>15, <2>1, <1>t, SaveKeeps
       DEF SaveResult, Save, WaitingPoints, Stopped, BeforeExecution, Rejecting,
           ApproverTry
<1>16. CASE CheckpointResult(a)
  <2>1. Flow(a, "save_verifying")
    BY <1>16, <1>t DEF CheckpointResult, Checkpoint, Flow, BeforeExecution
  <2> QED BY <1>16, <2>1, <1>t, CheckpointKeeps
          DEF CheckpointResult, BeforeExecution, Rejecting, ApproverTry
<1>17. CASE SaveVerifyingResult(a)
  <2>1. Flow(a, "ckpt_verifying")
    BY <1>17, <1>t DEF SaveVerifyingResult, Save, SaveState, Flow, BeforeExecution
  <2> QED
    BY <1>17, <2>1, <1>t, SaveKeeps
       DEF SaveVerifyingResult, Save, WaitingPoints, Stopped, BeforeExecution, Rejecting,
           ApproverTry
<1>18. CASE CheckpointVerifyingResult(a)
  <2>1. Flow(a, "save_completed")
    BY <1>18, <1>t DEF CheckpointVerifyingResult, Checkpoint, Flow, BeforeExecution
  <2> QED BY <1>18, <2>1, <1>t, CheckpointKeeps
          DEF CheckpointVerifyingResult, BeforeExecution, Rejecting, ApproverTry
<1>19. CASE SaveCompleted(a)
  <2>1. Flow(a, "event_completed")
    BY <1>19, <1>t DEF SaveCompleted, Save, SaveState, Flow, BeforeExecution
  <2> QED
    BY <1>19, <2>1, <1>t, SaveKeeps
       DEF SaveCompleted, Save, WaitingPoints, Stopped, BeforeExecution, Rejecting,
           ApproverTry
<1>20. CASE EventCompletedResult(a)
  <2>1. Flow(a, "ckpt_completed")
    BY <1>20, <1>t DEF EventCompletedResult, RecordEvent, Flow, BeforeExecution
  <2> QED
    BY <1>20, <2>1, <1>t, RecordEventKeeps DEF EventCompletedResult, EventType, BeforeExecution, Rejecting,
           ApproverTry
<1>21. CASE CheckpointCompleted(a)
  <2>1. Flow(a, "done")
    BY <1>21, <1>t DEF CheckpointCompleted, Checkpoint, Flow, BeforeExecution
  <2> QED BY <1>21, <2>1, <1>t, CheckpointKeeps
          DEF CheckpointCompleted, Stopped
<1> QED
  BY <1>1, <1>2, <1>3, <1>4, <1>5, <1>6, <1>7, <1>8, <1>9, <1>10, <1>11,
     <1>12, <1>13, <1>14, <1>15, <1>16, <1>17, <1>18, <1>19, <1>20, <1>21
     DEF Resolve

LEMMA StatementFailsKeeps ==
    ASSUME IInv, NEW p \in Processes, StatementFails(p)
    PROVE  IInv' /\ CancelledKept
<1>1. faults' \in 0..MaxFaults
  BY BoundsAreNatural DEF StatementFails, IInv, ApprovalInv, TypeOK
<1> QED
  BY <1>1, ThrowKeeps DEF StatementFails, durable, history

LEMMA CrashKeeps == IInv /\ Crash => IInv' /\ CancelledKept
<1> SUFFICES ASSUME IInv, Crash PROVE IInv' /\ CancelledKept
  OBVIOUS
<1>t. TypeOK /\ worker \in Processes /\ Approvers \subseteq Processes
  BY DEF IInv, ApprovalInv, TypeOK, Processes
<1>1. \A p \in Processes : pc'[p] = pc[p] \/ pc'[p] = "crashed"
  BY DEF Crash
<1>2. /\ pc' \in [Processes -> ProgramPoints] /\ flag' \in BOOLEAN
      /\ crashes' \in 0..MaxCrashes
  <2>1. "crashed" \in ProgramPoints
    BY DEF ProgramPoints, Stopped
  <2>2. crashes' \in 0..MaxCrashes
    BY <1>t, BoundsAreNatural DEF Crash, TypeOK
  <2>3. pc' \in [Processes -> ProgramPoints]
    BY <1>t, <2>1 DEF Crash, TypeOK
  <2> QED BY <2>2, <2>3 DEF Crash
<1>3. TypeOK'
  BY <1>t, <1>2 DEF Crash, TypeOK, durable, history
<1>4. WaitingIsWrittenOnce'
  <2>1. UNCHANGED <<row, st>>
    BY DEF Crash, durable
  <2>2. "crashed" \in WorkerAfterWaiting
        /\ \A p \in Processes : "crashed" \in WaitingPoints(p)
    BY DEF WorkerAfterWaiting, WaitingPoints, Stopped
  <2> QED
    BY <1>1, <1>t, <2>1, <2>2
       DEF IInv, ApprovalInv, WaitingIsWrittenOnce, WaitingPoints
<1>5. ClaimIsExclusive'
  <2>1. UNCHANGED <<row, decision, executions, approves>>
    BY DEF Crash, durable, history
  <2>2. "crashed" \in WorkerAfterWaiting /\ "crashed" \notin BeforeExecution
    BY DEF WorkerAfterWaiting, Stopped, BeforeExecution
  <2> QED
    BY <1>1, <1>t, <2>1, <2>2 DEF IInv, ApprovalInv, ClaimIsExclusive
<1> QED
  BY <1>1, <1>3, <1>4, <1>5, <1>t
     DEF Crash, durable, history, IInv, ApprovalInv, FreshRun, CancelledKept,
         ApprovedSqlRunsAtMostOnce

LEMMA StepKeeps == IInv /\ [Next]_vars => IInv' /\ CancelledKept
<1> SUFFICES ASSUME IInv, [Next]_vars PROVE IInv' /\ CancelledKept
  OBVIOUS
<1>1. CASE WorkerStep
  BY <1>1, AnswerKeeps, FailKeeps, InterruptedKeeps, CancelKeeps
     DEF WorkerStep, Processes
<1>2. ASSUME NEW a \in Approvers, NEW roles \in RoleSets,
             NEW approved \in BOOLEAN, RequestApproval(a, roles, approved)
      PROVE  IInv' /\ CancelledKept
  BY <1>2, RequestApprovalKeeps
<1>3. ASSUME NEW a \in Approvers, ApproverStep(a)
      PROVE  IInv' /\ CancelledKept
  BY <1>3, ResolveKeeps, FailKeeps DEF ApproverStep, Processes
<1>4. ASSUME NEW c \in Cancellers,
             RequestCancellation(c) \/ Disconnect(c) \/ CancelRun(c)
      PROVE  IInv' /\ CancelledKept
  BY <1>4, RequestCancellationKeeps, CancelKeeps DEF CancelRun
<1>5. ASSUME NEW p \in Processes, StatementFails(p)
      PROVE  IInv' /\ CancelledKept
  BY <1>5, StatementFailsKeeps
<1>6. CASE Crash
  BY <1>6, CrashKeeps
<1>7. CASE UNCHANGED vars
  <2>1. UNCHANGED <<row, ckpt, steps, log, pc, st, stepId, approves, flag,
                   decision, executions, faults, crashes>>
    BY <1>7 DEF vars, durable, history, budgets
  <2>2. TypeOK' /\ FreshRun' /\ CancelledKept /\ ApprovedSqlRunsAtMostOnce'
    BY <2>1 DEF IInv, ApprovalInv, TypeOK, FreshRun, CancelledKept,
                ApprovedSqlRunsAtMostOnce
  <2>3. WaitingIsWrittenOnce' /\ ClaimIsExclusive'
    BY <2>1 DEF IInv, ApprovalInv, WaitingIsWrittenOnce, ClaimIsExclusive,
                WaitingPoints
  <2> QED BY <2>2, <2>3 DEF IInv, ApprovalInv
<1> QED
  BY <1>1, <1>2, <1>3, <1>4, <1>5, <1>6, <1>7 DEF Next

-----------------------------------------------------------------------------
(* The theorems.                                                           *)

LEMMA InitIInv == Init => IInv
<1> SUFFICES ASSUME Init PROVE IInv
  OBVIOUS
<1>1. /\ Absent \in AgentState /\ NewAgentState \in AgentState
      /\ Absent.status = "absent" /\ NewAgentState.status = "created"
  BY DEF Absent, NewAgentState, AgentState, RowStatuses, RunStatuses,
         ApprovalStatus
<1>2. TypeOK
  <2>1. "create" \in ProgramPoints /\ "idle" \in ProgramPoints
    BY DEF ProgramPoints, Unstarted
  <2>2. /\ pc \in [Processes -> ProgramPoints]
        /\ st \in [Processes -> AgentState]
    BY <1>1, <2>1 DEF Init
  <2>3. /\ steps \in [StepType -> StepStatus] /\ log \in [EventType -> Nat]
        /\ stepId \in [Processes -> BOOLEAN]
        /\ approves \in [Approvers -> BOOLEAN]
    BY DEF Init, StepStatus
  <2>4. executions \in Nat /\ faults \in 0..MaxFaults
                          /\ crashes \in 0..MaxCrashes
    BY BoundsAreNatural DEF Init
  <2> QED BY <1>1, <2>2, <2>3, <2>4 DEF Init, TypeOK
<1>3. \A p \in Processes :
          /\ pc[p] \in {"create", "idle"}
          /\ st[p].status # "waiting_for_approval"
  BY <1>1 DEF Init
<1> QED
  BY <1>1, <1>2, <1>3, ActorsAreDistinct
     DEF Init, IInv, ApprovalInv, WaitingIsWrittenOnce, ClaimIsExclusive,
         ApprovedSqlRunsAtMostOnce, FreshRun, BeforeExecution, Processes

LEMMA Invariance == Spec => []IInv
<1>1. Init => IInv
  BY InitIInv
<1>2. IInv /\ [Next]_vars => IInv'
  BY StepKeeps
<1> QED BY <1>1, <1>2, PTL DEF Spec

\* Every variable keeps its type, for any number of requests, faults and
\* restarts.
THEOREM TypeCorrect == Spec => []TypeOK
<1>1. IInv => TypeOK
  BY DEF IInv, ApprovalInv
<1> QED BY <1>1, Invariance, PTL

\* The invariant the faults run checks is the one that is inductive: at any
\* moment one request at most is on its way to execute the approved query.
THEOREM ApprovalClaimedOnce == Spec => []ApprovalInv
<1>1. IInv => ApprovalInv
  BY DEF IInv
<1> QED BY <1>1, Invariance, PTL

\* However many approval requests race, whatever statement fails and whenever
\* the process restarts, a pending SQL draft is executed at most once, and only
\* when the decision that claimed it was an approval (resolve_sql_approval).
THEOREM ApprovedSqlOnce == Spec => []ApprovedSqlRunsAtMostOnce
<1>1. IInv => ApprovedSqlRunsAtMostOnce
  BY DEF IInv, ApprovalInv
<1> QED BY <1>1, Invariance, PTL

\* No step of any program takes a run out of "cancelled": every write of the
\* row is guarded (save, claim_approval, claim_cancellation) or an insert.
THEOREM CancelledStays == Spec => CancelledIsFinal
<1>1. IInv /\ [Next]_vars =>
          [row.status = "cancelled" => row'.status = "cancelled"]_vars
  BY StepKeeps DEF CancelledKept
<1> QED BY <1>1, Invariance, PTL DEF Spec, CancelledIsFinal

-----------------------------------------------------------------------------
(* A cancellation is claimed once.                                         *)

\* Between a claim that succeeded and the event that reports it.
Claimed == {"cancel_finish", "cancel_save", "cancel_event"}
ClaimReports == log["user_requested"] + log["client_disconnected"]

\* Whoever claims a cancellation makes the row cancelled, and that ends it:
\* nobody else can be between its claim and its report, now or later.
CancelInv ==
    /\ \A p \in Processes : pc[p] \in Claimed =>
           row.status = "cancelled" /\ ClaimReports = 0
    /\ \A p, q \in Processes :
           pc[p] \in Claimed /\ pc[q] \in Claimed => p = q
    /\ ClaimReports \in 0..1
    /\ ClaimReports = 1 => row.status = "cancelled"

\* A step that claims and reports nothing.
NoClaim ==
    /\ \A p \in Processes : pc'[p] \in Claimed => pc[p] \in Claimed
    /\ ClaimReports' = ClaimReports

LEMMA NoClaimKeeps == CancelInv /\ CancelledKept /\ NoClaim => CancelInv'
  BY DEF CancelInv, CancelledKept, NoClaim

LEMMA GotoNoClaim ==
    ASSUME TypeOK, NEW p \in Processes, NEW next, Goto(p, next),
           next \in Claimed => pc[p] \in Claimed, log' = log
    PROVE  NoClaim
  BY DEF NoClaim, Goto, TypeOK, ClaimReports

LEMMA ThrowNoClaim ==
    ASSUME TypeOK, NEW p \in Processes, Throw(p), log' = log
    PROVE  NoClaim
<1>1. PICK next \in {"raised", "fail_finish", "fail_save"} : Goto(p, next)
  BY DEF Throw
<1> QED BY <1>1, GotoNoClaim DEF Claimed

LEMMA CheckpointNoClaim ==
    ASSUME TypeOK, NEW p \in Processes, NEW here, NEW next, NEW status,
           Checkpoint(p, here, next, status), next \notin Claimed
    PROVE  NoClaim
  BY GotoNoClaim DEF Checkpoint

LEMMA SaveNoClaim ==
    ASSUME TypeOK, NEW p \in Processes, NEW here, NEW next, NEW status,
           NEW assigned, SaveState(p, here, next, status, assigned),
           next \notin Claimed \/ here \in Claimed
    PROVE  NoClaim
<1>1. log' = log /\ pc[p] = here
  BY DEF SaveState
<1>2. CASE CanSave(st[p])
  BY <1>1, <1>2, GotoNoClaim DEF SaveState
<1>3. CASE ~CanSave(st[p])
  BY <1>1, <1>3, ThrowNoClaim DEF SaveState
<1> QED BY <1>2, <1>3

LEMMA StepNoClaim ==
    ASSUME TypeOK, NEW p \in Processes, NEW here, NEW outcome, NEW next,
           \/ StartStep(p, here, next)
           \/ FinishStep(p, here, outcome, next),
           next \notin Claimed \/ here \in Claimed
    PROVE  NoClaim
  BY GotoNoClaim DEF StartStep, FinishStep

LEMMA RecordNoClaim ==
    ASSUME TypeOK, NEW p \in Processes, NEW here, NEW event, NEW next,
           NEW status, RecordEvent(p, here, event, next, status),
           event \notin {"user_requested", "client_disconnected"},
           next \notin Claimed
    PROVE  NoClaim
<1>1. /\ log'["user_requested"] = log["user_requested"]
      /\ log'["client_disconnected"] = log["client_disconnected"]
  BY DEF RecordEvent, TypeOK, EventType
<1> QED BY <1>1 DEF RecordEvent, Goto, NoClaim, TypeOK, ClaimReports

LEMMA AnswerNoClaim == TypeOK /\ Answer => NoClaim
<1> SUFFICES ASSUME TypeOK, Answer PROVE NoClaim
  OBVIOUS
<1>t. worker \in Processes
  BY DEF Processes
<1>1. CASE CheckpointCreated \/ CheckpointPlan \/ CheckpointStarted
           \/ CheckpointVerifying \/ CheckpointStep
  BY <1>1, <1>t, CheckpointNoClaim DEF Claimed, CheckpointCreated,
         CheckpointPlan, CheckpointStarted, CheckpointVerifying, CheckpointStep
<1>2. CASE CheckpointFinal
  <2>1. PICK next \in {"event_completed", "done"} :
            Checkpoint(worker, "ckpt_final", next, st[worker].status)
    BY <1>2 DEF CheckpointFinal
  <2> QED BY <2>1, <1>t, CheckpointNoClaim DEF Claimed
<1>3. CASE SavePlanning \/ SaveRunning \/ SaveVerifying \/ SaveFinal
  BY <1>3, <1>t, SaveNoClaim DEF Claimed, Save, SavePlanning, SaveRunning,
         SaveVerifying, SaveFinal
<1>4. CASE StartWorkflow \/ FinishWorkflow
  BY <1>4, <1>t, StepNoClaim DEF Claimed, StartWorkflow, FinishWorkflow
<1>5. CASE EventCompleted
  BY <1>5, <1>t, RecordNoClaim DEF Claimed, EventCompleted
<1>6. CASE Create \/ WorkflowAnswers \/ VerificationPasses
           \/ (\E roles \in RoleSets : WorkflowDrafts(roles))
           \/ \E here \in {"start", "workflow", "verify", "save_final"} :
                  Interrupt(here)
  <2>1. PICK next \in {"ckpt_created", "save_verifying", "finish", "interrupted"} :
            Goto(worker, next) /\ log' = log
    BY <1>6 DEF Create, WorkflowAnswers, VerificationPasses, WorkflowDrafts,
         Interrupt, durable
  <2> QED BY <2>1, <1>t, GotoNoClaim DEF Claimed
<1>7. CASE WorkflowFails \/ VerificationFails
  BY <1>7, <1>t, ThrowNoClaim DEF WorkflowFails, VerificationFails, durable
<1> QED BY <1>1, <1>2, <1>3, <1>4, <1>5, <1>6, <1>7 DEF Answer

LEMMA ResolveNoClaim ==
    ASSUME TypeOK, NEW a \in Approvers, Resolve(a) PROVE NoClaim
<1>t. a \in Processes
  BY DEF Processes
<1>1. CASE \/ CheckpointRejected(a) \/ CheckpointApproved(a)
           \/ CheckpointExecuting(a) \/ CheckpointResult(a)
           \/ CheckpointVerifyingResult(a) \/ CheckpointCompleted(a)
  BY <1>1, <1>t, CheckpointNoClaim DEF Claimed, CheckpointRejected,
         CheckpointApproved, CheckpointExecuting, CheckpointResult,
         CheckpointVerifyingResult, CheckpointCompleted
<1>2. CASE \/ SaveRejected(a) \/ SaveApproved(a) \/ SaveStarted(a)
           \/ SaveCounted(a) \/ SaveResult(a) \/ SaveVerifyingResult(a)
           \/ SaveCompleted(a)
  BY <1>2, <1>t, SaveNoClaim DEF Claimed, Save, SaveRejected, SaveApproved,
         SaveStarted, SaveCounted, SaveResult, SaveVerifyingResult,
         SaveCompleted
<1>3. CASE StartExecution(a) \/ FinishExecution(a)
  BY <1>3, <1>t, StepNoClaim DEF Claimed, StartExecution, FinishExecution
<1>4. CASE \/ ReceiveApproval(a) \/ ReceiveRejection(a) \/ EventRejected(a)
           \/ EventCompletedResult(a)
  BY <1>4, <1>t, RecordNoClaim DEF Claimed, ReceiveApproval, ReceiveRejection,
         EventRejected, EventCompletedResult
<1>5. CASE ClaimApproval(a)
  <2>1. PICK next \in {"received", "refused"} : Goto(a, next) /\ log' = log
    BY <1>5 DEF ClaimApproval
  <2> QED BY <2>1, <1>t, GotoNoClaim DEF Claimed
<1>6. CASE Execute(a)
  <2>1. log' = log /\ (Goto(a, "finish") \/ Throw(a))
    BY <1>6 DEF Execute, durable
  <2> QED BY <2>1, <1>t, GotoNoClaim, ThrowNoClaim DEF Claimed
<1> QED BY <1>1, <1>2, <1>3, <1>4, <1>5, <1>6 DEF Resolve

LEMMA FailNoClaim ==
    ASSUME TypeOK, NEW p \in Processes, Fail(p) PROVE NoClaim
<1>1. CASE FailFinish(p)
  BY <1>1, StepNoClaim DEF Claimed, FailFinish
<1>2. CASE FailSave(p)
  BY <1>2, SaveNoClaim DEF Claimed, FailSave, Save
<1>3. CASE FailEvent(p)
  BY <1>3, RecordNoClaim DEF Claimed, FailEvent
<1>4. CASE FailCheckpoint(p)
  BY <1>4, CheckpointNoClaim DEF Claimed, FailCheckpoint
<1> QED BY <1>1, <1>2, <1>3, <1>4 DEF Fail

\* The two steps that are not quiet: a claim that succeeds and its report.
LEMMA CancelClaims ==
    ASSUME IInv, CancelInv, CancelledKept, NEW p \in Processes, Cancel(p)
    PROVE  CancelInv'
<1>t. TypeOK /\ row \in AgentState /\ pc \in [Processes -> ProgramPoints]
      /\ log["user_requested"] \in Nat /\ log["client_disconnected"] \in Nat
  BY DEF IInv, ApprovalInv, TypeOK, EventType
<1>1. CASE ClaimCancellation(p)
  <2>1. CASE ClaimableCancellation
    <3>1. /\ row'.status = "cancelled" /\ log' = log
          /\ \A q \in Processes : q # p => pc'[q] = pc[q]
      BY <1>1, <1>t, <2>1 DEF ClaimCancellation, Goto, AgentState
    <3>2. row.status # "cancelled"
      BY <2>1 DEF ClaimableCancellation, TERMINAL_RUN_STATUSES
    <3>3. ClaimReports' = ClaimReports
      BY <3>1 DEF ClaimReports
    <3> QED BY <3>1, <3>2, <3>3 DEF CancelInv
  <2>2. CASE ~ClaimableCancellation
    <3>1. PICK next \in {"raised", "refused"} : Goto(p, next) /\ log' = log
      BY <1>1, <2>2 DEF ClaimCancellation
    <3> QED BY <3>1, <1>t, GotoNoClaim, NoClaimKeeps DEF Claimed
  <2> QED BY <2>1, <2>2
<1>2. CASE CancelFinish(p)
  BY <1>2, <1>t, StepNoClaim, NoClaimKeeps DEF Claimed, CancelFinish
<1>3. CASE CancelSave(p)
  BY <1>3, <1>t, SaveNoClaim, NoClaimKeeps DEF Claimed, CancelSave, Save
<1>4. CASE CancelEvent(p)
  <2>1. /\ pc[p] \in Claimed /\ row' = row
        /\ \A q \in Processes :
               pc'[q] \in Claimed => q # p /\ pc[q] \in Claimed
    BY <1>4, <1>t DEF CancelEvent, RecordEvent, Goto, Claimed
  <2>2. ClaimReports' = ClaimReports + 1
    <3>1. PICK event \in {"user_requested", "client_disconnected"} :
              log' = [log EXCEPT ![event] = @ + 1]
      BY <1>4 DEF CancelEvent, RecordEvent
    <3> QED BY <3>1, <1>t DEF ClaimReports, TypeOK, EventType
  <2> QED BY <2>1, <2>2 DEF CancelInv
<1>5. CASE CancelCheckpoint(p)
  <2>1. PICK next \in {"raised", "signal"} :
            Checkpoint(p, "cancel_ckpt", next, "cancelled")
    BY <1>5 DEF CancelCheckpoint
  <2> QED BY <2>1, <1>t, CheckpointNoClaim, NoClaimKeeps DEF Claimed
<1> QED BY <1>1, <1>2, <1>3, <1>4, <1>5 DEF Cancel

LEMMA CancelInvStep == IInv /\ CancelInv /\ [Next]_vars => CancelInv'
<1> SUFFICES ASSUME IInv, CancelInv, [Next]_vars PROVE CancelInv'
  OBVIOUS
<1>t. TypeOK /\ CancelledKept /\ worker \in Processes
      /\ Approvers \subseteq Processes /\ Cancellers \subseteq Processes
  BY StepKeeps DEF IInv, ApprovalInv, Processes
<1>1. CASE WorkerStep
  <2>1. CASE Interrupted
    <3>1. CASE LoadInterrupted
      <4>1. PICK next \in {"claim_cancel", "late_finish", "late_save"} :
                Goto(worker, next) /\ log' = log
        BY <3>1 DEF LoadInterrupted, durable
      <4> QED BY <4>1, <1>t, GotoNoClaim, NoClaimKeeps DEF Claimed
    <3>2. CASE LateFinish \/ LateSave
      BY <3>2, <1>t, StepNoClaim, SaveNoClaim, NoClaimKeeps
         DEF Claimed, LateFinish, LateSave, Save
    <3> QED BY <2>1, <3>1, <3>2 DEF Interrupted
  <2> QED
    BY <1>1, <1>t, <2>1, AnswerNoClaim, FailNoClaim, CancelClaims, NoClaimKeeps
       DEF WorkerStep
<1>2. ASSUME NEW a \in Approvers, NEW roles \in RoleSets,
             NEW approved \in BOOLEAN, RequestApproval(a, roles, approved)
      PROVE  CancelInv'
  <2>1. PICK next \in {"claim", "refused"} : Goto(a, next) /\ log' = log
    BY <1>2 DEF RequestApproval, durable
  <2> QED BY <2>1, <1>t, GotoNoClaim, NoClaimKeeps DEF Claimed
<1>3. ASSUME NEW a \in Approvers, ApproverStep(a) PROVE CancelInv'
  BY <1>3, <1>t, ResolveNoClaim, FailNoClaim, NoClaimKeeps DEF ApproverStep
<1>4. ASSUME NEW c \in Cancellers,
             RequestCancellation(c) \/ Disconnect(c) \/ CancelRun(c)
      PROVE  CancelInv'
  <2>1. CASE \/ RequestCancellation(c) \/ Disconnect(c)
             \/ LoadForCancellation(c) \/ Signal(c)
    <3>1. PICK next \in {"load", "claim_cancel", "refused", "done"} :
              Goto(c, next) /\ log' = log
      BY <2>1 DEF RequestCancellation, Disconnect, LoadForCancellation, Signal,
                  durable
    <3> QED BY <3>1, <1>t, GotoNoClaim, NoClaimKeeps DEF Claimed
  <2> QED BY <1>4, <1>t, <2>1, CancelClaims DEF CancelRun
<1>5. ASSUME NEW p \in Processes, StatementFails(p) PROVE CancelInv'
  BY <1>5, <1>t, ThrowNoClaim, NoClaimKeeps DEF StatementFails, durable
<1>6. CASE Crash
  BY <1>6, <1>t, NoClaimKeeps DEF Crash, durable, NoClaim, Claimed, ClaimReports
<1>7. CASE UNCHANGED vars
  BY <1>7 DEF vars, durable, CancelInv, ClaimReports
<1> QED
  BY <1>1, <1>2, <1>3, <1>4, <1>5, <1>6, <1>7 DEF Next

\* The API, the disconnect path and the worker race for a cancellation, and at
\* most one of them reports it (claim_cancellation), whatever statement fails
\* and whenever the process restarts.
THEOREM OneCancellation == Spec => []CancellationClaimedOnce
<1>1. Init => CancelInv
  BY DEF Init, CancelInv, Claimed, ClaimReports, EventType, Processes
<1>2. CancelInv => CancellationClaimedOnce
  BY DEF CancelInv, ClaimReports, CancellationClaimedOnce
<1> QED BY <1>1, <1>2, Invariance, CancelInvStep, PTL DEF Spec

-----------------------------------------------------------------------------
(* Runs none of whose statements has failed.  A process saves its own copy  *)
(* over a row that others write too, so it must be known how far its copy   *)
(* and the row can be apart at each of its statements.                      *)

Workflow == "property_chat_workflow"
Execution == "approved_sql_execution"

\* Where a request is once it has claimed the approval, until it is through.
Resolving == BeforeExecution \cup ApproverTry \cup Failing \cup Rejecting

Live == row.status # "cancelled"

\* The process's copy has this status and the row one of those.
Copy(p, status, rows) == st[p].status = status /\ row.status \in rows

\* The worker's copy is ahead of a row nobody cancelled by one save at most.
WorkerCopy == Live =>
    /\ pc[worker] = "create" => Copy(worker, "created", {"absent"})
    /\ pc[worker] = "ckpt_created" => Copy(worker, "created", {"created"})
    /\ pc[worker] = "save_planning" => Copy(worker, "planning", {"created"})
    /\ pc[worker] \in {"ckpt_plan", "start"} =>
           Copy(worker, "planning", {"planning"})
    /\ pc[worker] = "save_running" => Copy(worker, "running", {"planning"})
    /\ pc[worker] \in {"ckpt_started", "workflow"} =>
           Copy(worker, "running", {"running"})
    /\ pc[worker] = "save_verifying" => Copy(worker, "verifying", {"running"})
    /\ pc[worker] \in {"ckpt_verifying", "verify"} =>
           Copy(worker, "verifying", {"verifying"})
    /\ pc[worker] \in {"finish", "save_final"} =>
           \/ Copy(worker, "waiting_for_approval", {"running"})
           \/ Copy(worker, "completed", {"running", "verifying"})
    /\ pc[worker] \in WorkerTail /\ st[worker].status = "completed" =>
           decision = "none"
    /\ pc[worker] = "event_completed" => st[worker].status = "completed"
    /\ pc[worker] \in Failing => decision = "none"
    /\ pc[worker] \in {"fail_finish", "fail_save"} =>
           row.status \in {"running", "verifying"}
    /\ pc[worker] \in {"interrupted", "claim_cancel"} =>
           row.status \in {"planning", "running", "verifying"}

\* So is the copy of the request that resolves the approval, which knows
\* besides how far the query has come.
ApproverCopy(a) == Live =>
    /\ pc[a] \in BeforeExecution \cup {"finish", "save_result", "ckpt_result"} =>
           Copy(a, "running", {"running"})
    /\ pc[a] = "save_verifying" => Copy(a, "verifying", {"running"})
    /\ pc[a] = "ckpt_verifying" => Copy(a, "verifying", {"verifying"})
    /\ pc[a] = "save_completed" => Copy(a, "completed", {"verifying"})
    /\ pc[a] = "save_rejected" => Copy(a, "cancelled", {"running"})
    /\ pc[a] \in {"fail_finish", "fail_save"} =>
           row.status \in {"running", "verifying"}
    /\ pc[a] \in ApproverTry \ {"execute"} =>
           decision = "approved" /\ executions = 1
    /\ pc[a] \in ApproverTry \ {"execute", "finish"} =>
           steps[Execution] = "succeeded"

\* Before it reports an outcome, and until it has, the row reads so.
OutcomeIsSaved(p) ==
    /\ pc[p] \in {"event_completed", "ckpt_completed"} =>
           row.status = "completed"
    /\ p = worker /\ pc[p] \in {"finish", "save_final"} =>
           st[p].status \in {"waiting_for_approval", "completed"}
    /\ p = worker /\ pc[p] \in WorkerTail =>
           \/ st[p].status = "waiting_for_approval"
           \/ Copy(p, "completed", {"completed"})
    /\ pc[p] = "save_completed" => st[p].status = "completed"
    /\ pc[p] \in Failing => st[p].status = "failed"
    /\ pc[p] \in {"event_failed", "ckpt_failed"} => row.status = "failed"
    /\ pc[p] \in {"cancel_finish", "cancel_save", "cancel_event", "cancel_ckpt",
                  "late_finish", "late_save", "event_rejected", "ckpt_rejected"} =>
           row.status = "cancelled"

View(p) ==
    /\ OutcomeIsSaved(p)
    /\ p = worker => WorkerCopy
    /\ p \in Approvers => ApproverCopy(p)

\* One request at most resolves the approval.
OneResolves ==
    /\ \A a \in Approvers : pc[a] \in Resolving => decision # "none"
    /\ \A a, b \in Approvers :
           pc[a] \in Resolving /\ pc[b] \in Resolving => a = b

\* While a run waits and once it was decided the worker saves no more, ...
WorkerIsOver == Live =>
    (row.status = "waiting_for_approval" \/ decision # "none" =>
        \/ pc[worker] \in Stopped
        \/ /\ pc[worker] \in {"ckpt_step", "ckpt_final"}
           /\ st[worker].status = "waiting_for_approval")

\* ... and its step has succeeded, as it has when the run completes.
WorkIsDone ==
    /\ Live
    /\ \/ pc[worker] = "save_final"
       \/ row.status \in {"waiting_for_approval", "completed"}
       \/ decision # "none"
    => steps[Workflow] = "succeeded"

\* The checkpoint of a waiting run is there or about to be written.
Resumable == crashes = 0 /\ row.status = "waiting_for_approval" =>
    \/ pc[worker] = "ckpt_step"
    \/ /\ pc[worker] \in {"ckpt_final", "done"}
       /\ ckpt.status = "waiting_for_approval"

CleanInv ==
    /\ \A p \in Processes : View(p)
    /\ OneResolves
    /\ WorkerIsOver
    /\ WorkIsDone
    /\ Resumable
    /\ CompletedMeansWorkDone
    /\ OutcomeEventsMatchRow

-----------------------------------------------------------------------------
(* What a step does to everybody else.                                     *)

\* How a step of process p may move the row: it cancels a run that has not
\* ended, or it is the one process that may save at this time.
RowMoves(p) ==
    \/ row'.status = row.status
    \/ row'.status = "cancelled" /\ row.status \notin TERMINAL_RUN_STATUSES
    \/ /\ row.status \notin TERMINAL_RUN_STATUSES \cup {"waiting_for_approval"}
       /\ \/ p = worker /\ decision = "none"
          \/ p \in Approvers /\ pc[p] \in Resolving

\* What else it changes that others look at.
OwnWork(p) ==
    /\ p # worker => steps'[Workflow] = steps[Workflow]
    /\ Live' => \/ p \in Approvers /\ pc[p] \in Resolving
                \/ UNCHANGED <<steps[Execution], executions>>

LEMMA OthersKeepView ==
    ASSUME IInv, CleanInv, NEW p \in Processes, NEW q \in Processes, q # p,
           pc'[q] = pc[q], st'[q] = st[q], decision' = decision,
           RowMoves(p), OwnWork(p)
    PROVE  View(q)'
<1>1. View(q) /\ WorkerIsOver /\ OneResolves
  BY DEF CleanInv
<1>2. OutcomeIsSaved(q)'
  BY <1>1 DEF View, OutcomeIsSaved, RowMoves, TERMINAL_RUN_STATUSES, Copy
<1>3. ASSUME q = worker, Live' PROVE WorkerCopy'
  <2>1. WorkerCopy /\ steps'[Workflow] = steps[Workflow]
    BY <1>1, <1>3 DEF View, OwnWork
  <2>2. CASE row'.status = row.status
    BY <1>3, <2>1, <2>2 DEF WorkerCopy, Copy, Live
  <2>3. CASE row'.status # row.status
    <3>1. Live /\ decision # "none"
      BY <1>1, <1>3, <2>3 DEF RowMoves, OneResolves, Live, TERMINAL_RUN_STATUSES
    <3>2. \/ pc[worker] \in Stopped
          \/ /\ pc[worker] \in {"ckpt_step", "ckpt_final"}
             /\ st[worker].status = "waiting_for_approval"
      BY <1>1, <3>1 DEF WorkerIsOver
    <3> QED
      BY <1>3, <3>2 DEF WorkerCopy, Stopped, Failing, WorkerTail
  <2> QED BY <2>2, <2>3
<1>4. ASSUME q \in Approvers, Live' PROVE ApproverCopy(q)'
  <2>1. CASE pc[q] \in Resolving
    <3>1. ~(p \in Approvers /\ pc[p] \in Resolving) /\ decision # "none"
      BY <1>1, <1>4, <2>1 DEF OneResolves
    <3>2. row'.status = row.status
      BY <1>4, <3>1 DEF RowMoves, Live
    <3>3. UNCHANGED <<steps[Execution], executions>> /\ ApproverCopy(q)
      BY <1>1, <1>4, <3>1 DEF OwnWork, View
    <3> QED
      BY <1>4, <3>2, <3>3 DEF ApproverCopy, Copy, Live
  <2>2. CASE pc[q] \notin Resolving
    BY <2>2 DEF ApproverCopy, Resolving, BeforeExecution, ApproverTry, Failing,
                Rejecting
  <2> QED BY <2>1, <2>2
<1> QED BY <1>2, <1>3, <1>4 DEF View, WorkerCopy, ApproverCopy, Live

\* A step of process p that decides nothing keeps the invariant if it keeps
\* its own part and the parts about the whole run.
LEMMA CleanStep ==
    ASSUME IInv, CleanInv, NEW p \in Processes,
           \A q \in Processes : q # p => pc'[q] = pc[q] /\ st'[q] = st[q],
           p \in Approvers /\ pc'[p] \in Resolving => pc[p] \in Resolving,
           decision' = decision, RowMoves(p), OwnWork(p), View(p)',
           WorkerIsOver', WorkIsDone', Resumable', CompletedMeansWorkDone',
           OutcomeEventsMatchRow'
    PROVE  CleanInv'
<1>1. \A q \in Processes : View(q)'
  BY OthersKeepView
<1>2. OneResolves'
  BY DEF CleanInv, OneResolves, Processes
<1> QED BY <1>1, <1>2 DEF CleanInv

\* Once it is cancelled a run has nothing left to keep but its report.
LEMMA CancelledStep ==
    ASSUME IInv, CleanInv, NEW p \in Processes,
           \A q \in Processes : q # p => pc'[q] = pc[q] /\ st'[q] = st[q],
           p \in Approvers /\ pc'[p] \in Resolving => pc[p] \in Resolving,
           decision' = decision, row'.status = "cancelled",
           row.status \notin {"completed", "failed"},
           p # worker => steps'[Workflow] = steps[Workflow],
           OutcomeIsSaved(p)', OutcomeEventsMatchRow'
    PROVE  CleanInv'
<1>1. ~Live'
  BY DEF Live
<1>2. RowMoves(p) /\ OwnWork(p)
  BY <1>1 DEF RowMoves, OwnWork, TERMINAL_RUN_STATUSES
<1>3. View(p)' /\ WorkerIsOver' /\ WorkIsDone' /\ Resumable'
      /\ CompletedMeansWorkDone'
  BY <1>1 DEF View, WorkerCopy, ApproverCopy, WorkerIsOver, WorkIsDone,
              Resumable, CompletedMeansWorkDone
<1> QED BY <1>2, <1>3, CleanStep

\* A request that leaves the tables alone, but for a checkpoint.
LEMMA RequestStep ==
    ASSUME IInv, CleanInv, NEW p \in Processes, p # worker,
           \A q \in Processes : q # p => pc'[q] = pc[q] /\ st'[q] = st[q],
           p \in Approvers /\ pc'[p] \in Resolving => pc[p] \in Resolving,
           UNCHANGED <<row, steps, log, decision, executions, crashes>>,
           ckpt' = ckpt \/ row.status # "waiting_for_approval",
           View(p)'
    PROVE  CleanInv'
<1>1. RowMoves(p) /\ OwnWork(p) /\ worker \in Processes
  BY DEF RowMoves, OwnWork, Processes
<1>2. pc'[worker] = pc[worker] /\ st'[worker] = st[worker]
  BY <1>1
<1>3. WorkerIsOver' /\ WorkIsDone' /\ Resumable'
      /\ CompletedMeansWorkDone' /\ OutcomeEventsMatchRow'
  BY <1>2 DEF CleanInv, WorkerIsOver, WorkIsDone, Resumable, Live,
              CompletedMeansWorkDone, OutcomeEventsMatchRow
<1> QED BY <1>1, <1>3, CleanStep

\* The worker before its final save: nobody else saves, nobody has decided.
WorkerIsBusy == pc[worker] \notin WorkerAfterWaiting
WorkerIsAlone == decision = "none" /\ row.status # "waiting_for_approval"

LEMMA BusyIsAlone == IInv /\ WorkerIsBusy => WorkerIsAlone
  BY DEF IInv, ApprovalInv, WaitingIsWrittenOnce, ClaimIsExclusive,
         WorkerIsBusy, WorkerIsAlone

LEMMA WorkerAloneStep ==
    ASSUME IInv, CleanInv, WorkerIsAlone,
           \A q \in Processes : q # worker => pc'[q] = pc[q] /\ st'[q] = st[q],
           UNCHANGED <<decision, executions>>,
           steps'[Execution] = steps[Execution],
           pc'[worker] # "save_final",
           \/ /\ row'.status = row.status
              /\ row.status = "completed" => steps' = steps
           \/ /\ row.status \notin TERMINAL_RUN_STATUSES
              /\ row'.status \notin {"waiting_for_approval", "completed"},
           View(worker)',
           log' = log \/ OutcomeEventsMatchRow'
    PROVE  CleanInv'
<1>1. decision = "none" /\ row.status # "waiting_for_approval"
      /\ worker \in Processes /\ worker \notin Approvers
  BY ActorsAreDistinct DEF WorkerIsAlone, Processes
<1>2. RowMoves(worker) /\ OwnWork(worker)
  BY <1>1 DEF RowMoves, OwnWork, TERMINAL_RUN_STATUSES
<1>3. WorkerIsOver' /\ WorkIsDone' /\ Resumable' /\ CompletedMeansWorkDone'
  BY <1>1 DEF CleanInv, WorkerIsOver, WorkIsDone, Resumable, Live,
              CompletedMeansWorkDone
<1>4. OutcomeEventsMatchRow'
  BY DEF CleanInv, OutcomeEventsMatchRow, TERMINAL_RUN_STATUSES
<1> QED BY <1>1, <1>2, <1>3, <1>4, CleanStep

\* The request that resolves the approval: the worker has stopped saving.
LEMMA ResolvingStep ==
    ASSUME IInv, CleanInv, NEW a \in Approvers, pc[a] \in Resolving,
           \A q \in Processes : q # a => pc'[q] = pc[q] /\ st'[q] = st[q],
           UNCHANGED decision, steps'[Workflow] = steps[Workflow],
           \/ row'.status = row.status
           \/ /\ row.status \notin TERMINAL_RUN_STATUSES
              /\ row'.status # "waiting_for_approval",
           row'.status = "completed" =>
               /\ decision = "approved" /\ executions' = 1
               /\ steps'[Execution] = "succeeded",
           View(a)',
           log' = log \/ OutcomeEventsMatchRow'
    PROVE  CleanInv'
<1>1. /\ a \in Processes /\ worker \in Processes /\ a # worker
      /\ decision # "none" /\ row.status # "waiting_for_approval"
  BY ActorsAreDistinct DEF Processes, CleanInv, OneResolves, IInv, ApprovalInv,
                           ClaimIsExclusive
<1>2. RowMoves(a) /\ OwnWork(a)
  BY <1>1 DEF RowMoves, OwnWork, TERMINAL_RUN_STATUSES
<1>3. pc'[worker] = pc[worker] /\ st'[worker] = st[worker] /\ (Live' => Live)
  BY <1>1 DEF Live, TERMINAL_RUN_STATUSES
<1>4. WorkerIsOver' /\ WorkIsDone' /\ Resumable'
  BY <1>1, <1>3 DEF CleanInv, WorkerIsOver, WorkIsDone, Resumable
<1>5. CompletedMeansWorkDone'
  <2>1. steps'[Workflow] = "succeeded" \/ ~Live'
    BY <1>1, <1>3 DEF CleanInv, WorkIsDone
  <2> QED BY <2>1 DEF CompletedMeansWorkDone, Workflow, Execution, Live
<1>6. OutcomeEventsMatchRow'
  BY DEF CleanInv, OutcomeEventsMatchRow, TERMINAL_RUN_STATUSES
<1> QED BY <1>1, <1>2, <1>4, <1>5, <1>6, CleanStep

-----------------------------------------------------------------------------
(* What the statements do, as far as the invariant can tell.               *)

Moved(p, here, next, status) ==
    /\ pc[p] = here /\ pc'[p] = next /\ st'[p].status = status
    /\ \A q \in Processes : q # p => pc'[q] = pc[q] /\ st'[q] = st[q]

LEMMA CheckpointMoves ==
    ASSUME TypeOK, NEW p \in Processes, NEW here, NEW next,
           NEW status \in RowStatuses, Checkpoint(p, here, next, status)
    PROVE  /\ Moved(p, here, next, status)
           /\ ckpt' = st[p]
           /\ UNCHANGED <<row, steps, log, decision, executions, crashes>>
  BY BecomeType DEF TypeOK, Checkpoint, Goto, Moved, Others, history, budgets

LEMMA RecordEventMoves ==
    ASSUME TypeOK, NEW p \in Processes, NEW here, NEW event, NEW next,
           NEW status \in RowStatuses, RecordEvent(p, here, event, next, status)
    PROVE  /\ Moved(p, here, next, status)
           /\ log' = [log EXCEPT ![event] = @ + 1]
           /\ UNCHANGED <<row, ckpt, steps, decision, executions, crashes>>
  BY BecomeType DEF TypeOK, RecordEvent, Goto, Moved, Others, history, budgets

LEMMA ThrowMoves ==
    ASSUME TypeOK, NEW p \in Processes, Throw(p)
    PROVE  \/ Moved(p, pc[p], "raised", st[p].status)
           \/ /\ p \notin Cancellers /\ pc[p] \in TryOf(p)
              /\ st[p].status \notin TERMINAL_RUN_STATUSES
              /\ \E next \in {"fail_finish", "fail_save"} :
                     Moved(p, pc[p], next, "failed")
<1>1. "failed" \in RowStatuses
  BY DEF RowStatuses, RunStatuses
<1> QED BY <1>1, BecomeType DEF TypeOK, Throw, Goto, Moved

\* A save either writes the copy or finds the run cancelled and raises.
LEMMA SaveMoves ==
    ASSUME TypeOK, NEW p \in Processes, NEW here, NEW next, NEW assigned,
           NEW status \in RowStatuses,
           SaveState(p, here, next, status, assigned)
    PROVE  /\ UNCHANGED <<ckpt, steps, log, decision, executions, crashes>>
           /\ pc[p] = here
           /\ \/ /\ row.status # "absent"
                 /\ row.status # "cancelled" \/ st[p].status = "cancelled"
                 /\ row' = st[p] /\ Moved(p, here, next, status)
              \/ /\ row.status \in {"absent", "cancelled"}
                 /\ row' = row /\ Throw(p)
<1>1. CASE CanSave(st[p])
  BY <1>1, BecomeType DEF TypeOK, SaveState, CanSave, Goto, Moved, Others,
                          history, budgets
<1>2. CASE ~CanSave(st[p])
  BY <1>2 DEF SaveState, CanSave, Others, history, budgets
<1> QED BY <1>1, <1>2

LEMMA StartStepMoves ==
    ASSUME TypeOK, NEW p \in Processes, NEW here, NEW next,
           StartStep(p, here, next)
    PROVE  /\ Moved(p, here, next, "running")
           /\ steps' = [steps EXCEPT ![StepOf(p)] = "running"]
           /\ UNCHANGED <<row, ckpt, log, decision, executions, crashes>>
  BY DEF TypeOK, StartStep, Goto, Moved, Others, history, budgets, AgentState

LEMMA FinishStepMoves ==
    ASSUME TypeOK, NEW p \in Processes, NEW here, NEW outcome, NEW next,
           FinishStep(p, here, outcome, next)
    PROVE  /\ Moved(p, here, next, st[p].status)
           /\ steps' = [steps EXCEPT ![StepOf(p)] = outcome]
           /\ UNCHANGED <<row, ckpt, log, decision, executions, crashes>>
  BY DEF TypeOK, FinishStep, Goto, Moved, Others, history, budgets

-----------------------------------------------------------------------------
(* The worker.                                                             *)

Facts == IInv /\ CleanInv

\* An exception that leaves the try clause of answer before the final save.
LEMMA BusyWorkerThrows ==
    ASSUME Facts, WorkerIsBusy, Throw(worker),
           row.status \in {"running", "verifying", "cancelled"},
           UNCHANGED <<row, steps, log, decision, executions>>
    PROVE  CleanInv'
<1>t. TypeOK /\ worker \in Processes /\ worker \notin Approvers
      /\ decision = "none"
  BY ActorsAreDistinct DEF Facts, IInv, ApprovalInv, Processes,
     ClaimIsExclusive, WorkerIsBusy
<1>1. PICK next \in {"raised", "fail_finish", "fail_save"} :
          /\ Moved(worker, pc[worker], next, st'[worker].status)
          /\ next # "raised" => st'[worker].status = "failed"
  BY <1>t, ThrowMoves DEF Moved
<1>2. View(worker)'
  BY <1>1, <1>t DEF Moved, View, OutcomeIsSaved, WorkerCopy, Copy, Live,
     WorkerTail, Failing
<1> QED BY <1>1, <1>2, BusyIsAlone, WorkerAloneStep DEF Facts, Moved

\* A checkpoint, a start or a silent move of the busy worker.
LEMMA BusyWorkerMoves ==
    ASSUME Facts, WorkerIsBusy, NEW next, NEW status,
           Moved(worker, pc[worker], next, status), next # "save_final",
           UNCHANGED <<row, log, decision, executions>>,
           \/ UNCHANGED steps
           \/ /\ row.status # "completed"
              /\ steps'[Execution] = steps[Execution],
           View(worker)'
    PROVE  CleanInv'
  BY BusyIsAlone, WorkerAloneStep DEF Facts, Moved

\* A save of the busy worker: the row becomes its copy unless it is cancelled.
LEMMA BusyWorkerSaves ==
    ASSUME Facts, WorkerIsBusy, NEW here, NEW assigned,
           NEW next \in {"ckpt_plan", "ckpt_started", "ckpt_verifying"},
           NEW status \in {"planning", "running", "verifying"},
           SaveState(worker, here, next, status, assigned),
           Live => /\ st[worker].status = status
                   /\ row.status \in {"created", "planning", "running"},
           row'.status = status /\ Moved(worker, here, next, status) =>
               View(worker)'
    PROVE  CleanInv'
<1>t. /\ TypeOK /\ worker \in Processes /\ worker \notin Approvers
      /\ status \in RowStatuses
  BY ActorsAreDistinct DEF Facts, IInv, ApprovalInv, Processes, RowStatuses,
                           RunStatuses
<1>m. /\ UNCHANGED <<ckpt, steps, log, decision, executions, crashes>>
      /\ pc[worker] = here
      /\ \/ /\ row.status # "absent"
            /\ row.status # "cancelled" \/ st[worker].status = "cancelled"
            /\ row' = st[worker] /\ Moved(worker, here, next, status)
         \/ /\ row.status \in {"absent", "cancelled"}
            /\ row' = row /\ Throw(worker)
  BY <1>t, SaveMoves
<1>1. CASE Live
  <2>1. row'.status = status /\ Moved(worker, here, next, status)
    BY <1>m, <1>1 DEF Live
  <2> QED
    BY <1>1, <1>m, <2>1, BusyIsAlone, WorkerAloneStep
       DEF Facts, Moved, TERMINAL_RUN_STATUSES
<1>2. CASE ~Live /\ row' = st[worker] /\ Moved(worker, here, next, status)
  <2>1. row.status = "cancelled" /\ row'.status = "cancelled"
    BY <1>m, <1>2 DEF Live, Moved
  <2>2. OutcomeIsSaved(worker)' /\ OutcomeEventsMatchRow'
    BY <1>m, <1>2, <2>1 DEF OutcomeIsSaved, Moved, WorkerTail, Failing, Facts,
                            CleanInv, OutcomeEventsMatchRow
  <2> QED
    BY <1>m, <1>2, <2>1, <2>2, <1>t, CancelledStep DEF Facts, Moved
<1>3. CASE ~Live /\ row' = row /\ Throw(worker)
  BY <1>m, <1>3, BusyWorkerThrows DEF Live
<1> QED BY <1>m, <1>1, <1>2, <1>3

LEMMA AnswerClean == Facts /\ Answer => CleanInv'
<1> SUFFICES ASSUME Facts, Answer PROVE CleanInv'
  OBVIOUS
<1>t. TypeOK /\ worker \in Processes /\ worker \notin Approvers
      /\ st[worker].status \in RowStatuses /\ View(worker)
  BY ActorsAreDistinct DEF Facts, IInv, ApprovalInv, TypeOK, Processes,
     AgentState, CleanInv
<1> USE StatusNames
<1>b. ASSUME pc[worker] \in
          {"create", "ckpt_created", "save_planning", "ckpt_plan", "start",
           "save_running", "ckpt_started", "workflow", "save_verifying",
           "ckpt_verifying", "verify", "finish", "save_final"}
      PROVE  WorkerIsBusy
  BY <1>b DEF WorkerIsBusy, WorkerAfterWaiting, WorkerTail, Failing, Stopped
<1>1. CASE Create
  <2>1. /\ Moved(worker, "create", "ckpt_created", st[worker].status)
        /\ row' = st[worker]
        /\ UNCHANGED <<ckpt, steps, log, decision, executions, crashes>>
    BY <1>1, <1>t DEF Create, Goto, Moved, TypeOK, Others, history, budgets
  <2>2. WorkerIsBusy
    BY <1>1, <1>b DEF Create
  <2>3. row.status = "absent"
    BY <1>1 DEF Create, Facts, IInv, FreshRun
  <2>4. row'.status = "created"
    BY <1>1, <1>t, <2>1, <2>3 DEF Create, View, WorkerCopy, Copy, Live
  <2>5. View(worker)'
    BY <1>t, <2>1, <2>4 DEF Moved, View, OutcomeIsSaved, WorkerCopy, Copy, Live,
       WorkerTail, Failing
  <2> QED
    BY <2>1, <2>2, <2>3, <2>4, <2>5, BusyIsAlone, WorkerAloneStep
       DEF Facts, Moved, TERMINAL_RUN_STATUSES
<1>2. CASE \/ CheckpointCreated \/ CheckpointPlan \/ CheckpointStarted
           \/ CheckpointVerifying
  <2>1. PICK next \in {"save_planning", "start", "workflow", "verify"},
             status \in {"planning", "running", "verifying"} :
            /\ Moved(worker, pc[worker], next, status)
            /\ UNCHANGED <<row, steps, log, decision, executions>>
            /\ \/ pc[worker] = "ckpt_created" /\ next = "save_planning"
                  /\ status = "planning"
               \/ pc[worker] = "ckpt_plan" /\ next = "start"
                  /\ status = "planning"
               \/ pc[worker] = "ckpt_started" /\ next = "workflow"
                  /\ status = "running"
               \/ pc[worker] = "ckpt_verifying" /\ next = "verify"
                  /\ status = "verifying"
    BY <1>2, <1>t, CheckpointMoves DEF CheckpointCreated, CheckpointPlan,
       CheckpointStarted, CheckpointVerifying, Moved
  <2>2. WorkerIsBusy
    BY <2>1, <1>b
  <2>3. View(worker)'
    BY <1>t, <2>1 DEF Moved, View, OutcomeIsSaved, WorkerCopy, Copy, Live,
       WorkerTail, Failing
  <2> QED BY <2>1, <2>2, <2>3, BusyWorkerMoves
<1>3. CASE SavePlanning \/ SaveRunning \/ SaveVerifying
  <2>1. PICK next \in {"ckpt_plan", "ckpt_started", "ckpt_verifying"},
             status \in {"planning", "running", "verifying"},
             assigned \in {stepId[worker], TRUE} :
            /\ SaveState(worker, pc[worker], next, status, assigned)
            /\ \/ pc[worker] = "save_planning" /\ next = "ckpt_plan"
                  /\ status = "planning"
               \/ pc[worker] = "save_running" /\ next = "ckpt_started"
                  /\ status = "running"
               \/ pc[worker] = "save_verifying" /\ next = "ckpt_verifying"
                  /\ status = "verifying"
    BY <1>3 DEF SavePlanning, SaveRunning, SaveVerifying, Save, SaveState
  <2>2. WorkerIsBusy
    BY <2>1, <1>b
  <2>3. Live => /\ st[worker].status = status
                /\ row.status \in {"created", "planning", "running"}
    BY <1>t, <2>1 DEF View, WorkerCopy, Copy
  <2>4. row'.status = status /\ Moved(worker, pc[worker], next, status) =>
            View(worker)'
    BY <1>t, <2>1 DEF Moved, View, OutcomeIsSaved, WorkerCopy, Copy, Live,
       WorkerTail, Failing
  <2> QED BY <2>1, <2>2, <2>3, <2>4, BusyWorkerSaves
<1>4. ASSUME NEW here \in {"start", "workflow", "verify", "save_final"},
             Interrupt(here)
      PROVE  CleanInv'
  <2>1. /\ Moved(worker, pc[worker], "interrupted", st[worker].status)
        /\ UNCHANGED <<row, steps, log, decision, executions>>
        /\ pc[worker] = here
    BY <1>4, <1>t DEF Interrupt, Goto, Moved, TypeOK, durable, Others, history
  <2>2. WorkerIsBusy
    BY <2>1, <1>b
  <2>3. View(worker)'
    BY <1>t, <2>1 DEF Moved, View, OutcomeIsSaved, WorkerCopy, Copy, Live,
       WorkerTail, Failing
  <2> QED BY <2>1, <2>2, <2>3, BusyWorkerMoves
<1>5. CASE StartWorkflow
  <2>1. /\ Moved(worker, "start", "save_running", "running")
        /\ steps' = [steps EXCEPT ![StepOf(worker)] = "running"]
        /\ UNCHANGED <<row, ckpt, log, decision, executions, crashes>>
    BY <1>5, <1>t, StartStepMoves DEF StartWorkflow
  <2>2. WorkerIsBusy /\ pc[worker] = "start"
    BY <2>1, <1>b DEF Moved
  <2>3. steps'[Execution] = steps[Execution]
    BY <2>1 DEF StepOf, Execution, TypeOK, StepType
  <2>4. row.status \in {"planning", "cancelled"}
    BY <1>t, <2>2 DEF View, WorkerCopy, Copy, Live
  <2>5. View(worker)'
    BY <1>t, <2>1, <2>2 DEF Moved, View, OutcomeIsSaved, WorkerCopy, Copy, Live,
       WorkerTail, Failing
  <2> QED BY <2>1, <2>2, <2>3, <2>4, <2>5, BusyWorkerMoves
<1>6. CASE WorkflowFails \/ VerificationFails
  <2>1. /\ pc[worker] \in {"workflow", "verify"} /\ Throw(worker)
        /\ UNCHANGED <<row, steps, log, decision, executions>>
    BY <1>6 DEF WorkflowFails, VerificationFails, durable, Others, history
  <2>2. row.status \in {"running", "verifying", "cancelled"}
    BY <1>t, <2>1 DEF View, WorkerCopy, Copy, Live
  <2> QED BY <2>1, <2>2, <1>b, BusyWorkerThrows
<1>7. CASE WorkflowAnswers \/ VerificationPasses
  <2>1. PICK next \in {"save_verifying", "finish"},
             status \in {"verifying", "completed"} :
            /\ Goto(worker, next) /\ Become(worker, status)
            /\ UNCHANGED <<row, steps, log, decision, executions>>
            /\ \/ pc[worker] = "workflow" /\ next = "save_verifying"
                  /\ status = "verifying"
               \/ pc[worker] = "verify" /\ next = "finish"
                  /\ status = "completed"
    BY <1>7 DEF WorkflowAnswers, VerificationPasses, durable, Others, history
  <2>2. Moved(worker, pc[worker], next, status)
    BY <1>t, <2>1, BecomeType DEF Moved, Goto, TypeOK
  <2>3. WorkerIsBusy
    BY <2>1, <1>b
  <2>4. View(worker)'
    BY <1>t, <2>1, <2>2 DEF Moved, View, OutcomeIsSaved, WorkerCopy, Copy, Live,
       WorkerTail, Failing
  <2> QED BY <2>1, <2>2, <2>3, <2>4, BusyWorkerMoves
<1>8. ASSUME NEW roles \in RoleSets, WorkflowDrafts(roles) PROVE CleanInv'
  <2>1. PICK status \in {"waiting_for_approval", "completed"} :
            /\ Moved(worker, pc[worker], "finish", status)
            /\ pc[worker] = "workflow"
            /\ UNCHANGED <<row, steps, log, decision, executions>>
    BY <1>8, <1>t DEF WorkflowDrafts, Goto, Moved, TypeOK, AgentState, durable,
                      Others, history
  <2>2. WorkerIsBusy
    BY <2>1, <1>b
  <2>3. View(worker)'
    BY <1>t, <2>1 DEF Moved, View, OutcomeIsSaved, WorkerCopy, Copy, Live,
       WorkerTail, Failing
  <2> QED BY <2>1, <2>2, <2>3, BusyWorkerMoves
<1>9. CASE FinishWorkflow
  <2>1. /\ Moved(worker, "finish", "save_final", st[worker].status)
        /\ steps' = [steps EXCEPT ![Workflow] = "succeeded"]
        /\ UNCHANGED <<row, ckpt, log, decision, executions, crashes>>
    BY <1>9, <1>t, FinishStepMoves DEF FinishWorkflow, StepOf, Workflow
  <2>2. decision = "none" /\ row.status # "waiting_for_approval"
    BY <2>1, <1>b DEF Moved, Facts, IInv, ApprovalInv, ClaimIsExclusive,
       WaitingIsWrittenOnce, WorkerIsBusy
  <2>3. /\ steps'[Execution] = steps[Execution]
        /\ steps'[Workflow] = "succeeded"
    BY <2>1, <1>t DEF Workflow, Execution, TypeOK, StepType
  <2>4. View(worker)'
    BY <1>t, <2>1 DEF Moved, View, OutcomeIsSaved, WorkerCopy, Copy, Live,
       WorkerTail, Failing
  <2>5. RowMoves(worker) /\ OwnWork(worker)
    BY <2>1, <2>3 DEF RowMoves, OwnWork
  <2>6. /\ WorkerIsOver' /\ WorkIsDone' /\ Resumable'
        /\ CompletedMeansWorkDone' /\ OutcomeEventsMatchRow'
    BY <2>1, <2>2, <2>3
       DEF Facts, CleanInv, WorkerIsOver, WorkIsDone, Resumable,
           CompletedMeansWorkDone, OutcomeEventsMatchRow, Workflow
  <2> QED
    BY <1>t, <2>1, <2>4, <2>5, <2>6, CleanStep DEF Facts, Moved
<1>10. CASE SaveFinal
  <2>m. /\ UNCHANGED <<ckpt, steps, log, decision, executions, crashes>>
        /\ pc[worker] = "save_final"
        /\ \/ /\ row.status # "absent"
              /\ row.status # "cancelled" \/ st[worker].status = "cancelled"
              /\ row' = st[worker]
              /\ Moved(worker, "save_final", "ckpt_step", st[worker].status)
           \/ /\ row.status \in {"absent", "cancelled"}
              /\ row' = row /\ Throw(worker)
    BY <1>10, <1>t, SaveMoves DEF SaveFinal, Save
  <2>1. WorkerIsBusy /\ decision = "none"
    BY <2>m, <1>b DEF Facts, IInv, ApprovalInv, ClaimIsExclusive, WorkerIsBusy
  <2>2. /\ st[worker].status \in {"waiting_for_approval", "completed"}
        /\ Live => /\ row.status \in {"running", "verifying"}
                   /\ steps[Workflow] = "succeeded"
    BY <2>m, <1>t DEF View, OutcomeIsSaved, WorkerCopy, Copy, Facts, CleanInv,
       WorkIsDone
  <2>3. CASE Live
    <3>1. /\ row' = st[worker]
          /\ Moved(worker, "save_final", "ckpt_step", st[worker].status)
      BY <2>m, <2>2, <2>3 DEF Live
    <3>2. View(worker)'
      BY <1>t, <2>m, <2>1, <2>2, <3>1
         DEF Moved, View, OutcomeIsSaved, WorkerCopy, Copy, Live, WorkerTail,
             Failing
    <3>3. RowMoves(worker) /\ OwnWork(worker)
      BY <2>m, <2>1, <2>2, <2>3 DEF RowMoves, OwnWork, TERMINAL_RUN_STATUSES
    <3>4. WorkerIsOver' /\ WorkIsDone' /\ Resumable'
      BY <2>m, <2>1, <2>2, <2>3, <3>1
         DEF WorkerIsOver, WorkIsDone, Resumable, Moved
    <3>5. CompletedMeansWorkDone' /\ OutcomeEventsMatchRow'
      BY <2>m, <2>1, <2>2, <2>3
         DEF CompletedMeansWorkDone, Workflow, OutcomeEventsMatchRow, Facts,
             CleanInv
    <3> QED
      BY <1>t, <2>m, <3>1, <3>2, <3>3, <3>4, <3>5, CleanStep DEF Facts, Moved
  <2>4. CASE ~Live
    BY <2>m, <2>1, <2>2, <2>4, BusyWorkerThrows DEF Live
  <2> QED BY <2>3, <2>4
<1>11. CASE CheckpointStep \/ CheckpointFinal
  <2>1. PICK next \in {"ckpt_final", "event_completed", "done"} :
            /\ Moved(worker, pc[worker], next, st[worker].status)
            /\ ckpt' = st[worker]
            /\ UNCHANGED <<row, steps, log, decision, executions, crashes>>
            /\ pc[worker] \in {"ckpt_step", "ckpt_final"}
            /\ next = "ckpt_final" <=> pc[worker] = "ckpt_step"
            /\ next = "event_completed" => st[worker].status = "completed"
            /\ next = "done" => st[worker].status # "completed"
    BY <1>11, <1>t, CheckpointMoves DEF CheckpointStep, CheckpointFinal, Moved
  <2>2. View(worker)'
    BY <1>t, <2>1
       DEF Moved, View, OutcomeIsSaved, WorkerCopy, Copy, Live, WorkerTail,
           Failing
  <2>3. RowMoves(worker) /\ OwnWork(worker)
    BY <2>1 DEF RowMoves, OwnWork
  <2>4. WorkerIsOver' /\ WorkIsDone' /\ Resumable'
    BY <1>t, <2>1 DEF WorkerIsOver, WorkIsDone, Resumable, Moved, Facts,
       CleanInv, Live, View, OutcomeIsSaved, Copy, WorkerTail, Stopped
  <2>5. CompletedMeansWorkDone' /\ OutcomeEventsMatchRow'
    BY <2>1 DEF CompletedMeansWorkDone, OutcomeEventsMatchRow, Facts, CleanInv
  <2> QED
    BY <1>t, <2>1, <2>2, <2>3, <2>4, <2>5, CleanStep DEF Facts, Moved
<1>12. CASE EventCompleted
  <2>1. /\ Moved(worker, "event_completed", "done", st[worker].status)
        /\ log' = [log EXCEPT !["run_completed"] = @ + 1]
        /\ UNCHANGED <<row, ckpt, steps, decision, executions, crashes>>
    BY <1>12, <1>t, RecordEventMoves DEF EventCompleted
  <2>2. row.status = "completed"
    BY <1>t, <2>1 DEF View, OutcomeIsSaved, Moved
  <2>3. View(worker)' /\ RowMoves(worker) /\ OwnWork(worker)
    BY <1>t, <2>1
       DEF Moved, View, OutcomeIsSaved, WorkerCopy, WorkerTail, Failing,
           RowMoves, OwnWork
  <2>4. WorkerIsOver' /\ WorkIsDone' /\ Resumable' /\ CompletedMeansWorkDone'
    BY <2>1, <2>2
       DEF WorkerIsOver, WorkIsDone, Resumable, Moved, Facts, CleanInv, Live,
           Stopped, CompletedMeansWorkDone
  <2>5. OutcomeEventsMatchRow'
    BY <1>t, <2>1, <2>2
       DEF OutcomeEventsMatchRow, Facts, CleanInv, TypeOK, EventType
  <2> QED
    BY <1>t, <2>1, <2>3, <2>4, <2>5, CleanStep DEF Facts, Moved
<1> QED
  BY <1>1, <1>2, <1>3, <1>4, <1>5, <1>6, <1>7, <1>8, <1>9, <1>10, <1>11, <1>12
     DEF Answer

-----------------------------------------------------------------------------
(* The except clause.                                                      *)

\* Any step of the worker when it is alone, or of the request that resolves
\* the approval, that completes nothing and leaves a finished run as it is.
LEMMA OwnStep ==
    ASSUME Facts, NEW p \in {worker} \cup Approvers,
           p = worker /\ Live => WorkerIsAlone,
           p \in Approvers => pc[p] \in Resolving,
           \A q \in Processes : q # p => pc'[q] = pc[q] /\ st'[q] = st[q],
           decision' = decision,
           p = worker => /\ UNCHANGED <<steps[Execution], executions>>
                         /\ pc'[p] # "save_final",
           p # worker => steps'[Workflow] = steps[Workflow],
           \/ /\ row'.status = row.status
              /\ row.status = "completed" => UNCHANGED <<steps, executions>>
           \/ /\ row.status \notin TERMINAL_RUN_STATUSES
              /\ row'.status \notin {"waiting_for_approval", "completed"},
           View(p)',
           log' = log \/ OutcomeEventsMatchRow'
    PROVE  CleanInv'
<1>t. p \in Processes /\ (p = worker => p \notin Approvers)
  BY ActorsAreDistinct DEF Processes
<1>1. CASE ~Live
  <2>1. /\ row.status = "cancelled" /\ row'.status = "cancelled"
        /\ OutcomeIsSaved(p)'
    BY <1>1 DEF Live, View, TERMINAL_RUN_STATUSES
  <2>2. OutcomeEventsMatchRow'
    BY <2>1 DEF Facts, CleanInv, OutcomeEventsMatchRow
  <2> QED BY <1>t, <2>1, <2>2, CancelledStep DEF Facts
<1>2. CASE Live /\ p = worker
  BY <1>2, WorkerAloneStep DEF Facts
<1>3. CASE Live /\ p \in Approvers
  <2>1. row'.status = "completed" =>
            /\ decision = "approved" /\ executions' = 1
            /\ steps'[Execution] = "succeeded"
    BY <1>3 DEF Facts, CleanInv, CompletedMeansWorkDone, OneResolves, Execution
  <2> QED BY <1>t, <1>3, <2>1, ResolvingStep DEF Facts
<1> QED BY <1>1, <1>2, <1>3

\* A save that finds the run cancelled, or the exception that follows.
LEMMA OwnThrow ==
    ASSUME Facts, NEW p \in {worker} \cup Approvers,
           p = worker /\ Live => WorkerIsAlone,
           p \in Approvers => pc[p] \in Resolving,
           Throw(p), pc[p] \in TryOf(p) => row.status \in {"running", "verifying", "cancelled"},
           UNCHANGED <<row, steps, log, decision>>,
           p = worker \/ row.status = "completed" => UNCHANGED executions
    PROVE  CleanInv'
<1>t. TypeOK /\ p \in Processes /\ p \notin Cancellers
      /\ worker \notin Approvers
  BY ActorsAreDistinct DEF Facts, IInv, ApprovalInv, Processes
<1>1. PICK next \in {"raised", "fail_finish", "fail_save"} :
          /\ Moved(p, pc[p], next, st'[p].status)
          /\ next # "raised" => /\ st'[p].status = "failed"
                                /\ pc[p] \in TryOf(p)
  BY <1>t, ThrowMoves DEF Moved
<1>2. p = worker /\ Live => decision = "none"
  BY DEF WorkerIsAlone
<1>3. View(p)'
  BY <1>1, <1>2, <1>t DEF Moved, View, OutcomeIsSaved, WorkerCopy, ApproverCopy,
     Copy, Live, WorkerTail, Failing, BeforeExecution, ApproverTry
<1> QED BY <1>1, <1>3, OwnStep DEF Moved

LEMMA FailClean ==
    ASSUME Facts, NEW p \in {worker} \cup Approvers, Fail(p)
    PROVE  CleanInv'
<1>t. /\ TypeOK /\ p \in Processes /\ View(p) /\ p \notin Cancellers
      /\ "failed" \in RowStatuses /\ worker \notin Approvers
      /\ steps \in [StepType -> StepStatus] /\ log \in [EventType -> Nat]
  BY ActorsAreDistinct DEF Facts, IInv, ApprovalInv, TypeOK, Processes, CleanInv,
     RowStatuses, RunStatuses
<1>a. pc[p] \in Failing => /\ p = worker /\ Live => WorkerIsAlone
                           /\ p \in Approvers => pc[p] \in Resolving
  BY <1>t DEF Facts, CleanInv, View, WorkerCopy, WorkerIsOver, WorkerIsAlone,
     Failing, Stopped, Resolving
<1>1. CASE FailFinish(p)
  <2>1. /\ Moved(p, "fail_finish", "fail_save", st[p].status)
        /\ steps' = [steps EXCEPT ![StepOf(p)] = "failed"]
        /\ UNCHANGED <<row, ckpt, log, decision, executions, crashes>>
    BY <1>1, <1>t, FinishStepMoves DEF FailFinish
  <2>2. /\ p = worker => steps'[Execution] = steps[Execution]
        /\ p # worker => steps'[Workflow] = steps[Workflow]
    BY <2>1, <1>t DEF StepOf, Workflow, Execution, StepType
  <2>3. /\ pc[p] \in Failing
        /\ row.status \in {"running", "verifying", "cancelled"}
    BY <2>1, <1>t DEF Moved, Failing, View, WorkerCopy, ApproverCopy, Live
  <2>4. View(p)'
    BY <1>t, <2>1 DEF Moved, View, OutcomeIsSaved, WorkerCopy, ApproverCopy,
       Copy, Live, WorkerTail, Failing, BeforeExecution, ApproverTry
  <2> QED BY <1>a, <2>1, <2>2, <2>3, <2>4, OwnStep DEF Moved
<1>2. CASE FailSave(p)
  <2>1. /\ UNCHANGED <<ckpt, steps, log, decision, executions, crashes>>
        /\ pc[p] = "fail_save"
        /\ \/ /\ row.status # "absent"
              /\ row.status # "cancelled" \/ st[p].status = "cancelled"
              /\ row' = st[p] /\ Moved(p, "fail_save", "event_failed", "failed")
           \/ /\ row.status \in {"absent", "cancelled"}
              /\ row' = row /\ Throw(p)
    BY <1>2, <1>t, SaveMoves DEF FailSave, Save
  <2>2. /\ pc[p] \in Failing /\ st[p].status = "failed"
        /\ row.status \in {"running", "verifying", "cancelled"}
    BY <2>1, <1>t DEF Failing, View, OutcomeIsSaved, WorkerCopy, ApproverCopy,
       Live
  <2>3. CASE row' = st[p] /\ Moved(p, "fail_save", "event_failed", "failed")
             /\ Live
    <3>1. View(p)'
      BY <1>t, <2>1, <2>2, <2>3
         DEF Moved, View, OutcomeIsSaved, WorkerCopy, ApproverCopy, Copy, Live,
             WorkerTail, Failing, BeforeExecution, ApproverTry
    <3>2. row'.status = "failed" /\ row.status \notin TERMINAL_RUN_STATUSES
      BY <2>2, <2>3 DEF Live, TERMINAL_RUN_STATUSES
    <3> QED BY <1>a, <2>1, <2>2, <2>3, <3>1, <3>2, OwnStep DEF Moved
  <2>4. CASE row' = row /\ Throw(p)
    BY <1>a, <2>1, <2>2, <2>4, OwnThrow
  <2> QED BY <2>1, <2>2, <2>3, <2>4 DEF Live
<1>3. CASE FailEvent(p)
  <2>1. /\ Moved(p, "event_failed", "ckpt_failed", "failed")
        /\ log' = [log EXCEPT !["run_failed"] = @ + 1]
        /\ UNCHANGED <<row, ckpt, steps, decision, executions, crashes>>
    BY <1>3, <1>t, RecordEventMoves DEF FailEvent
  <2>2. pc[p] \in Failing /\ row.status = "failed"
    BY <2>1, <1>t DEF Moved, Failing, View, OutcomeIsSaved
  <2>3. View(p)'
    BY <1>t, <2>1 DEF Moved, View, OutcomeIsSaved, WorkerCopy, ApproverCopy,
       Copy, Live, WorkerTail, Failing, BeforeExecution, ApproverTry
  <2>4. OutcomeEventsMatchRow'
    BY <1>t, <2>1, <2>2
       DEF OutcomeEventsMatchRow, Facts, CleanInv, EventType
  <2> QED BY <1>a, <2>1, <2>2, <2>3, <2>4, OwnStep DEF Moved
<1>4. CASE FailCheckpoint(p)
  <2>1. /\ Moved(p, "ckpt_failed", "raised", "failed")
        /\ UNCHANGED <<row, steps, log, decision, executions, crashes>>
    BY <1>4, <1>t, CheckpointMoves DEF FailCheckpoint
  <2>2. pc[p] \in Failing
    BY <2>1 DEF Moved, Failing
  <2>3. View(p)'
    BY <1>t, <2>1 DEF Moved, View, OutcomeIsSaved, WorkerCopy, ApproverCopy,
       Copy, Live, WorkerTail, Failing, BeforeExecution, ApproverTry
  <2> QED BY <1>a, <2>1, <2>2, <2>3, OwnStep DEF Moved
<1> QED BY <1>1, <1>2, <1>3, <1>4 DEF Fail

-----------------------------------------------------------------------------
(* Cancellation.                                                           *)

\* Every statement after a cancellation was claimed, or seen by the worker.
Undoing == {"cancel_finish", "cancel_save", "cancel_event", "cancel_ckpt",
            "late_finish", "late_save"}

LEMMA UndoingStep ==
    ASSUME Facts, NEW p \in {worker} \cup Cancellers, pc[p] \in Undoing,
           NEW next \in Undoing \cup {"raised", "signal"},
           Moved(p, pc[p], next, st'[p].status), decision' = decision,
           row'.status = "cancelled",
           p # worker => steps'[Workflow] = steps[Workflow],
           log' = log \/ OutcomeEventsMatchRow'
    PROVE  CleanInv'
<1>t. p \in Processes /\ p \notin Approvers
  BY ActorsAreDistinct DEF Processes
<1>1. row.status = "cancelled"
  BY <1>t DEF Facts, CleanInv, View, OutcomeIsSaved, Undoing
<1>2. OutcomeIsSaved(p)'
  BY DEF OutcomeIsSaved, Moved, Undoing, WorkerTail, Failing
<1>3. OutcomeEventsMatchRow'
  BY <1>1 DEF Facts, CleanInv, OutcomeEventsMatchRow
<1> QED BY <1>t, <1>1, <1>2, <1>3, CancelledStep DEF Facts, Moved

LEMMA UndoingSave ==
    ASSUME Facts, NEW p \in {worker} \cup Cancellers,
           NEW here \in {"cancel_save", "late_save"},
           NEW next \in {"cancel_event", "raised"},
           Save(p, here, next, "cancelled")
    PROVE  CleanInv'
<1>t. /\ TypeOK /\ p \in Processes /\ View(p) /\ "cancelled" \in RowStatuses
  BY DEF Facts, IInv, ApprovalInv, Processes, CleanInv, RowStatuses, RunStatuses
<1>1. /\ UNCHANGED <<ckpt, steps, log, decision, executions, crashes>>
      /\ pc[p] = here
      /\ \/ /\ row.status # "absent"
            /\ row.status # "cancelled" \/ st[p].status = "cancelled"
            /\ row' = st[p] /\ Moved(p, here, next, "cancelled")
         \/ /\ row.status \in {"absent", "cancelled"}
            /\ row' = row /\ Throw(p)
  BY <1>t, SaveMoves DEF Save
<1>2. row.status = "cancelled" /\ pc[p] \in Undoing
  BY <1>t, <1>1 DEF View, OutcomeIsSaved, Undoing
<1>3. \E to \in {next, "raised"} : Moved(p, here, to, st'[p].status)
  <2>1. CASE Throw(p)
    <3>1. pc[p] \notin TryOf(p) \/ p \in Cancellers
      BY <1>1 DEF TryOf, WorkerTry, WorkerTail, ApproverTry
    <3> QED BY <1>t, <1>1, <2>1, <3>1, ThrowMoves DEF Moved
  <2> QED BY <1>1, <2>1 DEF Moved
<1>4. row'.status = "cancelled"
  BY <1>1, <1>2
<1>5. PICK to \in {next, "raised"} : Moved(p, here, to, st'[p].status)
  BY <1>3
<1>6. to \in Undoing \cup {"raised", "signal"}
  BY DEF Undoing
<1> QED BY <1>1, <1>2, <1>4, <1>5, <1>6, UndoingStep

LEMMA CancelClean ==
    ASSUME Facts, NEW p \in {worker} \cup Cancellers, Cancel(p)
    PROVE  CleanInv'
<1>t. /\ TypeOK /\ p \in Processes /\ View(p) /\ p \notin Approvers
      /\ "cancelled" \in RowStatuses /\ row \in AgentState
      /\ steps \in [StepType -> StepStatus] /\ log \in [EventType -> Nat]
      /\ st \in [Processes -> AgentState]
  BY ActorsAreDistinct DEF Facts, IInv, ApprovalInv, TypeOK, Processes, CleanInv,
     RowStatuses, RunStatuses
<1>1. CASE ClaimCancellation(p) /\ ClaimableCancellation
  <2>1. /\ row'.status = "cancelled"
        /\ UNCHANGED <<ckpt, steps, log, decision, executions, crashes>>
        /\ \E next \in {"cancel_finish", "cancel_save"} :
               Moved(p, "claim_cancel", next, st'[p].status)
    BY <1>1, <1>t DEF ClaimCancellation, Goto, Moved, TypeOK, AgentState,
       Others, history, budgets
  <2>2. row.status \notin TERMINAL_RUN_STATUSES
    BY <1>1 DEF ClaimableCancellation
  <2>3. OutcomeIsSaved(p)'
    BY <2>1 DEF OutcomeIsSaved, Moved, WorkerTail, Failing
  <2>4. OutcomeEventsMatchRow'
    BY <2>1, <2>2 DEF Facts, CleanInv, OutcomeEventsMatchRow,
       TERMINAL_RUN_STATUSES
  <2> QED
    BY <1>t, <2>1, <2>2, <2>3, <2>4, CancelledStep
       DEF Facts, Moved, TERMINAL_RUN_STATUSES
<1>2. CASE ClaimCancellation(p) /\ ~ClaimableCancellation
  <2>1. /\ UNCHANGED <<row, ckpt, steps, log, decision, executions, crashes>>
        /\ pc[p] = "claim_cancel"
        /\ \E next \in {"raised", "refused"} :
               Moved(p, "claim_cancel", next, st[p].status)
    BY <1>2, <1>t DEF ClaimCancellation, Goto, Moved, TypeOK, Others, history,
       budgets
  <2>2. View(p)'
    BY <1>t, <2>1 DEF View, OutcomeIsSaved, WorkerCopy, Moved, WorkerTail,
       Failing
  <2>3. CASE p = worker
    <3>1. WorkerIsBusy
      BY <2>1, <2>3 DEF WorkerIsBusy, WorkerAfterWaiting, WorkerTail, Failing,
         Stopped
    <3> QED BY <2>1, <2>2, <2>3, <3>1, BusyWorkerMoves
  <2>4. CASE p # worker
    BY <1>t, <2>1, <2>2, <2>4, RequestStep DEF Facts, Moved
  <2> QED BY <2>3, <2>4
<1>3. CASE CancelFinish(p)
  <2>1. /\ Moved(p, "cancel_finish", "cancel_save", st[p].status)
        /\ steps' = [steps EXCEPT ![StepOf(p)] = "cancelled"]
        /\ UNCHANGED <<row, ckpt, log, decision, executions, crashes>>
    BY <1>3, <1>t, FinishStepMoves DEF CancelFinish
  <2>2. row.status = "cancelled"
    BY <1>t, <2>1 DEF View, OutcomeIsSaved, Moved
  <2>3. p # worker => steps'[Workflow] = steps[Workflow]
    BY <2>1, <1>t DEF StepOf, Workflow, StepType
  <2> QED
    BY <2>1, <2>2, <2>3, UndoingStep DEF Undoing, Moved
<1>4. CASE CancelSave(p)
  BY <1>4, UndoingSave DEF CancelSave
<1>5. CASE CancelEvent(p)
  <2>1. PICK event \in {"client_disconnected", "user_requested"} :
            /\ Moved(p, "cancel_event", "cancel_ckpt", "cancelled")
            /\ log' = [log EXCEPT ![event] = @ + 1]
            /\ UNCHANGED <<row, ckpt, steps, decision, executions, crashes>>
    BY <1>5, <1>t, RecordEventMoves DEF CancelEvent
  <2>2. row.status = "cancelled"
    BY <1>t, <2>1 DEF View, OutcomeIsSaved, Moved
  <2>3. OutcomeEventsMatchRow'
    BY <1>t, <2>1, <2>2
       DEF OutcomeEventsMatchRow, Facts, CleanInv, EventType
  <2> QED
    BY <2>1, <2>2, <2>3, UndoingStep DEF Undoing, Moved
<1>6. CASE CancelCheckpoint(p)
  <2>1. PICK next \in {"raised", "signal"} :
            /\ Moved(p, "cancel_ckpt", next, "cancelled")
            /\ UNCHANGED <<row, steps, log, decision, executions, crashes>>
    BY <1>6, <1>t, CheckpointMoves DEF CancelCheckpoint
  <2>2. row.status = "cancelled"
    BY <1>t, <2>1 DEF View, OutcomeIsSaved, Moved
  <2> QED BY <2>1, <2>2, UndoingStep DEF Undoing, Moved
<1> QED BY <1>1, <1>2, <1>3, <1>4, <1>5, <1>6 DEF Cancel

LEMMA InterruptedClean == Facts /\ Interrupted => CleanInv'
<1> SUFFICES ASSUME Facts, Interrupted PROVE CleanInv'
  OBVIOUS
<1>t. TypeOK /\ worker \in Processes /\ worker \notin Approvers /\ View(worker)
  BY ActorsAreDistinct DEF Facts, IInv, ApprovalInv, Processes, CleanInv
<1>1. CASE LoadInterrupted
  <2>1. PICK next \in {"claim_cancel", "late_finish", "late_save"} :
            /\ Moved(worker, pc[worker], next, row.status)
            /\ pc[worker] = "interrupted"
            /\ next = "claim_cancel" <=> row.status # "cancelled"
            /\ UNCHANGED <<row, steps, log, decision, executions>>
    BY <1>1, <1>t DEF LoadInterrupted, Goto, Moved, TypeOK, durable, Others,
       history
  <2>2. WorkerIsBusy
    BY <2>1 DEF WorkerIsBusy, WorkerAfterWaiting, WorkerTail, Failing, Stopped
  <2>3. View(worker)'
    BY <1>t, <2>1 DEF Moved, View, OutcomeIsSaved, WorkerCopy, Copy, Live,
       WorkerTail, Failing
  <2> QED BY <2>1, <2>2, <2>3, BusyWorkerMoves
<1>2. CASE LateFinish
  <2>1. /\ Moved(worker, "late_finish", "late_save", st[worker].status)
        /\ UNCHANGED <<row, ckpt, log, decision, executions, crashes>>
    BY <1>2, <1>t, FinishStepMoves DEF LateFinish
  <2>2. row.status = "cancelled"
    BY <1>t, <2>1 DEF View, OutcomeIsSaved, Moved
  <2> QED BY <2>1, <2>2, UndoingStep DEF Undoing, Moved
<1>3. CASE LateSave
  BY <1>3, UndoingSave DEF LateSave
<1> QED BY <1>1, <1>2, <1>3 DEF Interrupted

LEMMA RequestCancellationClean ==
    ASSUME Facts, NEW c \in Cancellers,
           \/ RequestCancellation(c) \/ Disconnect(c)
           \/ LoadForCancellation(c) \/ Signal(c)
    PROVE  CleanInv'
<1>t. /\ TypeOK /\ c \in Processes /\ c # worker /\ c \notin Approvers
  BY ActorsAreDistinct DEF Facts, IInv, ApprovalInv, Processes
<1>1. /\ UNCHANGED <<row, ckpt, steps, log, decision, executions, crashes>>
      /\ pc'[c] \in {"load", "claim_cancel", "refused", "done"}
      /\ \A q \in Processes : q # c => pc'[q] = pc[q] /\ st'[q] = st[q]
  BY <1>t DEF RequestCancellation, Disconnect, LoadForCancellation, Signal,
     Goto, TypeOK, durable, Others, history, budgets
<1>2. View(c)'
  BY <1>t, <1>1 DEF View, OutcomeIsSaved, Failing
<1> QED BY <1>t, <1>1, <1>2, RequestStep DEF Facts

-----------------------------------------------------------------------------
(* The approval requests.                                                  *)

LEMMA RequestApprovalClean ==
    ASSUME Facts, NEW a \in Approvers, NEW roles \in RoleSets,
           NEW approved \in BOOLEAN, RequestApproval(a, roles, approved)
    PROVE  CleanInv'
<1>t. TypeOK /\ a \in Processes /\ a # worker
  BY ActorsAreDistinct DEF Facts, IInv, ApprovalInv, Processes
<1>1. /\ UNCHANGED <<row, ckpt, steps, log, decision, executions, crashes>>
      /\ pc'[a] \in {"claim", "refused"}
      /\ \A q \in Processes : q # a => pc'[q] = pc[q] /\ st'[q] = st[q]
  BY <1>t DEF RequestApproval, Goto, TypeOK, durable, history, budgets
<1>2. View(a)' /\ pc'[a] \notin Resolving
  BY <1>t, <1>1 DEF View, OutcomeIsSaved, ApproverCopy, Failing, BeforeExecution,
     ApproverTry, Resolving, Rejecting
<1> QED BY <1>t, <1>1, <1>2, RequestStep DEF Facts

\* The one step that takes a run out of its pause.
LEMMA ClaimApprovalClean ==
    ASSUME Facts, NEW a \in Approvers, ClaimApproval(a)
    PROVE  CleanInv'
<1>t. /\ TypeOK /\ a \in Processes /\ a # worker /\ worker \in Processes
      /\ row \in AgentState /\ st \in [Processes -> AgentState]
      /\ pc \in [Processes -> ProgramPoints]
  BY ActorsAreDistinct DEF Facts, IInv, ApprovalInv, TypeOK, Processes
<1>1. CASE ClaimableApproval
  <2>1. /\ row.status = "waiting_for_approval" /\ row'.status = "running"
        /\ Moved(a, "claim", "received", "running")
        /\ decision' # "none"
        /\ UNCHANGED <<ckpt, steps, log, executions, crashes>>
    BY <1>1, <1>t DEF ClaimApproval, ClaimableApproval, Goto, Moved, AgentState,
       budgets
  <2>2. decision = "none" /\ \A b \in Approvers : pc[b] \notin Resolving
    BY <2>1 DEF Facts, IInv, ApprovalInv, ClaimIsExclusive, CleanInv, OneResolves
  <2>3. View(a)'
    BY <1>t, <2>1 DEF View, OutcomeIsSaved, ApproverCopy, Copy, Moved, Failing,
       BeforeExecution, ApproverTry
  <2>4. WorkerIsOver /\ Live /\ pc'[worker] = pc[worker]
        /\ st'[worker] = st[worker] /\ View(worker)
    BY <1>t, <2>1 DEF Facts, CleanInv, Moved, Live
  <2>5. /\ \/ pc[worker] \in Stopped
           \/ /\ pc[worker] \in {"ckpt_step", "ckpt_final"}
              /\ st[worker].status = "waiting_for_approval"
        /\ steps[Workflow] = "succeeded"
    BY <2>1, <2>4 DEF WorkerIsOver, Facts, CleanInv, WorkIsDone
  <2>6. View(worker)'
    BY <1>t, <2>4, <2>5, ActorsAreDistinct
       DEF View, OutcomeIsSaved, WorkerCopy, Stopped, Failing, WorkerTail
  <2>7. ASSUME NEW q \in Processes, q # a, q # worker PROVE View(q)'
    <3>1. pc'[q] = pc[q] /\ st'[q] = st[q] /\ View(q)
      BY <2>1, <2>7 DEF Moved, Facts, CleanInv
    <3>2. OutcomeIsSaved(q)'
      BY <2>1, <2>7, <3>1 DEF View, OutcomeIsSaved
    <3>3. q \in Approvers => ApproverCopy(q)'
      BY <2>2, <3>1 DEF ApproverCopy, Resolving, BeforeExecution, ApproverTry,
         Failing, Rejecting
    <3> QED BY <2>7, <3>2, <3>3 DEF View
  <2>8. OneResolves'
    BY <2>1, <2>2 DEF OneResolves, Moved, Processes
  <2>9. /\ WorkerIsOver' /\ WorkIsDone' /\ Resumable'
        /\ CompletedMeansWorkDone' /\ OutcomeEventsMatchRow'
    BY <2>1, <2>4, <2>5 DEF WorkerIsOver, WorkIsDone, Resumable, Facts, CleanInv,
       CompletedMeansWorkDone, OutcomeEventsMatchRow
  <2> QED BY <2>3, <2>6, <2>7, <2>8, <2>9 DEF CleanInv
<1>2. CASE ~ClaimableApproval
  <2>1. /\ UNCHANGED <<row, ckpt, steps, log, decision, executions, crashes>>
        /\ Moved(a, "claim", "refused", st[a].status)
    BY <1>2, <1>t DEF ClaimApproval, Goto, Moved, budgets
  <2>2. View(a)' /\ pc'[a] \notin Resolving
    BY <1>t, <2>1 DEF View, OutcomeIsSaved, ApproverCopy, Moved, Failing,
       BeforeExecution, ApproverTry, Resolving, Rejecting
  <2> QED BY <1>t, <2>1, <2>2, RequestStep DEF Facts, Moved
<1> QED BY <1>1, <1>2

\* A checkpoint of the request, which keeps the row and the steps.
LEMMA ApproverMoves ==
    ASSUME Facts, NEW a \in Approvers, pc[a] \in Resolving, NEW next, NEW status,
           Moved(a, pc[a], next, status),
           UNCHANGED <<row, steps, decision, executions>>,
           log' = log \/ OutcomeEventsMatchRow',
           View(a)'
    PROVE  CleanInv'
  BY OwnStep, ActorsAreDistinct DEF Moved

\* A save of the request: the row becomes its copy unless it is cancelled.
LEMMA ApproverSaves ==
    ASSUME Facts, NEW a \in Approvers, pc[a] \in Resolving,
           NEW here, NEW next, NEW assigned,
           NEW status \in {"running", "verifying", "cancelled"},
           SaveState(a, here, next, status, assigned),
           Live => /\ st[a].status = status
                   /\ row.status \in {"running", "verifying"},
           next \notin {"event_completed", "event_failed"},
           Live /\ row'.status = status /\ Moved(a, here, next, status) =>
               View(a)',
           row'.status = "cancelled" /\ Moved(a, here, next, status) =>
               OutcomeIsSaved(a)'
    PROVE  CleanInv'
<1>t. /\ TypeOK /\ a \in Processes /\ a # worker /\ a \notin Cancellers
      /\ status \in RowStatuses
  BY ActorsAreDistinct DEF Facts, IInv, ApprovalInv, Processes, RowStatuses,
                           RunStatuses
<1>m. /\ UNCHANGED <<ckpt, steps, log, decision, executions, crashes>>
      /\ pc[a] = here
      /\ \/ /\ row.status # "absent"
            /\ row.status # "cancelled" \/ st[a].status = "cancelled"
            /\ row' = st[a] /\ Moved(a, here, next, status)
         \/ /\ row.status \in {"absent", "cancelled"}
            /\ row' = row /\ Throw(a)
  BY <1>t, SaveMoves
<1>1. CASE Live
  <2>1. row'.status = status /\ Moved(a, here, next, status)
    BY <1>m, <1>1 DEF Live
  <2> QED
    BY <1>1, <1>m, <1>t, <2>1, OwnStep DEF Moved, TERMINAL_RUN_STATUSES
<1>2. CASE ~Live /\ row' = st[a] /\ Moved(a, here, next, status)
  <2>1. row.status = "cancelled" /\ row'.status = "cancelled"
    BY <1>m, <1>2 DEF Live
  <2>2. OutcomeEventsMatchRow'
    BY <1>m, <2>1 DEF Facts, CleanInv, OutcomeEventsMatchRow
  <2> QED
    BY <1>m, <1>2, <2>1, <2>2, <1>t, CancelledStep DEF Facts, Moved
<1>3. CASE ~Live /\ row' = row /\ Throw(a)
  BY <1>m, <1>3, <1>t, OwnThrow DEF Live
<1> QED BY <1>m, <1>1, <1>2, <1>3

LEMMA ResolveClean ==
    ASSUME Facts, NEW a \in Approvers, Resolve(a)
    PROVE  CleanInv'
<1>t. /\ TypeOK /\ a \in Processes /\ a # worker /\ View(a)
      /\ steps \in [StepType -> StepStatus] /\ log \in [EventType -> Nat]
  BY ActorsAreDistinct DEF Facts, IInv, ApprovalInv, TypeOK, Processes, CleanInv
<1> USE StatusNames
<1>1. CASE \/ CheckpointApproved(a) \/ CheckpointExecuting(a)
           \/ CheckpointResult(a) \/ CheckpointVerifyingResult(a)
           \/ CheckpointCompleted(a) \/ CheckpointRejected(a)
  <2>1. PICK next \in {"start", "execute", "save_verifying", "save_completed",
                       "done"},
             status \in {"running", "verifying", "completed", "cancelled"} :
            /\ Moved(a, pc[a], next, status)
            /\ UNCHANGED <<row, steps, log, decision, executions>>
            /\ \/ pc[a] = "ckpt_approved" /\ next = "start"
                  /\ status = "running"
               \/ pc[a] = "ckpt_executing" /\ next = "execute"
                  /\ status = "running"
               \/ pc[a] = "ckpt_result" /\ next = "save_verifying"
                  /\ status = "verifying"
               \/ pc[a] = "ckpt_verifying" /\ next = "save_completed"
                  /\ status = "completed"
               \/ pc[a] \in {"ckpt_completed", "ckpt_rejected"} /\ next = "done"
    BY <1>1, <1>t, CheckpointMoves
       DEF CheckpointApproved, CheckpointExecuting, CheckpointResult,
           CheckpointVerifyingResult, CheckpointCompleted, CheckpointRejected,
           Moved
  <2>2. pc[a] \in Resolving
    BY <2>1 DEF Resolving, BeforeExecution, ApproverTry, Rejecting
  <2>3. View(a)'
    BY <1>t, <2>1 DEF Moved, View, OutcomeIsSaved, ApproverCopy, Copy, Live,
       Failing, BeforeExecution, ApproverTry
  <2> QED BY <2>1, <2>2, <2>3, ApproverMoves
<1>2. CASE \/ SaveApproved(a) \/ SaveStarted(a) \/ SaveCounted(a)
           \/ SaveResult(a) \/ SaveVerifyingResult(a) \/ SaveRejected(a)
  <2>1. PICK next \in {"ckpt_approved", "save_counted", "ckpt_executing",
                       "ckpt_result", "ckpt_verifying", "event_rejected"},
             status \in {"running", "verifying", "cancelled"},
             assigned \in {stepId[a], TRUE} :
            /\ SaveState(a, pc[a], next, status, assigned)
            /\ \/ pc[a] = "save_approved" /\ next = "ckpt_approved"
                  /\ status = "running"
               \/ pc[a] = "save_started" /\ next = "save_counted"
                  /\ status = "running"
               \/ pc[a] = "save_counted" /\ next = "ckpt_executing"
                  /\ status = "running"
               \/ pc[a] = "save_result" /\ next = "ckpt_result"
                  /\ status = "running"
               \/ pc[a] = "save_verifying" /\ next = "ckpt_verifying"
                  /\ status = "verifying"
               \/ pc[a] = "save_rejected" /\ next = "event_rejected"
                  /\ status = "cancelled"
    BY <1>2 DEF SaveApproved, SaveStarted, SaveCounted, SaveResult,
       SaveVerifyingResult, SaveRejected, Save, SaveState
  <2>2. pc[a] \in Resolving
    BY <2>1 DEF Resolving, BeforeExecution, ApproverTry, Rejecting
  <2>3. Live => /\ st[a].status = status
                /\ row.status \in {"running", "verifying"}
    BY <1>t, <2>1 DEF View, ApproverCopy, Copy, BeforeExecution
  <2>4. Live /\ row'.status = status /\ Moved(a, pc[a], next, status)
        /\ UNCHANGED <<steps, decision, executions>> => View(a)'
    BY <1>t, <2>1 DEF Moved, View, OutcomeIsSaved, ApproverCopy, Copy, Live,
       Failing, BeforeExecution, ApproverTry
  <2>5. row'.status = "cancelled" /\ Moved(a, pc[a], next, status) =>
            OutcomeIsSaved(a)'
    BY <1>t, <2>1 DEF Moved, OutcomeIsSaved, Failing
  <2>6. UNCHANGED <<steps, decision, executions>>
    BY <2>1 DEF SaveState, Others, history
  <2> QED BY <2>1, <2>2, <2>3, <2>4, <2>5, <2>6, ApproverSaves
<1>3. CASE SaveCompleted(a)
  <2>1. /\ UNCHANGED <<ckpt, steps, log, decision, executions, crashes>>
        /\ pc[a] = "save_completed"
        /\ \/ /\ row.status # "absent"
              /\ row.status # "cancelled" \/ st[a].status = "cancelled"
              /\ row' = st[a]
              /\ Moved(a, "save_completed", "event_completed", "completed")
           \/ /\ row.status \in {"absent", "cancelled"}
              /\ row' = row /\ Throw(a)
    BY <1>3, <1>t, SaveMoves DEF SaveCompleted, Save
  <2>2. /\ pc[a] \in Resolving /\ st[a].status = "completed"
        /\ row.status \in {"verifying", "cancelled"}
    BY <1>t, <2>1 DEF Resolving, ApproverTry, View, OutcomeIsSaved, ApproverCopy,
       Copy, Live
  <2>3. CASE row' = st[a] /\ Live
             /\ Moved(a, "save_completed", "event_completed", "completed")
    <3>1. View(a)'
      BY <1>t, <2>1, <2>2, <2>3
         DEF Moved, View, OutcomeIsSaved, ApproverCopy, Copy, Live, Failing,
             BeforeExecution, ApproverTry
    <3>2. /\ decision = "approved" /\ executions = 1
          /\ steps[Execution] = "succeeded"
      BY <1>t, <2>1, <2>3 DEF View, ApproverCopy, ApproverTry
    <3>3. row.status \notin TERMINAL_RUN_STATUSES
      BY <2>2, <2>3 DEF Live, TERMINAL_RUN_STATUSES
    <3> QED
      BY <2>1, <2>2, <2>3, <3>1, <3>2, <3>3, ResolvingStep DEF Moved, Facts
  <2>4. CASE row' = row /\ Throw(a)
    BY <1>t, <2>1, <2>2, <2>4, OwnThrow
  <2> QED BY <2>1, <2>2, <2>3, <2>4 DEF Live
<1>4. CASE ReceiveApproval(a) \/ ReceiveRejection(a)
  <2>1. PICK next \in {"save_approved", "save_rejected"},
             status \in {"running", "cancelled"} :
            /\ Moved(a, pc[a], next, status)
            /\ log' = [log EXCEPT !["approval_received"] = @ + 1]
            /\ UNCHANGED <<row, steps, decision, executions>>
            /\ pc[a] = "received"
            /\ \/ next = "save_approved" /\ status = "running"
               \/ next = "save_rejected" /\ status = "cancelled"
    BY <1>4, <1>t, RecordEventMoves DEF ReceiveApproval, ReceiveRejection, Moved
  <2>2. pc[a] \in Resolving
    BY <2>1 DEF Resolving, BeforeExecution
  <2>3. View(a)'
    BY <1>t, <2>1 DEF Moved, View, OutcomeIsSaved, ApproverCopy, Copy, Live,
       Failing, BeforeExecution, ApproverTry
  <2>4. OutcomeEventsMatchRow'
    BY <1>t, <2>1 DEF OutcomeEventsMatchRow, Facts, CleanInv, EventType
  <2> QED BY <2>1, <2>2, <2>3, <2>4, ApproverMoves
<1>5. CASE EventRejected(a) \/ EventCompletedResult(a)
  <2>1. PICK next \in {"ckpt_rejected", "ckpt_completed"},
             status \in {"completed", "cancelled"},
             event \in {"sql_approval_rejected", "run_completed"} :
            /\ Moved(a, pc[a], next, status)
            /\ log' = [log EXCEPT ![event] = @ + 1]
            /\ UNCHANGED <<row, steps, decision, executions>>
            /\ \/ /\ pc[a] = "event_rejected" /\ next = "ckpt_rejected"
                  /\ event = "sql_approval_rejected"
               \/ /\ pc[a] = "event_completed" /\ next = "ckpt_completed"
                  /\ event = "run_completed" /\ status = "completed"
    BY <1>5, <1>t, RecordEventMoves DEF EventRejected, EventCompletedResult, Moved
  <2>2. pc[a] \in Resolving
    BY <2>1 DEF Resolving, ApproverTry, Rejecting
  <2>3. View(a)'
    BY <1>t, <2>1 DEF Moved, View, OutcomeIsSaved, ApproverCopy, Copy, Live,
       Failing, BeforeExecution, ApproverTry
  <2>4. OutcomeEventsMatchRow'
    BY <1>t, <2>1 DEF View, OutcomeIsSaved, OutcomeEventsMatchRow, Facts,
       CleanInv, EventType
  <2> QED BY <2>1, <2>2, <2>3, <2>4, ApproverMoves
<1>6. CASE StartExecution(a)
  <2>1. /\ Moved(a, "start", "save_started", "running")
        /\ steps' = [steps EXCEPT ![Execution] = "running"]
        /\ UNCHANGED <<row, ckpt, log, decision, executions, crashes>>
    BY <1>6, <1>t, StartStepMoves DEF StartExecution, StepOf, Execution
  <2>2. pc[a] \in Resolving /\ row.status \in {"running", "cancelled"}
    BY <1>t, <2>1 DEF Resolving, BeforeExecution, Moved, View, ApproverCopy,
       Copy, Live
  <2>3. View(a)'
    BY <1>t, <2>1 DEF Moved, View, OutcomeIsSaved, ApproverCopy, Copy, Live,
       Failing, BeforeExecution, ApproverTry
  <2>4. steps'[Workflow] = steps[Workflow]
    BY <1>t, <2>1 DEF Workflow, Execution, StepType
  <2> QED BY <1>t, <2>1, <2>2, <2>3, <2>4, OwnStep DEF Moved
<1>7. CASE FinishExecution(a)
  <2>1. /\ Moved(a, "finish", "save_result", st[a].status)
        /\ steps' = [steps EXCEPT ![Execution] = "succeeded"]
        /\ UNCHANGED <<row, ckpt, log, decision, executions, crashes>>
    BY <1>7, <1>t, FinishStepMoves DEF FinishExecution, StepOf, Execution
  <2>2. pc[a] \in Resolving /\ row.status \in {"running", "cancelled"}
    BY <1>t, <2>1 DEF Resolving, ApproverTry, Moved, View, ApproverCopy,
       Copy, Live
  <2>3. /\ steps'[Workflow] = steps[Workflow]
        /\ steps'[Execution] = "succeeded"
    BY <1>t, <2>1 DEF Workflow, Execution, StepType
  <2>4. View(a)'
    BY <1>t, <2>1, <2>3 DEF Moved, View, OutcomeIsSaved, ApproverCopy, Copy,
       Live, Failing, BeforeExecution, ApproverTry
  <2> QED BY <1>t, <2>1, <2>2, <2>3, <2>4, OwnStep DEF Moved
<1>8. CASE Execute(a)
  <2>1. /\ pc[a] = "execute" /\ executions' = executions + 1
        /\ UNCHANGED <<row, steps, log, decision>>
    BY <1>8 DEF Execute, durable
  <2>2. /\ pc[a] \in Resolving /\ row.status \in {"running", "cancelled"}
        /\ decision = "approved" /\ executions = 0
    BY <1>t, <2>1 DEF Resolving, BeforeExecution, View, ApproverCopy, Copy, Live,
       Facts, IInv, ApprovalInv, ClaimIsExclusive
  <2>3. CASE Goto(a, "finish") /\ st' = [st EXCEPT ![a].approval = "none"]
    <3>1. Moved(a, "execute", "finish", st[a].status)
      BY <1>t, <2>1, <2>3 DEF Goto, Moved, TypeOK, AgentState
    <3>2. View(a)'
      BY <1>t, <2>1, <2>2, <3>1
         DEF Moved, View, OutcomeIsSaved, ApproverCopy, Copy, Live, Failing,
             BeforeExecution, ApproverTry
    <3> QED BY <1>t, <2>1, <2>2, <3>1, <3>2, OwnStep DEF Moved
  <2>4. CASE Throw(a)
    BY <1>t, <2>1, <2>2, <2>4, OwnThrow
  <2> QED BY <1>8, <2>3, <2>4 DEF Execute
<1> QED
  BY <1>1, <1>2, <1>3, <1>4, <1>5, <1>6, <1>7, <1>8, ClaimApprovalClean
     DEF Resolve

-----------------------------------------------------------------------------
(* Every step.                                                             *)

LEMMA CrashClean == Facts /\ Crash => CleanInv'
<1> SUFFICES ASSUME Facts, Crash PROVE CleanInv'
  OBVIOUS
<1>t. /\ TypeOK /\ worker \in Processes /\ Approvers \subseteq Processes
      /\ crashes \in Nat
  BY BoundsAreNatural DEF Facts, IInv, ApprovalInv, TypeOK, Processes
<1>1. /\ UNCHANGED <<row, ckpt, steps, log, st, decision, executions>>
      /\ crashes' = crashes + 1
      /\ \A p \in Processes : pc'[p] = IF InFlight(p) THEN "crashed" ELSE pc[p]
  BY DEF Crash, durable, history
<1>2. ASSUME NEW p \in Processes PROVE View(p)'
  <2>1. View(p)
    BY DEF Facts, CleanInv
  <2>2. CASE pc'[p] = pc[p]
    BY <1>1, <2>1, <2>2 DEF View, OutcomeIsSaved, WorkerCopy, ApproverCopy, Copy,
       Live
  <2>3. CASE pc'[p] = "crashed"
    BY <2>3 DEF View, OutcomeIsSaved, WorkerCopy, ApproverCopy, WorkerTail,
       Failing, BeforeExecution, ApproverTry
  <2> QED BY <1>1, <2>2, <2>3
<1>3. OneResolves'
  BY <1>t, <1>1 DEF Facts, CleanInv, OneResolves, Resolving, BeforeExecution,
     ApproverTry, Failing, Rejecting
<1>4. WorkerIsOver' /\ WorkIsDone'
  BY <1>t, <1>1 DEF Facts, CleanInv, WorkerIsOver, WorkIsDone, Stopped, Live
<1>5. Resumable' /\ CompletedMeansWorkDone' /\ OutcomeEventsMatchRow'
  BY <1>t, <1>1 DEF Facts, CleanInv, Resumable, CompletedMeansWorkDone,
     OutcomeEventsMatchRow
<1> QED BY <1>2, <1>3, <1>4, <1>5 DEF CleanInv

LEMMA WorkerClean == Facts /\ WorkerStep => CleanInv'
  BY AnswerClean, FailClean, InterruptedClean, CancelClean DEF WorkerStep

LEMMA ApproverClean ==
    ASSUME Facts, NEW a \in Approvers, ApproverStep(a) PROVE CleanInv'
  BY ResolveClean, FailClean DEF ApproverStep

LEMMA CancellerClean ==
    ASSUME Facts, NEW c \in Cancellers,
           RequestCancellation(c) \/ Disconnect(c) \/ CancelRun(c)
    PROVE  CleanInv'
  BY CancelClean, RequestCancellationClean DEF CancelRun

\* Nothing takes a fault back.
LEMMA FaultsCount ==
    ASSUME TypeOK, [Next]_vars, faults' = 0
    PROVE  faults = 0 /\ \A p \in Processes : ~StatementFails(p)
<1> USE DEF Others, budgets
<1>t. faults \in Nat
  BY BoundsAreNatural DEF TypeOK
<1>1. ASSUME NEW p \in Processes PROVE ~StatementFails(p)
  BY <1>t DEF StatementFails
<1>2. ASSUME NEW p, NEW here, NEW a, NEW b, NEW c,
             \/ Checkpoint(p, here, a, b) \/ RecordEvent(p, here, a, b, c)
             \/ SaveState(p, here, a, b, c) \/ StartStep(p, here, a)
             \/ FinishStep(p, here, a, b)
      PROVE  faults' = faults
  BY <1>2 DEF Checkpoint, RecordEvent, SaveState, StartStep, FinishStep
<1>3. Answer => faults' = faults
  BY <1>2 DEF Answer, Create, CheckpointCreated, SavePlanning, CheckpointPlan,
     Interrupt, StartWorkflow, SaveRunning, CheckpointStarted, WorkflowFails,
     WorkflowAnswers, WorkflowDrafts, SaveVerifying, CheckpointVerifying,
     VerificationPasses, VerificationFails, FinishWorkflow, SaveFinal,
     CheckpointStep, CheckpointFinal, EventCompleted, Save
<1>4. \A p : Fail(p) \/ Cancel(p) => faults' = faults
  BY <1>2 DEF Fail, FailFinish, FailSave, FailEvent, FailCheckpoint, Cancel,
     ClaimCancellation, CancelFinish, CancelSave, CancelEvent, CancelCheckpoint,
     Save
<1>5. Interrupted => faults' = faults
  BY <1>2 DEF Interrupted, LoadInterrupted, LateFinish, LateSave, Save
<1>6. \A a \in Approvers : Resolve(a) => faults' = faults
  BY <1>2 DEF Resolve, ClaimApproval, ReceiveApproval, ReceiveRejection,
     SaveRejected, EventRejected, CheckpointRejected, SaveApproved,
     CheckpointApproved, StartExecution, SaveStarted, SaveCounted,
     CheckpointExecuting, Execute, FinishExecution, SaveResult,
     CheckpointResult, SaveVerifyingResult, CheckpointVerifyingResult,
     SaveCompleted, EventCompletedResult, CheckpointCompleted, Save
<1>7. \A c \in Cancellers :
          RequestCancellation(c) \/ Disconnect(c) \/ CancelRun(c)
              => faults' = faults
  BY <1>4 DEF RequestCancellation, Disconnect, CancelRun, LoadForCancellation,
     Signal
<1>8. \A a \in Approvers, roles \in RoleSets, approved \in BOOLEAN :
          RequestApproval(a, roles, approved) => faults' = faults
  BY DEF RequestApproval
<1>9. Crash => faults' = faults
  BY DEF Crash
<1>10. CASE Next
  BY <1>1, <1>3, <1>4, <1>5, <1>6, <1>7, <1>8, <1>9, <1>10
     DEF Next, WorkerStep, ApproverStep
<1>11. CASE UNCHANGED vars
  BY <1>11 DEF vars, StatementFails
<1> QED BY <1>1, <1>10, <1>11

LEMMA CleanStepKeeps ==
    ASSUME IInv, CleanInv, [Next]_vars, faults' = 0 PROVE CleanInv'
<1>t. Facts /\ TypeOK /\ \A p \in Processes : ~StatementFails(p)
  BY FaultsCount DEF Facts, IInv, ApprovalInv
<1>1. CASE Next
  BY <1>1, <1>t, WorkerClean, RequestApprovalClean, ApproverClean,
     CancellerClean, CrashClean DEF Next
<1>2. CASE UNCHANGED vars
  <2>1. \A p \in Processes : View(p)'
    BY <1>2 DEF vars, durable, history, budgets, CleanInv, View, OutcomeIsSaved,
       WorkerCopy, ApproverCopy, Copy, Live
  <2> QED
    BY <1>2, <2>1 DEF vars, durable, history, budgets, CleanInv, OneResolves,
       WorkerIsOver, WorkIsDone, Resumable, CompletedMeansWorkDone,
       OutcomeEventsMatchRow, Live
<1> QED BY <1>1, <1>2

LEMMA CleanRuns == Spec => [](faults = 0 => CleanInv)
<1>1. Init => (faults = 0 => CleanInv)
  <2> SUFFICES ASSUME Init PROVE CleanInv
    OBVIOUS
  <2>1. /\ row.status = "absent" /\ decision = "none"
        /\ st[worker].status = "created" /\ pc[worker] = "create"
        /\ \A p \in Processes : p # worker => pc[p] = "idle"
        /\ \A event \in EventType : log[event] = 0
    BY DEF Init, Absent, NewAgentState, Processes
  <2>2. \A p \in Processes : View(p)
    BY <2>1, ActorsAreDistinct DEF View, OutcomeIsSaved, WorkerCopy, ApproverCopy,
       Copy, WorkerTail, Failing, BeforeExecution, ApproverTry
  <2>3. OneResolves
    BY <2>1, ActorsAreDistinct DEF OneResolves, Resolving, BeforeExecution,
       ApproverTry, Failing, Rejecting, Processes
  <2> QED
    BY <2>1, <2>2, <2>3 DEF CleanInv, WorkerIsOver, WorkIsDone, Resumable,
       CompletedMeansWorkDone, OutcomeEventsMatchRow, EventType
<1>2. IInv /\ (faults = 0 => CleanInv) /\ [Next]_vars =>
          (faults = 0 => CleanInv)'
  BY CleanStepKeeps, FaultsCount DEF IInv, ApprovalInv
<1> QED BY <1>1, <1>2, Invariance, PTL DEF Spec

\* As long as no statement has failed, a run that reads completed did all of
\* its work, whoever else wrote its row (answer, resolve_sql_approval).
THEOREM CompletedRunsDidTheirWork ==
    Spec => [](faults = 0 => CompletedMeansWorkDone)
<1>1. CleanInv => CompletedMeansWorkDone
  BY DEF CleanInv
<1> QED BY <1>1, CleanRuns, PTL

\* As long as no statement has failed, a recorded outcome is the outcome the
\* run's row shows, then and later, restarts included.
THEOREM ReportedOutcomesHold ==
    Spec => [](faults = 0 => OutcomeEventsMatchRow)
<1>1. CleanInv => OutcomeEventsMatchRow
  BY DEF CleanInv
<1> QED BY <1>1, CleanRuns, PTL

\* As long as no statement has failed and the process was not restarted, a run
\* left waiting has the checkpoint an approval resumes it from.
THEOREM WaitingRunsCanResume ==
    Spec => [](faults = 0 /\ crashes = 0 => WaitingRunIsResumable)
<1>1. CleanInv => (crashes = 0 => WaitingRunIsResumable)
  BY DEF CleanInv, Resumable, WaitingRunIsResumable, InFlight, Stopped, Unstarted
<1> QED BY <1>1, CleanRuns, PTL

-----------------------------------------------------------------------------
(* The contract: what a clean run writes to its row follows the table.      *)

ContractStep == [Contract!Next]_<<row.status, decision, executions>>

\* Process p's copy is a status the row may move to.
MayWrite(p) == Live =>
    /\ row.status \notin {"absent", "waiting_for_approval"}
    /\ Contract!Allowed(row.status, st[p].status)

\* The entries of the transition table that a save relies on.
LEMMA TableRows ==
    /\ \A s \in RunStatuses : Contract!Allowed(s, s)
    /\ Contract!Allowed("created", "planning")
    /\ Contract!Allowed("planning", "running")
    /\ \A t \in {"waiting_for_approval", "verifying", "completed", "failed",
                 "cancelled"} : Contract!Allowed("running", t)
    /\ \A t \in {"completed", "failed", "cancelled"} :
           Contract!Allowed("verifying", t)
  BY DEF Contract!Allowed, Contract!ALLOWED_STATUS_TRANSITIONS

LEMMA QuietFollows ==
    UNCHANGED <<row, decision, executions>> => ContractStep
  BY DEF ContractStep

LEMMA SaveFollows ==
    ASSUME NEW p \in Processes, NEW here, NEW next, NEW status, NEW assigned,
           SaveState(p, here, next, status, assigned), MayWrite(p)
    PROVE  ContractStep
<1>1. UNCHANGED <<decision, executions>>
  BY DEF SaveState, Others, history
<1>2. CASE row' = row
  BY <1>1, <1>2, QuietFollows
<1>3. CASE CanSave(st[p]) /\ row' = st[p]
  <2>1. CASE Live
    BY <1>1, <1>3, <2>1 DEF MayWrite, ContractStep, Contract!Next, Contract!Move
  <2>2. CASE ~Live
    BY <1>1, <1>3, <2>2 DEF CanSave, Live, ContractStep
  <2> QED BY <2>1, <2>2
<1> QED BY <1>2, <1>3 DEF SaveState

LEMMA WorkerMayWrite ==
    ASSUME Facts, pc[worker] \in {"save_planning", "save_running",
               "save_verifying", "save_final", "fail_save", "cancel_save",
               "late_save"}
    PROVE  MayWrite(worker)
<1>1. View(worker)
  BY DEF Facts, CleanInv, Processes
<1>2. CASE pc[worker] \in {"save_planning", "save_running", "save_verifying",
                           "save_final"}
  BY <1>1, <1>2, TableRows DEF View, WorkerCopy, Copy, MayWrite
<1>3. CASE pc[worker] = "fail_save"
  BY <1>1, <1>3, TableRows DEF View, WorkerCopy, OutcomeIsSaved, Failing, MayWrite
<1>4. CASE pc[worker] \in {"cancel_save", "late_save"}
  BY <1>1, <1>4 DEF View, OutcomeIsSaved, MayWrite, Live
<1> QED BY <1>2, <1>3, <1>4

LEMMA ApproverMayWrite ==
    ASSUME Facts, NEW a \in Approvers,
           pc[a] \in {"save_approved", "save_started", "save_counted",
               "save_result", "save_verifying", "save_completed",
               "save_rejected", "fail_save"}
    PROVE  MayWrite(a)
<1>1. View(a)
  BY DEF Facts, CleanInv, Processes
<1>2. CASE pc[a] \in {"save_approved", "save_started", "save_counted",
                      "save_result"}
  BY <1>1, <1>2, TableRows DEF View, ApproverCopy, Copy, MayWrite,
     BeforeExecution, RunStatuses
<1>3. CASE pc[a] \in {"save_verifying", "save_completed", "save_rejected"}
  BY <1>1, <1>3, TableRows DEF View, ApproverCopy, Copy, MayWrite
<1>4. CASE pc[a] = "fail_save"
  BY <1>1, <1>4, TableRows DEF View, ApproverCopy, OutcomeIsSaved, Failing,
     MayWrite
<1> QED BY <1>2, <1>3, <1>4

LEMMA AnswerFollows == Facts /\ Answer => ContractStep
<1> SUFFICES ASSUME Facts, Answer PROVE ContractStep
  OBVIOUS
<1> USE DEF Others, durable, history
<1>1. CASE Create
  <2>1. row.status = "absent" /\ st[worker].status = "created"
    BY <1>1 DEF Create, Facts, IInv, CleanInv, View, WorkerCopy, Copy, Live,
       FreshRun, Processes
  <2> QED
    BY <1>1, <2>1 DEF Create, ContractStep, Contract!Next, Contract!Create
<1>2. CASE SavePlanning \/ SaveRunning \/ SaveVerifying \/ SaveFinal
  <2>1. MayWrite(worker)
    BY <1>2, WorkerMayWrite
       DEF SavePlanning, SaveRunning, SaveVerifying, SaveFinal, Save, SaveState
  <2> QED
    BY <1>2, <2>1, SaveFollows
       DEF SavePlanning, SaveRunning, SaveVerifying, SaveFinal, Save, Processes
<1>3. CASE ~Create
           /\ ~(SavePlanning \/ SaveRunning \/ SaveVerifying \/ SaveFinal)
  <2>1. UNCHANGED <<row, decision, executions>>
    BY <1>3 DEF Answer, CheckpointCreated, CheckpointPlan, Interrupt,
       StartWorkflow, CheckpointStarted, WorkflowFails, WorkflowAnswers,
       WorkflowDrafts, CheckpointVerifying, VerificationPasses,
       VerificationFails, FinishWorkflow, CheckpointStep, CheckpointFinal,
       EventCompleted, Checkpoint, StartStep, FinishStep, RecordEvent
  <2> QED BY <2>1, QuietFollows
<1> QED BY <1>1, <1>2, <1>3

LEMMA FailFollows ==
    ASSUME Facts, NEW p \in {worker} \cup Approvers, Fail(p)
    PROVE  ContractStep
<1>1. CASE FailSave(p)
  <2>1. p \in Processes /\ MayWrite(p)
    BY <1>1, WorkerMayWrite, ApproverMayWrite
       DEF FailSave, Save, SaveState, Processes
  <2> QED BY <1>1, <2>1, SaveFollows DEF FailSave, Save
<1>2. CASE FailFinish(p) \/ FailEvent(p) \/ FailCheckpoint(p)
  BY <1>2, QuietFollows DEF FailFinish, FailEvent, FailCheckpoint, FinishStep,
     RecordEvent, Checkpoint, Others, history
<1> QED BY <1>1, <1>2 DEF Fail

LEMMA CancelFollows ==
    ASSUME Facts, NEW p \in {worker} \cup Cancellers, Cancel(p)
    PROVE  ContractStep
<1>t. TypeOK /\ p \in Processes
  BY DEF Facts, IInv, ApprovalInv, Processes
<1>1. CASE ClaimCancellation(p)
  <2>1. CASE ClaimableCancellation
    <3>1. row'.status = "cancelled" /\ row.status \in
              {"created", "planning", "running", "waiting_for_approval",
               "verifying"}
      BY <1>1, <1>t, <2>1 DEF ClaimCancellation, ClaimableCancellation, TypeOK,
         AgentState, RowStatuses, RunStatuses, TERMINAL_RUN_STATUSES
    <3>2. Contract!Allowed(row.status, row'.status)
      BY <3>1 DEF Contract!Allowed, Contract!ALLOWED_STATUS_TRANSITIONS
    <3> QED
      BY <1>1, <3>1, <3>2 DEF ClaimCancellation, Others, history, ContractStep,
         Contract!Next, Contract!Move
  <2>2. CASE ~ClaimableCancellation
    BY <1>1, <2>2, QuietFollows DEF ClaimCancellation, Others, history
  <2> QED BY <2>1, <2>2
<1>2. CASE CancelSave(p)
  <2>1. MayWrite(p)
    BY <1>2, <1>t DEF CancelSave, Save, SaveState, Facts, CleanInv, View,
       OutcomeIsSaved, MayWrite, Live
  <2> QED BY <1>2, <1>t, <2>1, SaveFollows DEF CancelSave, Save
<1>3. CASE CancelFinish(p) \/ CancelEvent(p) \/ CancelCheckpoint(p)
  BY <1>3, QuietFollows DEF CancelFinish, CancelEvent, CancelCheckpoint,
     FinishStep, RecordEvent, Checkpoint, Others, history
<1> QED BY <1>1, <1>2, <1>3 DEF Cancel

LEMMA InterruptedFollows == Facts /\ Interrupted => ContractStep
<1> SUFFICES ASSUME Facts, Interrupted PROVE ContractStep
  OBVIOUS
<1>1. CASE LateSave
  BY <1>1, WorkerMayWrite, SaveFollows
     DEF LateSave, Save, SaveState, Processes
<1>2. CASE LoadInterrupted \/ LateFinish
  BY <1>2, QuietFollows DEF LoadInterrupted, LateFinish, FinishStep, Others,
     durable, history
<1> QED BY <1>1, <1>2 DEF Interrupted

LEMMA ResolveFollows ==
    ASSUME Facts, NEW a \in Approvers, Resolve(a)
    PROVE  ContractStep
<1>t. /\ TypeOK /\ a \in Processes
      /\ decision \in {"none", "approved", "rejected"}
  BY DEF Facts, IInv, ApprovalInv, TypeOK, Processes
<1>1. CASE ClaimApproval(a)
  <2>1. CASE ClaimableApproval
    <3>1. decision = "none"
      BY <2>1 DEF ClaimableApproval, Facts, IInv, ApprovalInv, ClaimIsExclusive
    <3>2. /\ row.status = "waiting_for_approval" /\ row'.status = "running"
          /\ decision' \in {"approved", "rejected"} /\ executions' = executions
      BY <1>1, <1>t, <2>1 DEF ClaimApproval, ClaimableApproval, TypeOK, AgentState
    <3> QED
      BY <3>1, <3>2 DEF ContractStep, Contract!Next, Contract!Decide
  <2>2. CASE ~ClaimableApproval
    BY <1>1, <2>2, QuietFollows DEF ClaimApproval
  <2> QED BY <2>1, <2>2
<1>2. CASE Execute(a)
  <2>1. /\ decision = "approved" /\ executions = 0
        /\ row.status \in {"running", "cancelled"}
    BY <1>2, <1>t DEF Execute, Facts, IInv, ApprovalInv, ClaimIsExclusive,
       BeforeExecution, CleanInv, View, ApproverCopy, Copy, Live
  <2> QED
    BY <1>2, <2>1 DEF Execute, durable, ContractStep, Contract!Next,
       Contract!Execute
<1>3. CASE \/ SaveRejected(a) \/ SaveApproved(a) \/ SaveStarted(a)
           \/ SaveCounted(a) \/ SaveResult(a) \/ SaveVerifyingResult(a)
           \/ SaveCompleted(a)
  <2>1. MayWrite(a)
    BY <1>3, ApproverMayWrite
       DEF SaveRejected, SaveApproved, SaveStarted, SaveCounted, SaveResult,
           SaveVerifyingResult, SaveCompleted, Save, SaveState
  <2> QED
    BY <1>3, <1>t, <2>1, SaveFollows
       DEF SaveRejected, SaveApproved, SaveStarted, SaveCounted, SaveResult,
           SaveVerifyingResult, SaveCompleted, Save
<1>4. CASE \/ ReceiveApproval(a) \/ ReceiveRejection(a) \/ EventRejected(a)
           \/ CheckpointRejected(a) \/ CheckpointApproved(a)
           \/ StartExecution(a) \/ CheckpointExecuting(a) \/ FinishExecution(a)
           \/ CheckpointResult(a) \/ CheckpointVerifyingResult(a)
           \/ EventCompletedResult(a) \/ CheckpointCompleted(a)
  BY <1>4, QuietFollows
     DEF ReceiveApproval, ReceiveRejection, EventRejected, CheckpointRejected,
         CheckpointApproved, StartExecution, CheckpointExecuting,
         FinishExecution, CheckpointResult, CheckpointVerifyingResult,
         EventCompletedResult, CheckpointCompleted, Checkpoint, RecordEvent,
         StartStep, FinishStep, Others, history
<1> QED BY <1>1, <1>2, <1>3, <1>4 DEF Resolve

LEMMA StepFollows ==
    ASSUME IInv, CleanInv, [Next]_vars, faults' = 0 PROVE ContractStep
<1>t. Facts /\ \A p \in Processes : ~StatementFails(p)
  BY FaultsCount DEF Facts, IInv, ApprovalInv
<1> USE QuietFollows DEF durable, history, Others
<1>1. CASE WorkerStep
  BY <1>1, <1>t, AnswerFollows, FailFollows, InterruptedFollows, CancelFollows
     DEF WorkerStep
<1>2. ASSUME NEW a \in Approvers, ApproverStep(a) PROVE ContractStep
  BY <1>2, <1>t, ResolveFollows, FailFollows DEF ApproverStep
<1>3. ASSUME NEW a \in Approvers, NEW roles, NEW approved,
             RequestApproval(a, roles, approved)
      PROVE  ContractStep
  BY <1>3 DEF RequestApproval
<1>4. ASSUME NEW c \in Cancellers,
             RequestCancellation(c) \/ Disconnect(c) \/ CancelRun(c)
      PROVE  ContractStep
  BY <1>4, <1>t, CancelFollows
     DEF RequestCancellation, Disconnect, CancelRun, LoadForCancellation, Signal
<1>5. CASE Crash
  BY <1>5 DEF Crash
<1>6. CASE UNCHANGED vars
  BY <1>6 DEF vars
<1> QED BY <1>1, <1>2, <1>3, <1>4, <1>5, <1>6, <1>t DEF Next

\* A run none of whose statements fails implements the contract its readers
\* rely on, with any number of requests and restarts: its status follows the
\* lifecycle table, its approval is decided once, its query runs at most once.
THEOREM RunImplementsContract ==
    ASSUME MaxFaults = 0 PROVE Spec => ImplementsContract
<1>1. Init => Contract!Init
  BY DEF Init, Absent, Contract!Init
<1>2. IInv => faults = 0
  BY BoundsAreNatural DEF IInv, ApprovalInv, TypeOK
<1>3. IInv' => faults' = 0
  BY BoundsAreNatural DEF IInv, ApprovalInv, TypeOK
<1>4. IInv /\ IInv' /\ CleanInv /\ [Next]_vars => [Contract!Next]_(Contract!vars)
  BY <1>3, StepFollows DEF ContractStep, Contract!vars
<1> QED
  BY <1>1, <1>2, <1>4, Invariance, CleanRuns, PTL
     DEF Spec, ImplementsContract, Contract!Spec
=============================================================================

---------------------------- MODULE RunLifecycle ----------------------------
(***************************************************************************)
(* One durable agent run and everybody who writes it: the worker thread in *)
(* AgentRuntime.answer, the requests in AgentRuntime.resolve_sql_approval  *)
(* and those in AgentRuntime.cancel_run, over the tables AgentRunStore     *)
(* keeps in MySQL (app/agents/runtime.py, app/memory/run_store.py).        *)
(*                                                                         *)
(* A MySQLDatabase.execute call opens, commits and closes a connection of  *)
(* its own, so one SQL statement is one atomic step and everything between *)
(* two statements is local to a process.  A step below is a statement with *)
(* the local code that follows it; an event the properties do not read is  *)
(* merged into the statement after it.                                     *)
(***************************************************************************)
EXTENDS RunStatus, Authorization, Naturals, FiniteSets

CONSTANTS
    worker,        \* the thread that runs AgentRuntime.answer
    Approvers,     \* approval requests: POST .../approve and /sql/execute
    Cancellers,    \* cancel requests and client disconnects
    RoleSets,      \* the role sets a token may carry
    Streamed,      \* POST /chat/stream (cancellable) or POST /chat
    MaxFaults,     \* bound: statements that may fail
    MaxCrashes     \* bound: process restarts

ASSUME ActorsAreDistinct ==
    /\ worker \notin Approvers \cup Cancellers
    /\ Approvers \cap Cancellers = {}
ASSUME RoleSetsAreRoles == RoleSets \subseteq SUBSET Role
ASSUME StreamedIsBoolean == Streamed \in BOOLEAN
ASSUME BoundsAreNatural == MaxFaults \in Nat /\ MaxCrashes \in Nat

Processes == {worker} \cup Approvers \cup Cancellers

VARIABLES
    row,         \* the agent_runs row
    ckpt,        \* the agent_checkpoints row of highest sequence_number
    steps,       \* agent_steps: the status of each step type
    log,         \* agent_events: how often each event was recorded
    pc,          \* the statement each process executes next
    st,          \* the AgentState each process holds in memory
    stepId,      \* has the process's local step_id been assigned?
    approves,    \* the body of each approval request
    flag,        \* RunStreamBuffer.cancelled, the worker's cancellation check
    decision,    \* history: the decision that claimed the approval
    executions,  \* history: calls of the SQL executor
    faults, crashes

durable == <<row, ckpt, steps, log>>
history == <<decision, executions>>
budgets == <<faults, crashes>>
vars == <<durable, pc, st, stepId, approves, flag, history, budgets>>

-----------------------------------------------------------------------------
(* The data: what the properties tell apart of an AgentState.              *)

ApprovalStatus == {"none", "waiting", "approved", "rejected", "cancelled"}
AgentState == [status: RowStatuses, step: Nat, approval: ApprovalStatus]
StepType == {"property_chat_workflow", "approved_sql_execution"}
StepStatus == {"absent", "running", "succeeded", "failed", "cancelled"}
EventType ==
    {"approval_received", "run_completed", "run_failed",
     "user_requested", "client_disconnected", "sql_approval_rejected"}

Absent == [status |-> "absent", step |-> 0, approval |-> "none"]
NewAgentState == [Absent EXCEPT !.status = "created"]

StepOf(p) ==
    IF p = worker THEN "property_chat_workflow" ELSE "approved_sql_execution"

WorkerTail == {"ckpt_step", "ckpt_final", "event_completed"}
Failing == {"fail_finish", "fail_save", "event_failed", "ckpt_failed"}
Cancelling ==
    {"interrupted", "claim_cancel", "cancel_finish", "cancel_save",
     "cancel_event", "cancel_ckpt", "late_finish", "late_save"}
WorkerTry ==
    {"start", "save_running", "ckpt_started", "workflow", "save_verifying",
     "ckpt_verifying", "verify", "finish", "save_final"} \cup WorkerTail
BeforeExecution ==
    {"received", "save_approved", "ckpt_approved", "start", "save_started",
     "save_counted", "ckpt_executing", "execute"}
Rejecting == {"save_rejected", "event_rejected", "ckpt_rejected"}
ApproverTry ==
    {"execute", "finish", "save_result", "ckpt_result", "save_verifying",
     "ckpt_verifying", "save_completed", "event_completed", "ckpt_completed"}
Stopped == {"done", "raised", "crashed"}
Unstarted == {"create", "idle", "refused"}
ProgramPoints ==
    {"ckpt_created", "save_planning", "ckpt_plan", "claim", "load", "signal"}
    \cup WorkerTry \cup Failing \cup Cancelling \cup BeforeExecution
    \cup Rejecting \cup ApproverTry \cup Stopped \cup Unstarted

InFlight(p) == pc[p] \notin Stopped \cup Unstarted

\* RunCancellationRegistry: the entry goes when the worker's future is done.
Registered == Streamed /\ pc[worker] \notin Stopped

-----------------------------------------------------------------------------
(* Control shared by the three programs.  A definition whose name extends   *)
(* the next one's (ThrowUnhandled, CanSaveUnguarded, ...) is that definition *)
(* with a plausible bug; only the mutation runs use it.                     *)

Goto(p, next) == pc' = [pc EXCEPT ![p] = next]

Become(p, status) == st' = [st EXCEPT ![p].status = status]

\* Where an exception raised at pc[p] lands: the `except Exception` clause,
\* which only handles a state that is not terminal, or the caller.
TryOf(p) == IF p = worker THEN WorkerTry ELSE ApproverTry
ThrowUnhandled(p) == Goto(p, "raised") /\ UNCHANGED st
Throw(p) ==
    LET caught == /\ p \notin Cancellers
                  /\ pc[p] \in TryOf(p)
                  /\ st[p].status \notin TERMINAL_RUN_STATUSES
    IN /\ Goto(p, IF ~caught THEN "raised"
                  ELSE IF stepId[p] THEN "fail_finish" ELSE "fail_save")
       /\ IF caught THEN Become(p, "failed") ELSE UNCHANGED st

-----------------------------------------------------------------------------
(* AgentRunStore: each operator is one statement of process p at program   *)
(* point `here`; when it succeeds p moves to `next`, its status `status`.  *)

Others == <<approves, flag, history, budgets>>

Checkpoint(p, here, next, status) ==
    /\ pc[p] = here
    /\ ckpt' = st[p]
    /\ Goto(p, next) /\ Become(p, status)
    /\ UNCHANGED <<row, steps, log, stepId, Others>>

RecordEvent(p, here, event, next, status) ==
    /\ pc[p] = here
    /\ log' = [log EXCEPT ![event] = @ + 1]
    /\ Goto(p, next) /\ Become(p, status)
    /\ UNCHANGED <<row, ckpt, steps, stepId, Others>>

\* The WHERE clause of AgentRunStore.save.
CanSaveUnguarded(s) == row.status # "absent"
CanSave(s) ==
    /\ row.status # "absent"
    /\ row.status # "cancelled" \/ s.status = "cancelled"

\* save; `assigned` is the local step_id afterwards (start_step returns it).
SaveState(p, here, next, status, assigned) ==
    /\ pc[p] = here
    /\ IF CanSave(st[p])
       THEN /\ row' = st[p]
            /\ Goto(p, next) /\ Become(p, status)
            /\ stepId' = [stepId EXCEPT ![p] = assigned]
       ELSE Throw(p) /\ UNCHANGED <<row, stepId>>
    /\ UNCHANGED <<ckpt, steps, log, Others>>

Save(p, here, next, status) == SaveState(p, here, next, status, stepId[p])

\* start_step up to its INSERT; the save that ends it is a step of its own.
StartStep(p, here, next) ==
    /\ pc[p] = here
    /\ steps' = [steps EXCEPT ![StepOf(p)] = "running"]
    /\ st' = [st EXCEPT ![p].status = "running", ![p].step = @ + 1]
    /\ Goto(p, next)
    /\ UNCHANGED <<row, ckpt, log, stepId, Others>>

FinishStep(p, here, outcome, next) ==
    /\ pc[p] = here
    /\ steps' = [steps EXCEPT ![StepOf(p)] = outcome]
    /\ Goto(p, next)
    /\ UNCHANGED <<row, ckpt, log, st, stepId, Others>>

ClaimableApprovalUnguarded == row.status # "absent"
ClaimableApproval == row.status = "waiting_for_approval"

ClaimableCancellationAlways == row.status \notin {"absent", "cancelled"}
ClaimableCancellationAgain ==
    row.status \notin {"absent", "completed", "failed"}
ClaimableCancellation ==
    row.status \notin TERMINAL_RUN_STATUSES \cup {"absent"}

-----------------------------------------------------------------------------
(* AgentRuntime.answer.                                                    *)

Create ==
    /\ pc[worker] = "create"
    /\ row' = st[worker]
    /\ Goto(worker, "ckpt_created")
    /\ UNCHANGED <<ckpt, steps, log, st, stepId, Others>>

CheckpointCreated ==
    Checkpoint(worker, "ckpt_created", "save_planning", "planning")
SavePlanning == Save(worker, "save_planning", "ckpt_plan", "planning")
CheckpointPlan == Checkpoint(worker, "ckpt_plan", "start", "planning")

\* raise_if_cancelled at a point of the worker where the flag is up.
Interrupt(here) ==
    /\ pc[worker] = here
    /\ flag
    /\ Goto(worker, "interrupted")
    /\ UNCHANGED <<durable, st, stepId, Others>>

StartWorkflow == ~flag /\ StartStep(worker, "start", "save_running")
SaveRunning ==
    SaveState(worker, "save_running", "ckpt_started", "running", TRUE)
CheckpointStarted ==
    Checkpoint(worker, "ckpt_started", "workflow", "running")

\* The workflow fails, or the caller may not draft custom analytics.
WorkflowFails ==
    /\ pc[worker] = "workflow"
    /\ Throw(worker)
    /\ UNCHANGED <<durable, stepId, Others>>

WorkflowAnswers ==
    /\ pc[worker] = "workflow" /\ ~flag
    /\ Goto(worker, "save_verifying") /\ Become(worker, "verifying")
    /\ UNCHANGED <<durable, stepId, Others>>

\* The response holds a sql_approval component: only a caller who could
\* approve it is asked to, others complete with the draft withheld.
MayRequestApproval(roles) == Granted(roles, "sql.approve")

WorkflowDrafts(roles) ==
    /\ pc[worker] = "workflow" /\ ~flag
    /\ Granted(roles, "property.analytics.custom")
    /\ Goto(worker, "finish")
    /\ st' = [st EXCEPT
           ![worker].status = IF MayRequestApproval(roles)
                              THEN "waiting_for_approval" ELSE "completed",
           ![worker].approval = IF MayRequestApproval(roles)
                                THEN "waiting" ELSE @]
    /\ UNCHANGED <<durable, stepId, Others>>

SaveVerifying == Save(worker, "save_verifying", "ckpt_verifying", "verifying")
CheckpointVerifying ==
    Checkpoint(worker, "ckpt_verifying", "verify", "verifying")

VerificationPasses ==
    /\ pc[worker] = "verify" /\ ~flag
    /\ Goto(worker, "finish") /\ Become(worker, "completed")
    /\ UNCHANGED <<durable, stepId, Others>>

VerificationFails ==
    /\ pc[worker] = "verify" /\ ~flag
    /\ Throw(worker)
    /\ UNCHANGED <<durable, stepId, Others>>

FinishWorkflow == FinishStep(worker, "finish", "succeeded", "save_final")
SaveFinalOnly == ~flag /\ Save(worker, "save_final", "done", st[worker].status)
SaveFinal ==
    ~flag /\ Save(worker, "save_final", "ckpt_step", st[worker].status)
CheckpointStep ==
    Checkpoint(worker, "ckpt_step", "ckpt_final", st[worker].status)
CheckpointFinal ==
    Checkpoint(worker, "ckpt_final",
               IF st[worker].status = "completed"
               THEN "event_completed" ELSE "done", st[worker].status)
EventCompleted ==
    RecordEvent(worker, "event_completed", "run_completed",
                "done", st[worker].status)

Answer ==
    \/ Create \/ CheckpointCreated \/ SavePlanning \/ CheckpointPlan
    \/ \E here \in {"start", "workflow", "verify", "save_final"} :
           Interrupt(here)
    \/ StartWorkflow \/ SaveRunning \/ CheckpointStarted
    \/ WorkflowFails \/ WorkflowAnswers
    \/ \E roles \in RoleSets : WorkflowDrafts(roles)
    \/ SaveVerifying \/ CheckpointVerifying
    \/ VerificationPasses \/ VerificationFails
    \/ FinishWorkflow \/ SaveFinal
    \/ CheckpointStep \/ CheckpointFinal \/ EventCompleted

-----------------------------------------------------------------------------
(* The `except Exception` clause of answer and of resolve_sql_approval; an *)
(* exception inside it is swallowed, and the original one raised again.    *)

FailFinish(p) == FinishStep(p, "fail_finish", "failed", "fail_save")
FailSave(p) == Save(p, "fail_save", "event_failed", "failed")
FailEvent(p) ==
    RecordEvent(p, "event_failed", "run_failed", "ckpt_failed", "failed")
FailCheckpoint(p) == Checkpoint(p, "ckpt_failed", "raised", "failed")

Fail(p) == FailFinish(p) \/ FailSave(p) \/ FailEvent(p) \/ FailCheckpoint(p)

-----------------------------------------------------------------------------
(* The cancellation claim, and AgentRuntime._persist_interrupted_cancel... *)

\* cancel_run marks a pending approval cancelled; the worker's path does not.
MarkedMisspelled(p) == [st[p] EXCEPT !.status = "canceled"]
MarkedCancelled(p) ==
    [st[p] EXCEPT !.status = "cancelled",
                  !.approval = IF p = worker \/ @ = "none"
                               THEN @ ELSE "cancelled"]

ClaimCancellation(p) ==
    /\ pc[p] = "claim_cancel"
    /\ IF ClaimableCancellation
       THEN /\ row' = [row EXCEPT !.status = "cancelled"]
            /\ st' = [st EXCEPT ![p] = MarkedCancelled(p)]
            /\ Goto(p, IF stepId[p] THEN "cancel_finish" ELSE "cancel_save")
       ELSE /\ Goto(p, IF p = worker THEN "raised" ELSE "refused")
            /\ UNCHANGED <<row, st>>
    /\ UNCHANGED <<ckpt, steps, log, stepId, Others>>

CancelFinish(p) ==
    FinishStep(p, "cancel_finish", "cancelled", "cancel_save")
CancelSave(p) == Save(p, "cancel_save", "cancel_event", "cancelled")
CancelEvent(p) ==
    RecordEvent(p, "cancel_event",
                IF p = worker THEN "client_disconnected" ELSE "user_requested",
                "cancel_ckpt", "cancelled")
CancelCheckpoint(p) ==
    Checkpoint(p, "cancel_ckpt",
               IF p = worker THEN "raised" ELSE "signal", "cancelled")

Cancel(p) ==
    \/ ClaimCancellation(p) \/ CancelFinish(p) \/ CancelSave(p)
    \/ CancelEvent(p) \/ CancelCheckpoint(p)

\* The interrupted worker reloads the run first: somebody may have cancelled it.
LoadInterrupted ==
    /\ pc[worker] = "interrupted"
    /\ st' = [st EXCEPT ![worker] = row]
    /\ Goto(worker, IF row.status # "cancelled" THEN "claim_cancel"
                    ELSE IF stepId[worker] THEN "late_finish" ELSE "late_save")
    /\ UNCHANGED <<durable, stepId, Others>>

LateFinish == FinishStep(worker, "late_finish", "cancelled", "late_save")
LateSave == Save(worker, "late_save", "raised", "cancelled")

Interrupted == LoadInterrupted \/ LateFinish \/ LateSave

-----------------------------------------------------------------------------
(* AgentRuntime.cancel_run, called by the cancel endpoint or, when a       *)
(* stream's client went away, by the generator that raised the flag first. *)

RequestCancellation(c) ==
    /\ pc[c] \in {"idle", "refused"}
    /\ Goto(c, "load")
    /\ UNCHANGED <<durable, st, stepId, Others>>

Disconnect(c) ==
    /\ pc[c] \in {"idle", "refused"}
    /\ Registered /\ ~flag
    /\ flag' = TRUE
    /\ Goto(c, "load")
    /\ UNCHANGED <<durable, st, stepId, approves, history, budgets>>

LoadForCancellation(c) ==
    /\ pc[c] = "load"
    /\ IF ClaimableCancellation
       THEN st' = [st EXCEPT ![c] = row] /\ Goto(c, "claim_cancel")
       ELSE UNCHANGED st /\ Goto(c, "refused")
    /\ UNCHANGED <<durable, stepId, Others>>

\* active_run_cancellations.request, after the run has been cancelled.
Signal(c) ==
    /\ pc[c] = "signal"
    /\ flag' = (flag \/ Registered)
    /\ Goto(c, "done")
    /\ UNCHANGED <<durable, st, stepId, approves, history, budgets>>

CancelRun(c) == LoadForCancellation(c) \/ Cancel(c) \/ Signal(c)

-----------------------------------------------------------------------------
(* AgentRuntime.resolve_sql_approval.                                      *)

\* Load the latest checkpoint, then authorize the caller's current roles.
RequestApproval(a, roles, approved) ==
    /\ pc[a] \in {"idle", "refused"}
    /\ ckpt.status # "absent"
    /\ IF ckpt.status = "waiting_for_approval" /\ Granted(roles, "sql.approve")
       THEN /\ st' = [st EXCEPT ![a] = ckpt]
            /\ approves' = [approves EXCEPT ![a] = approved]
            /\ Goto(a, "claim")
       ELSE UNCHANGED <<st, approves>> /\ Goto(a, "refused")
    /\ UNCHANGED <<durable, stepId, flag, history, budgets>>

ClaimApproval(a) ==
    /\ pc[a] = "claim"
    /\ IF ClaimableApproval
       THEN /\ row' = [row EXCEPT !.status = "running"]
            /\ decision' = IF approves[a] THEN "approved" ELSE "rejected"
            /\ st' = [st EXCEPT ![a].status = "running",
                                ![a].approval = decision']
            /\ Goto(a, "received")
       ELSE UNCHANGED <<row, decision, st>> /\ Goto(a, "refused")
    /\ UNCHANGED <<ckpt, steps, log, stepId, approves, flag,
                   executions, budgets>>

ReceiveApproval(a) ==
    /\ approves[a]
    /\ RecordEvent(a, "received", "approval_received",
                   "save_approved", "running")
ReceiveRejection(a) ==
    /\ ~approves[a]
    /\ RecordEvent(a, "received", "approval_received",
                   "save_rejected", "cancelled")

SaveRejected(a) == Save(a, "save_rejected", "event_rejected", "cancelled")
EventRejected(a) ==
    RecordEvent(a, "event_rejected", "sql_approval_rejected",
                "ckpt_rejected", "cancelled")
CheckpointRejected(a) == Checkpoint(a, "ckpt_rejected", "done", "cancelled")

SaveApproved(a) == Save(a, "save_approved", "ckpt_approved", "running")
CheckpointApproved(a) == Checkpoint(a, "ckpt_approved", "start", "running")
StartExecution(a) == StartStep(a, "start", "save_started")
SaveStarted(a) ==
    SaveState(a, "save_started", "save_counted", "running", TRUE)
SaveCounted(a) == Save(a, "save_counted", "ckpt_executing", "running")
CheckpointExecuting(a) ==
    Checkpoint(a, "ckpt_executing", "execute", "running")

\* _sql_executor returns the rows (and pending_approval is cleared), or raises.
Execute(a) ==
    /\ pc[a] = "execute"
    /\ executions' = executions + 1
    /\ \/ /\ Goto(a, "finish")
          /\ st' = [st EXCEPT ![a].approval = "none"]
       \/ Throw(a)
    /\ UNCHANGED <<durable, stepId, approves, flag, decision, budgets>>

FinishExecutionForgotten(a) == FinishStep(a, "finish", "running", "save_result")
FinishExecution(a) == FinishStep(a, "finish", "succeeded", "save_result")
SaveResult(a) == Save(a, "save_result", "ckpt_result", "running")
CheckpointResult(a) ==
    Checkpoint(a, "ckpt_result", "save_verifying", "verifying")
SaveVerifyingResult(a) ==
    Save(a, "save_verifying", "ckpt_verifying", "verifying")
CheckpointVerifyingResult(a) ==
    Checkpoint(a, "ckpt_verifying", "save_completed", "completed")
SaveCompleted(a) == Save(a, "save_completed", "event_completed", "completed")
EventCompletedResult(a) ==
    RecordEvent(a, "event_completed", "run_completed",
                "ckpt_completed", "completed")
CheckpointCompleted(a) ==
    Checkpoint(a, "ckpt_completed", "done", "completed")

Resolve(a) ==
    \/ ClaimApproval(a) \/ ReceiveApproval(a) \/ ReceiveRejection(a)
    \/ SaveRejected(a) \/ EventRejected(a) \/ CheckpointRejected(a)
    \/ SaveApproved(a) \/ CheckpointApproved(a) \/ StartExecution(a)
    \/ SaveStarted(a) \/ SaveCounted(a) \/ CheckpointExecuting(a)
    \/ Execute(a) \/ FinishExecution(a) \/ SaveResult(a)
    \/ CheckpointResult(a) \/ SaveVerifyingResult(a)
    \/ CheckpointVerifyingResult(a) \/ SaveCompleted(a)
    \/ EventCompletedResult(a) \/ CheckpointCompleted(a)

-----------------------------------------------------------------------------
(* The environment: a statement that fails, and a restart of the process.  *)

StatementFails(p) ==
    /\ faults < MaxFaults
    /\ InFlight(p) /\ pc[p] \notin {"workflow", "verify", "signal"}
    /\ faults' = faults + 1
    /\ Throw(p)
    /\ UNCHANGED <<durable, stepId, approves, flag, history, crashes>>

Crash ==
    /\ crashes < MaxCrashes
    /\ \E p \in Processes : InFlight(p)
    /\ crashes' = crashes + 1
    /\ pc' = [p \in Processes |-> IF InFlight(p) THEN "crashed" ELSE pc[p]]
    /\ flag' = FALSE
    /\ UNCHANGED <<durable, st, stepId, approves, history, faults>>

-----------------------------------------------------------------------------

Init ==
    /\ row = Absent /\ ckpt = Absent
    /\ steps = [type \in StepType |-> "absent"]
    /\ log = [event \in EventType |-> 0]
    /\ pc = [p \in Processes |-> IF p = worker THEN "create" ELSE "idle"]
    /\ st = [p \in Processes |-> IF p = worker THEN NewAgentState ELSE Absent]
    /\ stepId = [p \in Processes |-> FALSE]
    /\ approves = [a \in Approvers |-> FALSE]
    /\ flag = FALSE
    /\ decision = "none" /\ executions = 0
    /\ faults = 0 /\ crashes = 0

WorkerStep == Answer \/ Fail(worker) \/ Interrupted \/ Cancel(worker)
ApproverStep(a) == Resolve(a) \/ Fail(a)

Next ==
    \/ WorkerStep
    \/ \E a \in Approvers :
           \/ \E roles \in RoleSets, approved \in BOOLEAN :
                  RequestApproval(a, roles, approved)
           \/ ApproverStep(a)
    \/ \E c \in Cancellers :
           RequestCancellation(c) \/ Disconnect(c) \/ CancelRun(c)
    \/ \E p \in Processes : StatementFails(p)
    \/ Crash

Spec == Init /\ [][Next]_vars

\* A thread that has a statement to run eventually runs it: the worker's is
\* submitted before chat_stream returns, a request's when it arrives.  No
\* request is ever owed, and nothing is assumed of faults and restarts.
Fairness ==
    /\ WF_vars(WorkerStep)
    /\ \A a \in Approvers : WF_vars(ApproverStep(a))
    /\ \A c \in Cancellers : WF_vars(CancelRun(c))

FairSpec == Spec /\ Fairness

-----------------------------------------------------------------------------
(* Properties.                                                             *)

\* The variables keep their types: statuses, program points and counters.
TypeOK ==
    /\ row \in AgentState /\ ckpt \in AgentState
    /\ steps \in [StepType -> StepStatus]
    /\ log \in [EventType -> Nat]
    /\ pc \in [Processes -> ProgramPoints]
    /\ st \in [Processes -> AgentState]
    /\ stepId \in [Processes -> BOOLEAN]
    /\ approves \in [Approvers -> BOOLEAN]
    /\ flag \in BOOLEAN
    /\ decision \in {"none", "approved", "rejected"}
    /\ executions \in Nat
    /\ faults \in 0..MaxFaults /\ crashes \in 0..MaxCrashes

\* "Duplicate clicks cannot execute the same pending SQL twice" and a rejected
\* query never runs, whatever requests, faults and restarts interleave
\* (claim_approval, resolve_sql_approval).
ApprovedSqlRunsAtMostOnce ==
    /\ executions \in {0, 1}
    /\ executions = 1 => decision = "approved"

\* A run that reads completed did all of its work: the workflow step succeeded,
\* and if a person decided, they approved and the query ran and succeeded
\* (answer and resolve_sql_approval; without failing statements).
CompletedMeansWorkDone ==
    row.status = "completed" =>
        /\ steps["property_chat_workflow"] = "succeeded"
        /\ decision # "none" =>
               /\ decision = "approved" /\ executions = 1
               /\ steps["approved_sql_execution"] = "succeeded"

\* Once recorded, an outcome event agrees with the run's status for good: no
\* run reports run_completed and later reads cancelled (event order in answer,
\* resolve_sql_approval, cancel_run; without failing statements).
OutcomeEventsMatchRow ==
    /\ log["run_completed"] > 0 => row.status = "completed"
    /\ log["run_failed"] > 0 => row.status = "failed"
    /\ log["user_requested"] + log["client_disconnected"]
         + log["sql_approval_rejected"] > 0 => row.status = "cancelled"

\* "Make cooperative transport cancellation durable exactly once": the API, the
\* disconnect path and the worker report at most one claimed cancellation.
CancellationClaimedOnce ==
    log["user_requested"] + log["client_disconnected"] <= 1

\* A run left waiting can be resumed: its latest checkpoint is the waiting one
\* resolve_sql_approval demands (without failing statements or restarts).
WaitingRunIsResumable ==
    row.status = "waiting_for_approval" /\ ~InFlight(worker)
        => ckpt.status = "waiting_for_approval"

\* Nothing overwrites a cancelled run, whatever fails (save's WHERE clause).
CancelledIsFinal ==
    [][row.status = "cancelled" => row'.status = "cancelled"]_vars

\* A started run comes to rest for good: finished, or waiting for a person.
RunSettles ==
    <>[](row.status \in TERMINAL_RUN_STATUSES \cup {"waiting_for_approval"})

\* A claimed approval is carried to an outcome, even if its run is cancelled.
DecisionSettles ==
    decision # "none" ~> row.status \in TERMINAL_RUN_STATUSES

-----------------------------------------------------------------------------
(* The inductive invariant behind ApprovedSqlRunsAtMostOnce: the row waits  *)
(* for approval once, so only one request can ever claim it.                *)

\* Where the worker is once its row may have been seen waiting.
WorkerAfterWaiting == WorkerTail \cup Failing \cup Stopped

\* Where a process may hold a state that is waiting in memory.
WaitingPoints(p) ==
    Stopped \cup
        (IF p = worker
         THEN {"finish", "save_final", "interrupted", "ckpt_step", "ckpt_final"}
         ELSE {"claim", "claim_cancel", "load", "refused"})

\* Only the worker's final save can write "waiting_for_approval".
WaitingIsWrittenOnce ==
    /\ \A p \in Processes :
           st[p].status = "waiting_for_approval" => pc[p] \in WaitingPoints(p)
    /\ row.status = "waiting_for_approval" => pc[worker] \in WorkerAfterWaiting

\* The claim is taken once, by the one request that may go on to execute.
ClaimIsExclusive ==
    /\ decision # "none" =>
           pc[worker] \in WorkerAfterWaiting /\ row.status # "waiting_for_approval"
    /\ decision = "none" => executions = 0
    /\ \A a \in Approvers : pc[a] \in BeforeExecution =>
           /\ decision = IF approves[a] THEN "approved" ELSE "rejected"
           /\ pc[a] = "received" \/ approves[a]
           /\ executions = 0
    /\ \A a, b \in Approvers :
           pc[a] \in BeforeExecution /\ pc[b] \in BeforeExecution => a = b

ApprovalInv ==
    /\ TypeOK
    /\ WaitingIsWrittenOnce
    /\ ClaimIsExclusive
    /\ ApprovedSqlRunsAtMostOnce

-----------------------------------------------------------------------------
(* The contract the run keeps with its readers, restarts included, as long *)
(* as no statement fails.                                                  *)

Contract == INSTANCE RunContract WITH status <- row.status

\* RunLifecycle implements RunContract: the row's status, the claimed decision
\* and the executor's calls only move as the contract says.
ImplementsContract == Contract!Spec
=============================================================================

----------------------------- MODULE AgentLoop ------------------------------
(***************************************************************************)
(* BoundedAgentLoop of app/agents/loop.py: the bounds of one agent run and  *)
(* the record of its actions and observations.  The functions decide and    *)
(* execute it is given are the steps of the module that uses it.            *)
(***************************************************************************)
EXTENDS Naturals, Sequences, SequencesExt

CONSTANTS MaxSteps, MaxToolCalls, MaxPlannerRetries, MaxSqlApprovals

\* ExecutionLimits
ASSUME LimitsAreLegal ==
    /\ MaxSteps \in Nat \ {0} /\ MaxToolCalls \in Nat \ {0}
    /\ MaxPlannerRetries \in Nat /\ MaxSqlApprovals \in Nat

VARIABLES
    taken,            \* _actions
    observations,     \* _observations: the status and the data of each
    plannerAttempts,
    sqlApprovals,
    late              \* max_run_seconds have passed since the loop was made

loopVars == <<taken, observations, plannerAttempts, sqlApprovals, late>>

LoopInit ==
    /\ taken = <<>> /\ observations = <<>>
    /\ plannerAttempts = 0 /\ sqlApprovals = 0
    /\ late = FALSE

\* AgentAction; its key (the position of the planned call) is no part of the
\* signature.
Action(key, tool, args) == [key |-> key, tool |-> tool, args |-> args]
Signature(a) == <<a.tool, a.args>>
Seen(a) == \E i \in DOMAIN taken : Signature(taken[i]) = Signature(a)

\* ensure_within_duration
InTime == ~late

\* The clock is anybody's: the deadline may pass between any two steps.
DeadlinePasses ==
    /\ ~late /\ late' = TRUE
    /\ UNCHANGED <<taken, observations, plannerAttempts, sqlApprovals>>

-----------------------------------------------------------------------------
\* plan_with_retries: the body of the loop up to plan_once.
MayPlan == InTime /\ plannerAttempts < MaxPlannerRetries + 1

CountAttemptForgotten == MayPlan /\ UNCHANGED loopVars

CountAttempt ==
    /\ MayPlan
    /\ plannerAttempts' = plannerAttempts + 1
    /\ UNCHANGED <<taken, observations, sqlApprovals, late>>

OutOfAttempts == plannerAttempts = MaxPlannerRetries + 1

\* request_sql_approval
MayRequestApproval == InTime /\ sqlApprovals < MaxSqlApprovals

CountApproval ==
    /\ MayRequestApproval
    /\ sqlApprovals' = sqlApprovals + 1
    /\ UNCHANGED <<taken, observations, plannerAttempts, late>>

\* run: an action is taken only below both limits and if it is new.  The
\* step number of an action is one more than the observations made.
MayTakeInclusive(a) ==
    /\ InTime
    /\ Len(observations) <= MaxSteps /\ Len(taken) <= MaxToolCalls
    /\ ~Seen(a)

MayTake(a) ==
    /\ InTime
    /\ Len(observations) < MaxSteps /\ Len(taken) < MaxToolCalls
    /\ ~Seen(a)

Take(a) ==
    /\ MayTake(a)
    /\ taken' = Append(taken, a)
    /\ UNCHANGED <<observations, plannerAttempts, sqlApprovals, late>>

\* execute's exception, and an execute that returns after the deadline, both
\* leave a failed observation.
Observe(status, data) ==
    /\ observations' = Append(observations, [status |-> status, data |-> data])
    /\ UNCHANGED <<taken, plannerAttempts, sqlApprovals, late>>

ObserveResult(data) == InTime /\ Observe("succeeded", data)

ObserveFailure == Observe("failed", "none")

-----------------------------------------------------------------------------
(***************************************************************************)
(* The limits of a run hold together: no step, call, retry or approval is   *)
(* one too many, no action is taken twice, and every action but the one in  *)
(* flight has its observation.                                              *)
(***************************************************************************)
WithinLimits ==
    /\ Len(observations) <= MaxSteps /\ Len(taken) <= MaxToolCalls
    /\ Len(taken) - Len(observations) \in {0, 1}
    /\ \A i, j \in DOMAIN taken : Signature(taken[i]) = Signature(taken[j]) => i = j
    /\ plannerAttempts <= MaxPlannerRetries + 1
    /\ sqlApprovals <= MaxSqlApprovals
=============================================================================

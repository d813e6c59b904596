---------------------------- MODULE RunContract ----------------------------
(***************************************************************************)
(* What a durable run promises to everybody who reads its row: a status    *)
(* that follows the lifecycle table and ends for good, an approval that is *)
(* decided once, by a person, and one execution of the approved SQL.       *)
(***************************************************************************)
EXTENDS RunStatus, Naturals

VARIABLES
    status,      \* the run's status, "absent" before it exists
    decision,    \* "none" until the pending approval is decided
    executions   \* how often the approved SQL was run

vars == <<status, decision, executions>>

Init == status = "absent" /\ decision = "none" /\ executions = 0

Create ==
    /\ status = "absent" /\ status' = "created"
    /\ UNCHANGED <<decision, executions>>

\* The run's own progress and its cancellation.  Leaving the waiting state for
\* running is not progress: it takes a decision.
Move ==
    /\ status # "absent"
    /\ Allowed(status, status')
    /\ ~(status = "waiting_for_approval" /\ status' = "running")
    /\ UNCHANGED <<decision, executions>>

Decide(verdict) ==
    /\ status = "waiting_for_approval" /\ status' = "running"
    /\ decision = "none" /\ decision' = verdict
    /\ UNCHANGED executions

\* The query may still be running when its run is cancelled.
Execute ==
    /\ decision = "approved" /\ executions = 0
    /\ status \in {"running", "cancelled"}
    /\ executions' = 1
    /\ UNCHANGED <<status, decision>>

Next ==
    \/ Create \/ Move \/ Execute
    \/ \E verdict \in {"approved", "rejected"} : Decide(verdict)

Spec == Init /\ [][Next]_vars
=============================================================================

------------------------- MODULE RunLifecycleClaims -------------------------
(***************************************************************************)
(* What the repository's documents and comments say of a run's lifecycle,  *)
(* stated as properties of RunLifecycle so that they can be confronted     *)
(* with what the code does.                                                *)
(***************************************************************************)
EXTENDS RunLifecycle

\* README.md:665: "Failed and Cancelled are terminal states alongside Completed."
TerminalStatesAreFinal ==
    [][row.status \in TERMINAL_RUN_STATUSES => row'.status = row.status]_vars

\* run_store.py:276, claim_cancellation: "Atomically prevent a nonterminal run
\* from doing more durable work": no step is started for a cancelled run.
CancelledRunDoesNoMoreWork ==
    [][row.status = "cancelled" =>
           \A type \in StepType : steps[type] = "absent" => steps'[type] = "absent"]_vars

\* README.md:836: "A run can survive process restart, pause for human approval":
\* a run that waits when the server restarts can still be approved.
WaitingRunSurvivesRestart ==
    row.status = "waiting_for_approval" /\ pc[worker] = "crashed"
        => ckpt.status = "waiting_for_approval"

\* README.md:806: "Run memory retains the current plan, completed and pending
\* steps": the number of the step a run has reached never goes back.
StepProgressIsRetained == [][row'.step >= row.step]_vars
=============================================================================

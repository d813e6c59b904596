----------------------------- MODULE RunStatus -----------------------------
(***************************************************************************)
(* The lifecycle vocabulary of an agent run (app/agents/state.py): the     *)
(* statuses, which of them are terminal, and the transition table that     *)
(* transition_agent_state enforces on a process's in-memory state.         *)
(***************************************************************************)

RunStatuses ==
    {"created", "planning", "running", "waiting_for_approval",
     "verifying", "completed", "failed", "cancelled"}

TERMINAL_RUN_STATUSES == {"completed", "failed", "cancelled"}

ALLOWED_STATUS_TRANSITIONS ==
    [created |-> {"planning", "cancelled", "failed"},
     planning |-> {"running", "waiting_for_approval", "failed", "cancelled"},
     running |-> {"waiting_for_approval", "verifying", "completed",
                  "failed", "cancelled"},
     waiting_for_approval |-> {"running", "failed", "cancelled"},
     verifying |-> {"completed", "failed", "cancelled"},
     completed |-> {},
     failed |-> {},
     cancelled |-> {}]

\* transition_agent_state accepts s -> t: the same status again, or a listed one.
Allowed(s, t) == t = s \/ t \in ALLOWED_STATUS_TRANSITIONS[s]

\* "absent": the run has no row in agent_runs yet.
RowStatuses == RunStatuses \cup {"absent"}
=============================================================================

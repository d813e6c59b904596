--------------------------- MODULE EvidenceStore ----------------------------
(***************************************************************************)
(* What AgentRuntime.answer and AgentRunStore.save keep of an answered run: *)
(* the row, the artifacts and one citation_evidence row per citation.  save *)
(* is one transaction for the row and one more for every artifact and       *)
(* citation, so it may stop in the middle; a statement may fail.            *)
(***************************************************************************)
EXTENDS Naturals, Sequences, SequencesExt

CONSTANT MaxStatementFaults   \* bound: statements that fail

ASSUME FaultBoundIsNatural == MaxStatementFaults \in Nat

VARIABLES
    row,        \* agent_runs.status as committed
    state,      \* state["status"] in the worker's memory
    citations,  \* state["citations"]: the ids, in order
    toStore,    \* what the save in progress has still to write
    stored,     \* ids in citation_evidence
    report,     \* what was answered: "none" | "plain" | an SQL draft that
                \* "approval", "denied" or "forbidden" says the role allows
    faults

storeVars == <<row, state, citations, toStore, stored, report, faults>>

\* The artifacts of a save come before its citations, whose ids are positive.
Artifact == 0

StoreInit ==
    /\ row = "running" /\ state = "running"
    /\ citations = <<>> /\ toStore = <<>> /\ stored = {}
    /\ report = "none" /\ faults = 0

Idle == toStore = <<>>

\* save commits the row before it looks at an artifact or a citation.
\* Duplicate ids are refused in between, after the artifacts.
Save(status, ids) ==
    /\ row' = status /\ state' = status
    /\ toStore' = <<Artifact>> \o ids

\* The answer's citations and artifacts enter the state.  An answer with a SQL
\* draft waits; it is completed at once for a role that may not approve SQL,
\* and fails the run for one that may not ask for custom analytics.
SaveAnswer(ids, kind) ==
    /\ state = "running" /\ Idle
    /\ citations' = ids /\ report' = kind
    /\ Save(CASE kind = "approval" -> "waiting_for_approval"
              [] kind = "denied" -> "completed"
              [] kind = "forbidden" -> "failed"
              [] OTHER -> "verifying", ids)
    /\ UNCHANGED <<stored, faults>>

Refused(ids) == ~IsInjective(ids)

\* The failure handler saves the same state once more; what it raises then is
\* swallowed.  A run that already reads completed is left as it is.
Handler ==
    IF state \in {"verifying", "waiting_for_approval"}
    THEN Save("failed", citations)
    ELSE toStore' = <<>> /\ UNCHANGED <<row, state>>

\* One artifact or citation: its invocation must be a row of the run.
StoreOne(recorded) ==
    /\ ~Idle
    /\ IF (Head(toStore) = Artifact /\ Refused(citations))
          \/ (Head(toStore) # Artifact /\ Head(toStore) \notin recorded)
       THEN Handler /\ UNCHANGED stored
       ELSE /\ toStore' = Tail(toStore)
            /\ stored' = stored \cup {Head(toStore)}
            /\ UNCHANGED <<row, state>>
    /\ UNCHANGED <<citations, report, faults>>

StatementFails ==
    /\ ~Idle /\ faults < MaxStatementFaults
    /\ faults' = faults + 1
    /\ Handler
    /\ UNCHANGED <<citations, stored, report>>

\* After verification the same citations are saved again, over those stored.
CompleteRun ==
    /\ state = "verifying" /\ Idle
    /\ Save("completed", citations)
    /\ UNCHANGED <<citations, stored, report, faults>>

StoreStep(recorded) == StoreOne(recorded) \/ StatementFails \/ CompleteRun

-----------------------------------------------------------------------------
(***************************************************************************)
(* Whatever statement fails, a run that reads completed after verification  *)
(* has every citation of its answer in the store: its completing save       *)
(* repeats one that went through.  And no citation the orchestrator makes   *)
(* is refused: a run fails here only because a statement failed or the role *)
(* forbids custom analytics.  (The answer whose approval is denied is       *)
(* completed without that first save.)                                      *)
(***************************************************************************)
CitationsAreStored ==
    /\ row = "completed" /\ report = "plain" => ToSet(citations) \subseteq stored
    /\ row = "failed" => faults > 0 \/ report = "forbidden"
=============================================================================

------------------------------ MODULE RunTurn -------------------------------
(***************************************************************************)
(* An agent run's turn as a whole: ChatTurn answers, and EvidenceStore keeps *)
(* the citations of the answer, each of which names a tool invocation.      *)
(***************************************************************************)
EXTENDS ChatTurn, EvidenceStore

Init == TurnInit /\ StoreInit

\* citation_evidence: one citation per invocation that succeeded.  A result
\* from the executor's cache has the id of the invocation it repeats, and is
\* cited once.
CitedIds ==
    MembersAt([k \in DOMAIN invocations |-> invocations[k].id],
              {k \in DOMAIN invocations : invocations[k].status = "succeeded"})

CitationEvidenceRepeating == CitedIds

CitationEvidence == WithoutRepeats(CitedIds)

\* The investigation cites its rent-roll calls and the searches that kept a
\* chunk, in the report's order; other answers what citation_evidence lists.
ReportCitations ==
    LET reported == [k \in 1 .. 4 |-> results[<<Trend, Vacant, Rent, Search>>[k]]]
    IN MembersAt(reported,
                 {k \in 1 .. 4 : /\ reported[k] # 0
                                 /\ reported[k] \in SearchIds => DataIn(reported[k]) = "strong"})

Citations ==
    IF reply.kind = "investigation" THEN ReportCitations ELSE CitationEvidence

Kept ==
    /\ outcome = "answered" /\ ~cancelled
    /\ \E kind \in IF reply.kind = "sql_approval"
                   THEN {"approval", "denied", "forbidden"} ELSE {"plain"} :
          SaveAnswer(Citations, kind)
    /\ UNCHANGED vars

Recorded == DOMAIN toolRows

Store == StoreStep(Recorded) /\ UNCHANGED vars

Turn == TurnStep /\ UNCHANGED storeVars

Over ==
    /\ pc = "done" /\ Idle /\ (row # "running" \/ outcome # "answered" \/ cancelled)
    /\ state # "verifying"
    /\ UNCHANGED <<vars, storeVars>>

Next ==
    \/ Turn
    \/ Environment /\ UNCHANGED storeVars
    \/ Kept
    \/ Store
    \/ Over

Spec == Init /\ [][Next]_<<vars, storeVars>> /\ WF_<<vars, storeVars>>(Turn)

-----------------------------------------------------------------------------
TypeOK ==
    /\ WithinLimits
    /\ outcome \in {"none", "answered", "failed", "cancelled"}
    /\ (outcome = "none") = (pc # "done")
    /\ plan.route \in RouteType \cup {"investigation"}
    /\ years \in BOOLEAN /\ grounded \in BOOLEAN /\ calling \in BOOLEAN
    /\ \A t \in Tools : results[t] \in 0 .. Len(toolRows)
    /\ row \in {"running", "verifying", "completed", "failed", "waiting_for_approval"}

\* A turn ends, with an answer or an exception, as long as tool calls return
\* (RequestsEnd of ToolRuntime: each is answered or times out): no planner is
\* asked for ever, and no workflow goes on choosing actions.
TurnEnds == <>(pc = "done")
=============================================================================

------------------------------ MODULE ChatTurn ------------------------------
(***************************************************************************)
(* One request of a conversation, LangChainOrchestrator.answer: the profile *)
(* and scope checks, the planners, the plan or the occupancy investigation  *)
(* carried out in the bounded loop, and the answer with its charts, sources *)
(* and tool results.  Wording is left out; a predicate of the message is a  *)
(* choice where the code evaluates it.  A tool call is two steps, so a      *)
(* cancellation or the deadline may come while its handler runs.            *)
(***************************************************************************)
EXTENDS AgentLoop, ToolPlan

VARIABLES
    pc,           \* where answer is
    calling,      \* a tool call is with its handler
    llm,          \* the request names a provider and a model, not "mock"
    topic,        \* what the planner's predicates see in the message
    plan,         \* the plan that is carried out
    wanted,       \* the actions of _execute_tool_plan, in order
    years,        \* requested_years is not empty
    grounded,     \* _requires_grounded_retrieval_answer
    toolRows,     \* status of every invocation the executor started, by id
    invocations,  \* _tool_invocations: the results answer has received
    results,      \* tool_results: per tool, the invocation it holds, or none
    components,   \* the charts and tables, with the invocation each shows
    cancelled,    \* the cancellation check says so
    outcome,      \* how answer ended
    reply         \* the ChatResponse

turnVars == <<pc, calling, llm, topic, plan, wanted, years, grounded, toolRows,
              invocations, results, components, cancelled, outcome, reply>>
vars == <<turnVars, loopVars>>

Profile == "get_property_profile"
Properties == "list_properties"
Periods == "get_report_periods"
Kpis == "get_latest_property_kpis"
Trend == "get_occupancy_trend"
Charges == "get_charge_breakdown"
Vacant == "get_vacant_units"
Rent == "get_rent_by_unit_type"
Search == "search_property_content"
Tools == {Profile, Properties, Periods, Kpis, Trend, Charges, Vacant, Rent, Search}

\* What is told apart in a tool's data.  Weak chunks are those annotated with
\* low confidence.
DataOf(tool) ==
    CASE tool = Profile -> {"found", "missing"}
      [] tool = Periods -> {"covers", "misses"}
      [] tool = Trend -> {"decline", "flat", "empty"}
      [] tool = Vacant -> {"rows", "empty"}
      [] tool = Search -> {"strong", "weak", "empty"}
      [] OTHER -> {"rows"}

NoReply == [kind |-> "none"]
NoPlan == Clarification
NoAction == Action(0, "none", <<>>)

\* A definition whose name extends a following one's is that definition with
\* a plausible bug; only the mutation runs use it.
TurnInit ==
    /\ pc = "profile" /\ calling = FALSE
    /\ llm \in BOOLEAN /\ topic \in Topics
    /\ plan = NoPlan /\ wanted = <<>> /\ years = FALSE /\ grounded = FALSE
    /\ toolRows = <<>> /\ invocations = <<>>
    /\ results = [t \in Tools |-> 0] /\ components = <<>>
    /\ cancelled = FALSE /\ outcome = "none" /\ reply = NoReply
    /\ LoopInit

-----------------------------------------------------------------------------
(* Tool calls: _call_tool and the investigation's execute.                 *)

\* _collect_structured_from_plan gives a trend without months its default.
InputOf(a) ==
    IF a.tool = Trend /\ a.args = NoArgument THEN Number(MaxArgument) ELSE a.args

\* The call the code makes at pc: a tool and its input.
Requested ==
    CASE pc = "profile" -> <<Profile, NoArgument>>
      [] pc \in {"scope", "scope_note"} -> <<Properties, NoArgument>>
      [] pc = "followup" -> <<Charges, Number(MaxArgument)>>
      [] pc = "execute" -> <<Last(taken).tool, InputOf(Last(taken))>>
      [] OTHER -> <<>>

\* A result the request already holds answers the action without a call.
AlreadyHeld == pc = "execute" /\ plan.route # "investigation"
               /\ Requested[1] \in {Kpis, Periods} /\ results[Requested[1]] # 0
               /\ Last(taken).key # 0

Invocation(i) == CHOOSE v \in Range(invocations) : v.id = i

CachedIn(request) ==
    {v \in Range(invocations) :
        v.status = "succeeded" /\ <<v.tool, v.input>> = request}

\* The executor's budget counts every call it did not answer from its cache,
\* those outside the loop too.
Used == Len(SelectSeq(toolRows, LAMBDA s: s # "over_budget"))

StartCall ==
    /\ Requested # <<>> /\ ~AlreadyHeld /\ ~calling /\ ~cancelled
    /\ calling' = TRUE
    /\ toolRows' = IF CachedIn(Requested) # {} THEN toolRows
                   ELSE Append(toolRows,
                               IF Used < MaxToolCalls THEN "running" ELSE "over_budget")
    /\ UNCHANGED <<pc, llm, topic, plan, wanted, years, grounded, invocations,
                   results, components, cancelled, outcome, reply, loopVars>>

Running == calling /\ CachedIn(Requested) = {} /\ Last(toolRows) = "running"

\* A result is received with the next status of its row.
Receive(id, status, data, rows) ==
    /\ calling /\ ~cancelled
    /\ toolRows' = rows
    /\ invocations' = Append(invocations,
          [id |-> id, tool |-> Requested[1], input |-> Requested[2],
           status |-> status, data |-> data])
    /\ calling' = FALSE

FinishedRow(status) == [toolRows EXCEPT ![Len(toolRows)] = status]

Succeeded(id, data) ==
    \/ /\ Running /\ id = Len(toolRows) /\ data \in DataOf(Requested[1])
       /\ Receive(id, "succeeded", data, FinishedRow("succeeded"))
    \/ \E v \in CachedIn(Requested) :
          /\ id = v.id /\ data = v.data
          /\ Receive(id, "succeeded", data, toolRows)

Ids == 1 .. (Len(toolRows) + 1)
AllData == UNION {DataOf(t) : t \in Tools}

\* answer ends with an exception or with a ChatResponse.
Ends(how, r) == outcome' = how /\ reply' = r /\ pc' = "done"

Raises(how) ==
    /\ Ends(how, NoReply)
    /\ UNCHANGED <<llm, topic, plan, wanted, years, grounded, results,
                   components, cancelled>>

\* The reply of a branch that shows no chart and no source.
Replies(kind) ==
    Ends("answered", [kind |-> kind, components |-> <<>>, sources |-> {},
                      results |-> {t \in Tools : results'[t] # 0}])

Settled == UNCHANGED <<llm, topic, plan, wanted, years, grounded, components, cancelled>>

\* A failed call raises in answer; in the loop it leaves an observation too.
CallFails ==
    /\ \/ Running /\ Receive(Len(toolRows), "failed", "none", FinishedRow("failed"))
       \/ /\ calling /\ CachedIn(Requested) = {} /\ Last(toolRows) = "over_budget"
          /\ Receive(Len(toolRows), "failed", "none", toolRows)
    /\ Raises("failed")
    /\ IF pc = "execute" THEN ObserveFailure ELSE UNCHANGED loopVars

\* raise_if_cancelled before and after every call: the result is dropped.
Interrupted ==
    /\ cancelled /\ (calling \/ (Requested # <<>> /\ ~AlreadyHeld))
    /\ calling' = FALSE
    /\ \/ UNCHANGED toolRows
       \/ Running /\ \E s \in {"succeeded", "failed"} : toolRows' = FinishedRow(s)
    /\ Raises("cancelled")
    /\ IF pc = "execute" THEN ObserveFailure ELSE UNCHANGED loopVars
    /\ UNCHANGED invocations

\* ensure_within_duration between the calls: not before a plan made by rules,
\* nor on the way to the answers that only ask back or refuse.
TooLate ==
    /\ late
    /\ \/ pc \in {"branch", "asked", "decide", "generate", "generated"}
       \/ pc = "plan" /\ llm /\ ~OutOfAttempts
       \/ pc = "draft" /\ llm
    /\ Raises("failed")
    /\ UNCHANGED <<calling, toolRows, invocations, loopVars>>

-----------------------------------------------------------------------------
(* answer up to the plan.                                                  *)

ProfileReturns ==
    /\ pc = "profile"
    /\ \E i \in Ids, d \in AllData :
          /\ Succeeded(i, d)
          /\ IF late
             THEN Raises("failed")
             ELSE /\ results' = IF d = "found" THEN [results EXCEPT ![Profile] = i]
                                ELSE results
                  /\ IF d = "found" THEN pc' = "scope" /\ UNCHANGED <<outcome, reply>>
                     ELSE Replies("unknown_property")
                  /\ Settled
    /\ UNCHANGED loopVars

\* _property_scope_conflict, and _property_scope_note, which asks again.
ScopeReturns ==
    /\ pc \in {"scope", "scope_note"}
    /\ \E i \in Ids, d \in AllData : Succeeded(i, d)
    /\ \/ late /\ pc = "scope" /\ Raises("failed")
       \/ /\ ~late /\ pc = "scope" /\ UNCHANGED results
          /\ Replies("scope_conflict") /\ Settled
       \/ /\ pc = "scope_note" \/ ~late
          /\ pc' = IF pc = "scope" THEN "scope_note" ELSE "branch"
          /\ UNCHANGED <<outcome, reply, results>> /\ Settled
    /\ UNCHANGED loopVars

Step(next) ==
    /\ pc' = next
    /\ UNCHANGED <<calling, llm, topic, wanted, years, grounded, toolRows,
                   invocations, results, components, cancelled, outcome, reply>>

Answers(kind) ==
    /\ UNCHANGED results /\ Replies(kind)
    /\ UNCHANGED <<calling, toolRows, invocations, loopVars>> /\ Settled

\* Investigation, followup on a chart, location only, or a plan.  The
\* investigation's loop is entered without a look at the clock.
ChooseBranch ==
    /\ pc = "branch"
    /\ \/ /\ plan' = [plan EXCEPT !.route = "investigation"]
          /\ Step("decide") /\ UNCHANGED loopVars
       \/ InTime /\ Step("followup") /\ UNCHANGED <<plan, loopVars>>
       \/ InTime /\ Answers("no_edit_in_place")
       \/ InTime /\ Answers("location")
       \/ InTime /\ Step("plan") /\ UNCHANGED <<plan, loopVars>>

\* The total is told; tool_results gets the total, not the breakdown.
FollowupReturns ==
    /\ pc = "followup"
    /\ \E i \in Ids, d \in AllData : Succeeded(i, d)
    /\ IF late THEN Raises("failed")
       ELSE UNCHANGED results /\ Replies("followup_total") /\ Settled
    /\ UNCHANGED loopVars

\* The topic has done its part once there is a plan.
Planned ==
    /\ pc' = "planned" /\ topic' = "other"
    /\ UNCHANGED <<calling, llm, wanted, years, grounded, toolRows, invocations,
                   results, components, cancelled, outcome, reply>>

AskPlanner ==
    /\ pc = "plan" /\ llm
    /\ CountAttempt
    /\ Step("asked") /\ UNCHANGED plan

\* plan_once raises or returns None (the first disjunct), or a plan.
PlannerAnswers ==
    /\ pc = "asked" /\ InTime
    /\ \/ topic \in {"kpi_intent", "website", "other"} /\ Step("plan") /\ UNCHANGED plan
       \/ plan' \in PlansWithLlm(topic) /\ Planned
    /\ UNCHANGED loopVars

PlanByRules ==
    /\ pc = "plan" /\ (~llm \/ OutOfAttempts)
    /\ plan' \in {Validated(p) : p \in DeterministicPlans(topic)}
    /\ Planned
    /\ UNCHANGED loopVars

-----------------------------------------------------------------------------
(* The route of the plan.                                                  *)

AskBack ==
    /\ pc = "planned" /\ plan.route \in {"clarification", "unsupported"}
    /\ Answers(plan.route)

\* The approval is counted before the draft is asked for, and a run that may
\* not count one more fails.
RequestSqlApproval ==
    /\ pc = "planned" /\ plan.route = "sql_approval"
    /\ IF MayRequestApproval
       THEN CountApproval /\ Step("draft") /\ UNCHANGED plan
       ELSE /\ Raises("failed")
            /\ UNCHANGED <<calling, toolRows, invocations, loopVars>>

\* No model, no draft, a draft that says it cannot answer or that
\* validate_drafted_sql refuses; or a component that waits for approval.
DraftSql ==
    /\ pc = "draft" /\ (llm => InTime)
    /\ \/ Answers("sql_unavailable")
       \/ /\ llm
          /\ Ends("answered",
                  [kind |-> "sql_approval",
                   components |-> <<[chart |-> "sql_approval", from |-> 0]>>,
                   sources |-> {}, results |-> {t \in Tools : results[t] # 0}])
          /\ UNCHANGED <<calling, llm, topic, plan, wanted, years, grounded, toolRows,
                         invocations, results, components, cancelled, loopVars>>

\* _execute_tool_plan: the preflight comes first, a profile call is skipped,
\* and an action whose signature is there already is not added.
Preflight == Action(0, Periods, NoArgument)

StructuredActions(p) ==
    [i \in DOMAIN p.tools |-> Action(i, p.tools[i].name, p.tools[i].arg)]
RetrievalActions(p) ==
    [i \in DOMAIN p.queries |-> Action(i, Search, <<p.queries[i].text, p.queries[i].n>>)]

Added(actions) ==
    MembersAt(actions,
              {i \in DOMAIN actions :
                  /\ actions[i].tool # Profile
                  /\ \A j \in 1 .. i - 1 : Signature(actions[j]) # Signature(actions[i])})

PlannedActions(p) ==
    (IF p.route \in {"structured", "hybrid"} THEN StructuredActions(p) ELSE <<>>)
    \o (IF p.route \in {"retrieval", "hybrid"} THEN RetrievalActions(p) ELSE <<>>)

ActionsForPreflightLast(p, asked) ==
    Added(PlannedActions(p) \o (IF asked THEN <<Preflight>> ELSE <<>>))

ActionsFor(p, asked) ==
    Added((IF asked THEN <<Preflight>> ELSE <<>>) \o PlannedActions(p))

\* Years count only for a plan with rent-roll tools.
EnterLoop ==
    /\ pc = "planned" /\ plan.route \in {"structured", "hybrid", "retrieval"}
    /\ \/ plan.route # "retrieval" /\ Answers("unsupported_metric")
       \/ \E asked \in BOOLEAN :
             /\ years' = (asked /\ plan.route # "retrieval")
             /\ wanted' = ActionsFor(plan, years')
             /\ pc' = "decide"
             /\ UNCHANGED <<calling, llm, topic, plan, grounded, toolRows, invocations,
                            results, components, cancelled, outcome, reply, loopVars>>

-----------------------------------------------------------------------------
(* The loop: decide and execute of the two workflows.                      *)

YearsMissing ==
    /\ wanted # <<>> /\ observations # <<>>
    /\ Last(taken) = Preflight /\ Last(observations).data = "misses"

PlannedNext ==
    IF YearsMissing \/ Len(observations) >= Len(wanted) THEN NoAction
    ELSE wanted[Len(observations) + 1]

\* OccupancyInvestigationPolicy.decide: what was seen last picks the next
\* tool; months of decline are not told apart.
PolicyNext ==
    LET website == Action(4, Search, <<"leasing", DefaultResults>>)
        seen == Last(observations).data
    IN CASE observations = <<>> -> Action(1, Trend, Number(MaxArgument))
         [] Last(taken).tool = Trend ->
               IF seen = "decline" THEN Action(2, Vacant, <<"month", MaxArgument>>) ELSE NoAction
         [] Last(taken).tool = Vacant ->
               IF seen = "rows" THEN Action(3, Rent, <<"month", 0>>) ELSE website
         [] Last(taken).tool = Rent -> website
         [] OTHER -> NoAction

NextAction == IF plan.route = "investigation" THEN PolicyNext ELSE PlannedNext

Decide ==
    /\ pc = "decide" /\ InTime /\ NextAction # NoAction
    /\ IF MayTake(NextAction)
       THEN Take(NextAction) /\ Step("execute") /\ UNCHANGED plan
       ELSE /\ Raises("failed")
            /\ UNCHANGED <<calling, toolRows, invocations, loopVars>>

\* The months an answer may be about were asked for and are not there.
CompleteUnavailable ==
    /\ pc = "decide" /\ InTime /\ YearsMissing
    /\ Answers("unavailable_years")

Complete ==
    /\ pc = "decide" /\ InTime /\ NextAction = NoAction /\ ~YearsMissing
    /\ IF plan.route = "investigation" THEN Step("report") ELSE Step("evidence")
    /\ UNCHANGED <<plan, loopVars>>

\* The chart or table the code appends at once for a tool of a plan; a KPI
\* component depends on the wording of the message.
Chart(tool, id) == [chart |-> tool, from |-> id]

Shown(tool, id) ==
    CASE tool = Kpis -> {<<>>, <<Chart(tool, id)>>}
      [] tool \in {Trend, Charges, Vacant, Rent} -> {<<Chart(tool, id)>>}
      [] OTHER -> {<<>>}

\* An investigation keeps only chunks of enough confidence.
KeptData(tool, data) ==
    IF plan.route = "investigation" /\ tool = Search /\ data = "weak" THEN "empty"
    ELSE data

AfterAction(data) ==
    /\ IF InTime THEN ObserveResult(data) ELSE ObserveFailure
    /\ IF InTime THEN pc' = "decide" /\ UNCHANGED <<outcome, reply>>
       ELSE Ends("failed", NoReply)

ActionReturns ==
    /\ pc = "execute"
    /\ LET tool == Requested[1] IN
       \E i \in Ids, d \in AllData :
          /\ Succeeded(i, d)
          /\ results' = [results EXCEPT ![tool] = i]
          /\ \E s \in IF plan.route = "investigation" THEN {<<>>} ELSE Shown(tool, i) :
                components' = components \o s
          /\ AfterAction(KeptData(tool, d))
    /\ UNCHANGED <<llm, topic, plan, wanted, years, grounded, cancelled>>

ReuseResult ==
    /\ AlreadyHeld /\ ~calling
    /\ \E s \in Shown(Requested[1], results[Requested[1]]) :
          components' = components \o s
    /\ AfterAction(Invocation(results[Requested[1]]).data)
    /\ UNCHANGED <<calling, llm, topic, plan, wanted, years, grounded, toolRows,
                   invocations, results, cancelled>>

-----------------------------------------------------------------------------
(* The answer.                                                             *)

SearchIds == {v.id : v \in {u \in Range(invocations) : u.tool = Search
                                                     /\ u.status = "succeeded"}}
DataIn(i) == Invocation(i).data
Confident == \E i \in SearchIds : DataIn(i) = "strong"
Listed == {i \in SearchIds : DataIn(i) # "empty"}

\* _run_occupancy_investigation after its loop: charts and sources of what
\* has rows.
ReportInvestigation ==
    /\ pc = "report"
    /\ LET drawn == <<Trend, Vacant, Rent>>
           filled == MembersAt(drawn,
                       {k \in DOMAIN drawn : results[drawn[k]] # 0
                                             /\ DataIn(results[drawn[k]]) # "empty"})
       IN Ends("answered",
               [kind |-> "investigation",
                components |-> [k \in DOMAIN filled |-> Chart(filled[k], results[filled[k]])],
                sources |-> {i \in SearchIds : DataIn(i) = "strong"},
                results |-> {t \in Tools : results[t] # 0}])
    /\ UNCHANGED <<calling, llm, topic, plan, wanted, years, grounded, toolRows,
                   invocations, results, components, cancelled, loopVars>>

\* A question of fact needs confident evidence.  Only one without rent-roll
\* tools is refused for want of it.
LacksGroundWithoutHits(asksFact) ==
    plan.route = "retrieval" /\ asksFact /\ Listed = {}

LacksGround(asksFact) == plan.route = "retrieval" /\ asksFact /\ ~Confident

\* Reviews are answered from chunks that look like reviews, or refused with
\* the profile alone; other questions from every chunk retrieved.
WeighEvidence ==
    /\ pc = "evidence"
    /\ \/ plan.route = "structured" /\ Step("generate") /\ UNCHANGED <<plan, loopVars>>
       \/ /\ plan.route # "structured"
          /\ \/ Listed # {} /\ Step("generate") /\ UNCHANGED <<plan, loopVars>>
             \/ /\ Ends("answered", [kind |-> "no_reviews", components |-> <<>>,
                                     sources |-> {}, results |-> {Profile}])
                /\ UNCHANGED <<calling, toolRows, invocations, results, loopVars>>
                /\ Settled
             \/ \E asksFact \in BOOLEAN :
                   IF LacksGround(asksFact)
                   THEN Answers("no_website_evidence")
                   ELSE /\ grounded' = asksFact /\ pc' = "generate"
                        /\ UNCHANGED <<calling, llm, topic, plan, wanted, years, toolRows,
                                       invocations, results, components, cancelled,
                                       outcome, reply, loopVars>>

\* _generate_answer: rules when there is anything to show; else the model,
\* which may fail or take its time.
ByRules == ~llm \/ components # <<>> \/ \E t \in {Kpis, Trend, Rent} : results[t] # 0
           \/ Listed # {}

Generate ==
    /\ pc = "generate" /\ InTime
    /\ \/ Step("generated") /\ UNCHANGED <<plan, loopVars>>
       \/ /\ ~ByRules
          /\ Raises("failed")
          /\ UNCHANGED <<calling, toolRows, invocations, loopVars>>

FinishAnswer ==
    /\ pc = "generated" /\ InTime
    /\ Ends("answered", [kind |-> "answer", components |-> components,
                         sources |-> IF plan.route = "structured" THEN {} ELSE Listed,
                         results |-> {t \in Tools : results[t] # 0}])
    /\ UNCHANGED <<calling, llm, topic, plan, wanted, years, grounded, toolRows,
                   invocations, results, components, cancelled, loopVars>>

-----------------------------------------------------------------------------
Cancel ==
    /\ ~cancelled /\ cancelled' = TRUE /\ pc # "done"
    /\ UNCHANGED <<pc, calling, llm, topic, plan, wanted, years, grounded, toolRows,
                   invocations, results, components, outcome, reply, loopVars>>

Deadline == pc # "done" /\ DeadlinePasses /\ UNCHANGED turnVars

CallStep ==
    \/ StartCall \/ CallFails \/ Interrupted
    \/ ProfileReturns \/ ScopeReturns \/ FollowupReturns \/ ActionReturns

TurnStep ==
    \/ CallStep \/ ChooseBranch \/ AskPlanner \/ PlannerAnswers \/ PlanByRules
    \/ AskBack \/ RequestSqlApproval \/ DraftSql \/ EnterLoop \/ Decide
    \/ CompleteUnavailable \/ Complete \/ ReuseResult \/ ReportInvestigation
    \/ WeighEvidence \/ Generate \/ FinishAnswer \/ TooLate

Environment == Cancel \/ Deadline

-----------------------------------------------------------------------------
Succeeds(i, tool) ==
    \E v \in Range(invocations) : v.id = i /\ v.tool = tool /\ v.status = "succeeded"

(***************************************************************************)
(* What an answer shows rests on what its tools returned: every chart on a  *)
(* successful call of its tool, every source on a search that found         *)
(* something, every tool result on a call of that tool; and, when retrieval *)
(* alone answers a question of fact, other than about reviews, the answer   *)
(* on a confident chunk.  (Hybrid answers and reviews owe none.)            *)
(***************************************************************************)
AnswersRestOnEvidence ==
    outcome = "answered" =>
        /\ \A k \in DOMAIN reply.components :
              LET c == reply.components[k]
              IN c.chart = "sql_approval" \/ Succeeds(c.from, c.chart)
        /\ \A i \in reply.sources : Succeeds(i, Search) /\ DataIn(i) # "empty"
        /\ \A t \in reply.results : Succeeds(results[t], t)
        /\ grounded /\ plan.route = "retrieval" => Confident

(***************************************************************************)
(* A plan for given years asks which periods are loaded before it calls any *)
(* other tool, and calls none when a year is missing, whatever the plan     *)
(* itself asks for.                                                         *)
(***************************************************************************)
YearsAreChecked ==
    years => \A v \in Range(invocations) :
                v.tool \in {Profile, Properties, Periods}
                \/ \E u \in Range(invocations) : u.tool = Periods /\ u.data = "covers"
=============================================================================

------------------------------ MODULE ToolPlan ------------------------------
(***************************************************************************)
(* The tool plans of app/services/llm_tool_planner.py: what a planner may   *)
(* propose for a message, and validate_tool_plan, which cleans every        *)
(* proposal before anything runs.  The text predicates of the planner are a *)
(* message's topic: the first predicate, in the planner's order, it meets.  *)
(***************************************************************************)
EXTENDS Naturals, Sequences, SequencesExt, SequenceIds

CONSTANTS
    StructuredTools,  \* STRUCTURED_TOOL_ALLOWLIST
    ForeignTool,      \* a name that is not in the allowlist
    MaxArgument,      \* largest limit (or months) a call may ask for
    MaxResults,       \* largest n_results of a query
    DefaultResults,   \* n_results of a query that names none
    MaxCallsProposed,   \* bound: calls of one proposal
    MaxQueriesProposed  \* bound: its queries

ASSUME ForeignIsForeign == ForeignTool \notin StructuredTools
ASSUME PlanBoundsArePositive ==
    /\ MaxArgument \in Nat \ {0} /\ MaxResults \in Nat \ {0}
    /\ DefaultResults \in 1 .. MaxResults
    /\ MaxCallsProposed \in Nat /\ MaxQueriesProposed \in Nat

\* The one argument of a call: none, one that int() refuses, or a number.
NoArgument == <<"none", 0>>
Junk == <<"junk", 0>>
Number(n) == <<"number", n>>

RouteType == {"structured", "retrieval", "hybrid", "unsupported",
              "clarification", "sql_approval"}

Call(name, arg) == [name |-> name, arg |-> arg]
Query(text, n) == [text |-> text, n |-> n]
Plan(route, tools, queries, sql) ==
    [route |-> route, tools |-> tools, queries |-> queries, sql |-> sql]

\* What a language model may write: any names, arguments and texts.  Its
\* sql_request is read for one route only.
ProposedCalls ==
    {Call("get_occupancy_trend", NoArgument),
     Call("get_occupancy_trend", Junk),
     Call("get_occupancy_trend", Number(MaxArgument + 1)),
     Call("get_report_periods", NoArgument),
     Call("get_report_periods", Number(1)),
     Call(ForeignTool, NoArgument)}
ProposedQueries ==
    {Query("", 0), Query("parking", 0), Query("parking", MaxResults + 1)}
Proposals ==
    [route : RouteType, sql : {FALSE},
     tools : BoundedSeq(ProposedCalls, MaxCallsProposed),
     queries : BoundedSeq(ProposedQueries, MaxQueriesProposed)]
    \cup {Plan("sql_approval", <<>>, <<>>, TRUE)}

-----------------------------------------------------------------------------
(* validate_tool_plan                                                      *)

Clamped(n, high) == IF n < 1 THEN 1 ELSE IF n > high THEN high ELSE n

\* The first occurrence of every member stays, in order.
WithoutRepeats(s) ==
    MembersAt(s, {i \in DOMAIN s : \A j \in 1 .. i - 1 : s[j] # s[i]})

CleanCall(c) ==
    CASE c.arg = Junk -> [c EXCEPT !.arg = NoArgument]
      [] c.arg = NoArgument -> c
      [] OTHER -> [c EXCEPT !.arg = Number(Clamped(@[2], MaxArgument))]

CleanTools(tools) ==
    LET known == MembersAt(tools, {i \in DOMAIN tools : tools[i].name \in StructuredTools})
    IN WithoutRepeats([i \in DOMAIN known |-> CleanCall(known[i])])

\* int(query.n_results or 5): zero counts as a missing number.
CleanQuery(q) ==
    [q EXCEPT !.n = Clamped(IF @ = 0 THEN DefaultResults ELSE @, MaxResults)]

CleanQueries(queries) ==
    LET written == MembersAt(queries, {i \in DOMAIN queries : queries[i].text # ""})
    IN WithoutRepeats([i \in DOMAIN written |-> CleanQuery(written[i])])

Clarification == Plan("clarification", <<>>, <<>>, FALSE)

\* A route that cannot be run becomes one that can, or asks back.  The route
\* of hybrid is settled by what is left of the two lists.
Routed(p) ==
    CASE p.route = "unsupported" -> Plan("unsupported", <<>>, <<>>, FALSE)
      [] p.route = "clarification" -> Clarification
      [] p.route = "sql_approval" ->
            IF p.sql THEN Plan("sql_approval", <<>>, <<>>, TRUE) ELSE Clarification
      [] p.route = "structured" /\ p.tools = <<>> ->
            [p EXCEPT !.route = "clarification"]
      [] p.route = "retrieval" /\ p.queries = <<>> ->
            [p EXCEPT !.route = "clarification"]
      [] p.route = "hybrid" /\ p.tools # <<>> /\ p.queries = <<>> ->
            [p EXCEPT !.route = "structured"]
      [] p.route = "hybrid" /\ p.tools = <<>> /\ p.queries # <<>> ->
            [p EXCEPT !.route = "retrieval"]
      [] p.route = "hybrid" /\ p.tools = <<>> /\ p.queries = <<>> ->
            [p EXCEPT !.route = "clarification"]
      [] OTHER -> p

Validated(p) ==
    Routed([p EXCEPT !.tools = CleanTools(@), !.queries = CleanQueries(@)])

-----------------------------------------------------------------------------
(* The planners.  A message's topic names the first predicate it meets;    *)
(* "other" meets none, and only a language model can say more about it.    *)

Topics == {"ambiguous", "unsafe", "unsupported_fact", "predefined",
           "custom_sql", "kpi_intent", "website", "other"}

\* _build_retrieval_query
RetrievalFor(message) == <<Query(message, DefaultResults)>>

\* _structured_tools_from_intent and _heuristic_structured_tools pick one
\* tool; with a retrieval intent the plan is hybrid.
PredefinedPlans ==
    LET one == {<<Call("get_latest_property_kpis", NoArgument)>>,
                <<Call("get_occupancy_trend", Number(MaxArgument))>>,
                <<Call("get_rent_by_unit_type", NoArgument)>>,
                <<Call("get_vacant_units", Number(MaxArgument))>>,
                <<Call("get_charge_breakdown", Number(MaxArgument))>>}
    IN {Plan("structured", ts, <<>>, FALSE) : ts \in one}
       \cup {Plan("hybrid", ts, RetrievalFor("parking"), FALSE) : ts \in one}

\* The checks both planners make before they look further.
EarlyPlans(topic) ==
    CASE topic = "ambiguous" -> {Clarification}
      [] topic \in {"unsafe", "unsupported_fact"} ->
            {Plan("unsupported", <<>>, <<>>, FALSE)}
      [] topic = "predefined" -> {Validated(p) : p \in PredefinedPlans}
      [] topic = "custom_sql" -> {Plan("sql_approval", <<>>, <<>>, TRUE)}
      [] OTHER -> {}

\* plan_with_llm: the plans one attempt may end with (or with none).
PlansWithLlm(topic) ==
    IF EarlyPlans(topic) # {} THEN EarlyPlans(topic)
    ELSE {Validated(p) : p \in Proposals}

DeterministicPlans(topic) ==
    CASE EarlyPlans(topic) # {} -> EarlyPlans(topic)
      [] topic = "kpi_intent" ->
            {Plan("structured", <<Call("get_latest_property_kpis", NoArgument)>>,
                  <<>>, FALSE)}
      [] topic = "website" ->
            {Plan("retrieval", <<>>, RetrievalFor("parking"), FALSE)}
      [] OTHER -> {Clarification}
=============================================================================

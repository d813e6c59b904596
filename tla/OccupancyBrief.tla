--------------------------- MODULE OccupancyBrief ---------------------------
(* An occupancy investigation and its executive brief                       *)
(* (app/agents/occupancy_investigation.py): each tool is chosen from what   *)
(* the one before returned, the brief computes its numbers from all of it   *)
(* and every number cites evidence, and the verifier recomputes what the    *)
(* brief claims.  Each tool call is a query of its own, so the tables may   *)
(* change between two of them.                                              *)
EXTENDS RentRollTables

CONSTANTS
    NoMonth,            \* a call that names no month
    ChunkCounts,        \* how many confident chunks a search may return
    MaxChunksCited

VARIABLES
    seen,               \* the observations: tool, month asked for, data
    asked,              \* the tool and month of the call under way
    brief               \* the report, and whether it passed the verifier

briefVars == <<seen, asked, brief>>

Trend == "get_occupancy_trend"
Vacant == "get_vacant_units"
Rent == "get_rent_by_unit_type"
Search == "search_property_content"

NoCall == [tool |-> "none", month |-> NoMonth]
Call(tool, month) == [tool |-> tool, month |-> month]
Pending == [status |-> "pending"]

BriefInit == seen = <<>> /\ asked = NoCall /\ brief = Pending

-----------------------------------------------------------------------------
(* analyze_occupancy_trend.                                                 *)

SortedByMonth(trend) ==
    LET NotAfter(i, j) == \/ trend[i].month < trend[j].month
                          \/ trend[i].month = trend[j].month /\ i <= j
        UpTo(j) == {i \in DOMAIN trend : NotAfter(i, j)}
    IN [k \in DOMAIN trend |->
            trend[CHOOSE j \in DOMAIN trend : Cardinality(UpTo(j)) = k]]

Usable(trend) ==
    LET sorted == SortedByMonth(trend)
    IN MembersAt(sorted,
                 {i \in DOMAIN sorted : sorted[i].percentage # NoPercentage})

\* The change of an amount, if both rows have it.
AmountChange(from, to, field) ==
    IF NoAmount \in {from.amounts[field], to.amounts[field]} THEN NoAmount
    ELSE to.amounts[field] - from.amounts[field]

Change(from, to) ==
    [from |-> from.month, to |-> to.month,
     change |-> to.percentage - from.percentage,
     amounts |-> [field \in AmountFields |-> AmountChange(from, to, field)]]

Changes(trend) ==
    LET usable == Usable(trend)
    IN [i \in 1 .. Len(usable) - 1 |-> Change(usable[i], usable[i + 1])]

\* min: the first of the lowest.
LargestDecline(trend) ==
    LET changes == Changes(trend)
        Lowest(i) == \A j \in DOMAIN changes : changes[i].change <= changes[j].change
    IN changes[CHOOSE i \in DOMAIN changes :
                  Lowest(i) /\ \A j \in 1 .. i - 1 : ~Lowest(j)]

HasDecline(trend) ==
    Changes(trend) # <<>> /\ LargestDecline(trend).change < 0

Overall(trend) == Change(Usable(trend)[1], Last(Usable(trend)))

-----------------------------------------------------------------------------
(* OccupancyInvestigationPolicy.decide over the rows themselves.            *)

DataOf(tool) ==
    LET i == CHOOSE i \in DOMAIN seen : seen[i].tool = tool
    IN seen[i].data

Observed(tool) == \E i \in DOMAIN seen : seen[i].tool = tool

Decided ==
    IF seen = <<>> THEN Call(Trend, NoMonth)
    ELSE LET last == Last(seen)
         IN CASE last.tool = Trend ->
                     IF HasDecline(last.data)
                     THEN Call(Vacant, LargestDecline(last.data).to) ELSE NoCall
              [] last.tool = Vacant ->
                     IF last.data # {}
                     THEN Call(Rent, LargestDecline(DataOf(Trend)).to)
                     ELSE Call(Search, NoMonth)
              [] last.tool = Rent -> Call(Search, NoMonth)
              [] OTHER -> NoCall

Investigating == brief = Pending

AskNext ==
    /\ Investigating /\ asked = NoCall /\ Decided # NoCall
    /\ asked' = Decided
    /\ UNCHANGED <<seen, brief>>

\* What the handler of the tool asked for may answer now.
Answers ==
    CASE asked.tool = Trend  -> OccupancyTrends
      [] asked.tool = Vacant -> {VacantUnits(asked.month)}
      [] asked.tool = Rent   -> {RentByUnitType(asked.month)}
      [] OTHER               -> ChunkCounts

Needed ==
    CASE asked.tool = Trend -> {"rent_roll_reports", "rent_roll_summary_groups"}
      [] asked.tool = Search -> {}
      [] OTHER -> {"rent_roll_reports", "rent_roll_units"}

ToolReturns ==
    /\ asked # NoCall /\ Needed \subseteq tables
    /\ \E data \in Answers :
          seen' = Append(seen, [tool |-> asked.tool, month |-> asked.month,
                                data |-> data])
    /\ asked' = NoCall
    /\ UNCHANGED brief

\* A dropped table, a time-out: the tool's failure ends the investigation.
ToolFails ==
    /\ asked # NoCall
    /\ asked' = NoCall /\ brief' = [status |-> "failed"]
    /\ UNCHANGED seen

-----------------------------------------------------------------------------
(* build_occupancy_investigation_report.                                    *)

Returned == FoldFunction(+, 0, [e \in DataOf(Vacant) |-> reports[e].vacant])

AmountChanges ==
    LET decline == LargestDecline(DataOf(Trend))
    IN {decline.amounts[field] : field \in AmountFields} \ {NoAmount}

\* A citation is named by its tool, a chunk's by its place.  Its evidence is,
\* of the numbers in the rows and in what was derived from them, those that a
\* finding may be about.
TrendEvidence ==
    LET usable == Usable(DataOf(Trend))
    IN {usable[i].percentage : i \in DOMAIN usable}
       \cup (IF usable = <<>> THEN {} ELSE {Overall(DataOf(Trend)).change})
       \cup {c.change : c \in ToSet(Changes(DataOf(Trend)))}
       \cup (IF HasDecline(DataOf(Trend)) THEN AmountChanges ELSE {})

EvidenceWithoutCount(tool) == IF tool = Trend THEN TrendEvidence ELSE {}

Evidence(tool) ==
    CASE tool = Trend  -> TrendEvidence
      [] tool = Vacant -> {Returned}
      [] OTHER         -> {}

Chunks ==
    IF Observed(Search)
    THEN 1 .. (IF DataOf(Search) < MaxChunksCited
               THEN DataOf(Search) ELSE MaxChunksCited)
    ELSE {}

Citations ==
    {[source |-> tool, chunk |-> 0, evidence |-> Evidence(tool)] :
        tool \in {t \in {Trend, Vacant, Rent} : Observed(t)}}
    \cup {[source |-> Search, chunk |-> c, evidence |-> Evidence(Search)] :
             c \in Chunks}

Finding(id, sources, metrics) ==
    [id |-> id, sources |-> sources, metrics |-> metrics]

Metric(value, source) == [value |-> value, source |-> source]

Movement(third) ==
    LET usable == Usable(DataOf(Trend))
    IN {Metric(usable[1].percentage, Trend), Metric(Last(usable).percentage, Trend),
        Metric(third, Trend)}

With(tool, finding) == IF Observed(tool) THEN {finding} ELSE {}

\* _decline_findings.  Rent and website findings appear only with evidence.
DeclineFindings ==
    {Finding("movement", {Trend}, Movement(LargestDecline(DataOf(Trend)).change)),
     Finding("financial", {Trend}, {Metric(a, Trend) : a \in AmountChanges})}
    \cup With(Vacant, Finding("vacancy", {Vacant} \cup With(Rent, Rent),
                              {Metric(Returned, Vacant)}))
    \cup (IF Chunks = {} THEN {} ELSE {Finding("context", {Search}, {})})

Findings ==
    IF Usable(DataOf(Trend)) = <<>> THEN {Finding("no history", {Trend}, {})}
    ELSE IF ~HasDecline(DataOf(Trend))
         THEN {Finding("no decline", {Trend}, Movement(Overall(DataOf(Trend)).change))}
         ELSE DeclineFindings

\* verify_occupancy_investigation_report.  Its checks of each citation by
\* itself - unique id, property, chunk id, invocation, source URL, hash - are
\* left out: they compare it with the evidence it was just made from, which
\* the retrieval stores return with its property and id.
Verified(findings, citations) ==
    \A f \in findings :
       /\ \A s \in f.sources : \E c \in citations : c.source = s
       /\ \A m \in f.metrics :
             \E c \in citations : c.source = m.source /\ m.value \in c.evidence

BuildBrief ==
    /\ Investigating /\ asked = NoCall /\ Decided = NoCall
    /\ brief' = [status |-> IF Verified(Findings, Citations)
                            THEN "verified" ELSE "rejected",
                 findings |-> Findings, citations |-> Citations]
    /\ UNCHANGED <<seen, asked>>

Investigate == AskNext \/ ToolReturns \/ ToolFails \/ BuildBrief

-----------------------------------------------------------------------------
\* However the tables change between its queries, a brief never contradicts
\* the evidence it cites: the verifier rejects none.
BriefsAreGrounded == brief.status # "rejected"

Months(trend) == {trend[i].month : i \in DOMAIN trend}

\* Row k of the trend is the next one with a percentage after row i.
Neighbours(trend, i, k) ==
    /\ i < k
    /\ trend[i].percentage # NoPercentage /\ trend[k].percentage # NoPercentage
    /\ \A j \in i + 1 .. k - 1 : trend[j].percentage = NoPercentage

\* A brief that reports no decline saw occupancy never fall, between any two
\* months, and asked for nothing else; in one that reports a decline, no two
\* neighbouring months fell further, and the units and rents it cites are of
\* the month that ended the fall.
BriefsStayOnTheDecline ==
    brief.status = "verified" =>
    LET trend == DataOf(Trend)
        fell == {p \in (DOMAIN trend) \X (DOMAIN trend) : Neighbours(trend, p[1], p[2])}
    IN \/ /\ \A f \in brief.findings : f.id \in {"no history", "no decline"}
          /\ Len(seen) = 1
          /\ \A i, k \in DOMAIN trend :
                i < k /\ NoPercentage \notin {trend[i].percentage, trend[k].percentage}
                    => trend[i].percentage <= trend[k].percentage
       \/ \E p \in fell :
             /\ \A q \in fell : trend[p[2]].percentage - trend[p[1]].percentage
                                 <= trend[q[2]].percentage - trend[q[1]].percentage
             /\ \A tool \in {Vacant, Rent} : Observed(tool) =>
                   \A e \in DataOf(tool) : MonthOf[e[1]] = trend[p[2]].month
=============================================================================

--------------------------- MODULE RentRollTables ---------------------------
(* The rent-roll tables of MySQL, the loader that fills them (generate_sql  *)
(* and run_mysql of scripts/load_rent_roll_mysql.py) and the queries that   *)
(* RentRollRepository reads them with.  The loader runs its statements one  *)
(* by one on one connection and commits at the end; MySQL, however, commits *)
(* every CREATE TABLE and DROP TABLE by itself.  One property.              *)
EXTENDS RentRollFile, SequencesExt

CONSTANTS
    Files,              \* the spreadsheets of the property
    MonthOf,            \* the report month each names
    PlaceOf,            \* its path's place among the sorted paths
    EarlierReports,     \* file -> report of an earlier load
    AmountsOf,          \* edition -> market rent and lease charges that its
                        \* summary rows give, NoAmount where blank
    NoAmount,
    TrendMonths         \* months the occupancy trend asks for

ASSUME FilesHaveMonths ==
    /\ IsFiniteSet(Files) /\ IsFiniteSet(DOMAIN EarlierReports)
    /\ MonthOf \in [Files \cup DOMAIN EarlierReports -> Int]
ASSUME EarlierReportsAreRead ==
    \A f \in DOMAIN EarlierReports :
        EarlierReports[f].percentages \in Seq(Percentages \cup {NoPercentage})
ASSUME FilesAreSorted == PlaceOf \in [Files -> Nat]
ASSUME TrendHasMonths == TrendMonths \in Nat \ {0}

VARIABLES
    tables,             \* the tables that exist
    stored,             \* table -> editions whose rows are committed in it
    reports,            \* what the rows of each edition say
    stage,              \* what the loader is doing
    script,             \* the statements it has still to execute
    pending             \* table -> editions whose rows await its commit

tableVars == <<tables, stored, reports, stage, script, pending>>

\* A file as the earlier load or as this one read it.
Earlier == (DOMAIN EarlierReports) \X {"earlier"}
Current == Files \X {"current"}

AmountFields == {"market_rent", "lease_charges"}

ASSUME AmountsAreGiven ==
    AmountsOf \in [Earlier \cup Current -> [AmountFields -> Int \cup {NoAmount}]]

\* In the order sql/schema.sql creates them and the loader fills them.
Created == <<"properties", "rent_roll_reports", "rent_roll_units",
             "lease_charges", "rent_roll_summary_groups",
             "rent_roll_charge_summary">>

Tables == ToSet(Created)

\* In the order --reset drops them.
Dropped == <<"lease_charges", "rent_roll_charge_summary",
             "rent_roll_summary_groups", "rent_roll_units",
             "rent_roll_reports", "properties">>

Nothing == [t \in Tables |-> {}]

\* No tables yet, or those an earlier load left: all of them, or the ones a
\* --reset had not dropped when it failed.
TablesInit ==
    /\ tables \in {{}} \cup {ToSet(SubSeq(Dropped, k, 6)) : k \in 1 .. 6}
    /\ stored = [t \in Tables |-> IF t \in tables THEN Earlier ELSE {}]
    /\ reports = [e \in Earlier |-> EarlierReports[e[1]]]
    /\ stage = "parsing" /\ script = <<>> /\ pending = Nothing

-----------------------------------------------------------------------------
(* The loader: parse_reports, then generate_sql, then run_mysql.            *)

ToParse == {f \in Files : <<f, "current">> \notin DOMAIN reports}

ParseRow ==
    /\ stage = "parsing" /\ ToParse # {}
    /\ ReadRow
    /\ UNCHANGED tableVars

\* A sheet is done; the files come in the order of their names, which need
\* not be that of their months.
ParseFile ==
    /\ stage = "parsing"
    /\ \E f \in ToParse :
          /\ \A g \in ToParse : PlaceOf[f] <= PlaceOf[g]
          /\ reports' = [e \in DOMAIN reports \cup {<<f, "current">>} |->
                             IF e = <<f, "current">> THEN Report(parse) ELSE reports[e]]
    /\ rows' = <<>> /\ parse' = Blank
    /\ UNCHANGED <<tables, stored, stage, script, pending>>

\* parse_rent_roll raises: no month in the header nor in the file's name.
NoMonthFound ==
    /\ stage = "parsing" /\ ToParse # {} /\ rows = <<>>
    /\ stage' = "failed"
    /\ UNCHANGED <<tables, stored, reports, script, pending, fileVars>>

Statements(kind, order) ==
    [i \in DOMAIN order |-> [kind |-> kind, table |-> order[i]]]

GenerateSql ==
    /\ stage = "parsing" /\ ToParse = {}
    /\ \E reset \in BOOLEAN :
          script' = (IF reset THEN Statements("drop", Dropped) ELSE <<>>)
                    \o Statements("create", Created)
                    \o Statements("insert", Created)
    /\ stage' = "loading"
    /\ UNCHANGED <<tables, stored, reports, pending, fileVars>>

Execute(kind) ==
    /\ stage = "loading" /\ script # <<>> /\ Head(script).kind = kind
    /\ script' = Tail(script)
    /\ UNCHANGED <<reports, stage, fileVars>>

\* Committed at once; no insert precedes it in the script.
Drop ==
    /\ Execute("drop")
    /\ tables' = tables \ {Head(script).table}
    /\ stored' = [stored EXCEPT ![Head(script).table] = {}]
    /\ UNCHANGED pending

\* CREATE TABLE IF NOT EXISTS.
Create ==
    /\ Execute("create")
    /\ tables' = tables \cup {Head(script).table}
    /\ UNCHANGED <<stored, pending>>

\* properties is keyed by the property, rent_roll_reports by the file's path:
\* a second load without --reset is refused.
Duplicate(t) ==
    \/ t = "properties" /\ stored[t] # {}
    \/ t = "rent_roll_reports" /\ \E e \in stored[t] : e[1] \in Files

Insert ==
    /\ Execute("insert") /\ ~Duplicate(Head(script).table)
    /\ pending' = [pending EXCEPT ![Head(script).table] = Current]
    /\ UNCHANGED <<tables, stored>>

CommitPending ==
    /\ stored' = [t \in Tables |-> stored[t] \cup pending[t]]
    /\ pending' = Nothing
    /\ UNCHANGED <<tables, reports, fileVars>>

Commit ==
    /\ stage = "loading" /\ script = <<>>
    /\ CommitPending /\ stage' = "loaded" /\ UNCHANGED script

AbortKeepingRows ==
    /\ stage = "loading"
    /\ CommitPending /\ stage' = "failed" /\ script' = <<>>

\* A statement fails (a duplicate key always does), the connection is lost or
\* the script is killed: rollback undoes the inserts, not the drops.
Abort ==
    /\ stage = "loading"
    /\ pending' = Nothing /\ stage' = "failed" /\ script' = <<>>
    /\ UNCHANGED <<tables, stored, reports, fileVars>>

Parse == ParseRow \/ ParseFile \/ NoMonthFound

Load == GenerateSql \/ Drop \/ Create \/ Insert \/ Commit \/ Abort

-----------------------------------------------------------------------------
(* The queries, each one statement that sees what is committed.             *)

Joined(t) == stored["rent_roll_reports"] \cap stored[t]

\* What get_occupancy_trend orders: a row for each summary row of the current
\* residents, so several for one month if its sheet has several.
OccupancyRows ==
    UNION {{[month |-> MonthOf[e[1]], percentage |-> reports[e].percentages[i],
             amounts |-> AmountsOf[e], row |-> <<e, i>>] : i \in DOMAIN reports[e].percentages} :
               e \in Joined("rent_roll_summary_groups")}

ByMonth(s) == \A i, j \in DOMAIN s : i < j => s[i].month <= s[j].month

\* Its answers: the newest rows, oldest first, rows of a month in any order.
OccupancyTrends ==
    {SubSeq(s, IF Len(s) > TrendMonths THEN Len(s) - TrendMonths + 1 ELSE 1,
            Len(s)) : s \in {s \in SetToSeqs(OccupancyRows) : ByMonth(s)}}

VacantUnitsOfAnyMonth(month) ==
    {e \in Joined("rent_roll_units") : reports[e].vacant > 0}

\* The editions whose units get_vacant_units returns.
VacantUnits(month) ==
    {e \in Joined("rent_roll_units") :
        MonthOf[e[1]] = month /\ reports[e].vacant > 0}

\* The editions whose units get_rent_by_unit_type groups.
RentByUnitType(month) ==
    {e \in Joined("rent_roll_units") :
        MonthOf[e[1]] = month /\ reports[e].units > 0}

-----------------------------------------------------------------------------
\* Whatever statement the loader has reached, fails at or is killed in, a
\* reader finds all of this load's rows in every table or in none.
LoadsAreWhole ==
    \A t, u \in tables : stored[t] \cap Current = stored[u] \cap Current
=============================================================================

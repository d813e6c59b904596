---------------------------- MODULE RentRollFile ----------------------------
(* parse_rent_roll of scripts/load_rent_roll_mysql.py: one pass over the    *)
(* rows of a spreadsheet, which finds the units, the charges written below  *)
(* each, and the summary the occupancy comes from.  What a row means        *)
(* depends on the rows before it.  Cells are reduced to what the parser     *)
(* tells apart; row numbers count from the first row below the header.      *)
EXTENDS Integers, SequenceIds

CONSTANTS
    Percentages,        \* the occupancies a summary row may state
    NoPercentage,       \* an empty or unreadable percentage cell
    MaxRows             \* bound: rows of a sheet

ASSUME PercentagesAreNumbers ==
    Percentages \subseteq Int /\ NoPercentage \notin Percentages

VARIABLES
    rows,               \* the rows read of the sheet being parsed
    parse               \* what parse_rent_roll holds after them

fileVars == <<rows, parse>>

\* Rows by column A: empty, the name of a section, a heading, "Totals:" or
\* another text (with column B set, a unit).  code is the charge in column G.
Row(a, code, vacant, percentage) ==
    [a |-> a, code |-> code, vacant |-> vacant, percentage |-> percentage]

Rows ==
    {Row("section", "none", FALSE, p) : p \in Percentages \cup {NoPercentage}}
    \cup {Row("unit", "charge", vacant, NoPercentage) : vacant \in BOOLEAN}
    \cup {Row("none", code, FALSE, NoPercentage) : code \in {"charge", "total"}}
    \cup {Row(a, "none", FALSE, NoPercentage) :
              a \in {"summary groups", "summary of charges", "totals"}}

Blank == [mode |-> "detail", group |-> "none", unit |-> 0,
          units |-> <<>>, groups |-> <<>>, charges |-> <<>>]

FileInit == rows = <<>> /\ parse = Blank

\* add_charge_if_present, on unit u.
Charged(units, u, row, i) ==
    IF row.code # "charge" THEN units
    ELSE [units EXCEPT ![u].charges = @ \cup {i}]

AddUnit(p, row, i) ==
    LET unit == [row |-> i, group |-> p.group, vacant |-> row.vacant,
                 charges |-> {}]
        u == Len(p.units) + 1
    IN [p EXCEPT !.unit = u, !.units = Charged(Append(@, unit), u, row, i)]

NewSectionKeepingUnit(p, row) == [p EXCEPT !.group = row.a]

\* A section ends the unit before it: a charge below belongs to nobody.
NewSection(p, row) == [p EXCEPT !.group = row.a, !.unit = 0]

Detail(p, row, i) ==
    CASE row.a = "section" -> NewSection(p, row)
      [] row.a = "unit"    -> AddUnit(p, row, i)
      [] OTHER -> IF p.unit = 0 THEN p
                  ELSE [p EXCEPT !.units = Charged(@, p.unit, row, i)]

\* In the summary a section's name is a group with its own percentage.
SummaryRow(p, row) ==
    IF row.a = "none" THEN p
    ELSE [p EXCEPT !.groups =
              Append(@, [name |-> row.a, percentage |-> row.percentage])]

ChargeSummary(p, row, i) ==
    IF row.a = "none" THEN p ELSE [p EXCEPT !.charges = Append(@, i)]

\* One turn of the loop of parse_rent_roll.
NextRow(p, row, i) ==
    CASE row.a = "summary groups" -> [p EXCEPT !.mode = "summary", !.unit = 0]
      [] row.a = "summary of charges" ->
             [p EXCEPT !.mode = "charge_summary", !.unit = 0]
      [] OTHER -> CASE p.mode = "detail"  -> Detail(p, row, i)
                    [] p.mode = "summary" -> SummaryRow(p, row)
                    [] OTHER              -> ChargeSummary(p, row, i)

ReadRow ==
    /\ Len(rows) < MaxRows
    /\ \E row \in Rows :
          /\ rows' = Append(rows, row)
          /\ parse' = NextRow(parse, row, Len(rows) + 1)

(* The RentRollReport, as far as the tables' readers can tell it apart.     *)
IsOccupancy(group) == group.name = "section"

Report(p) ==
    LET current == MembersAt(p.groups,
                             {i \in DOMAIN p.groups : IsOccupancy(p.groups[i])})
    IN [percentages |-> [i \in DOMAIN current |-> current[i].percentage],
        units |-> Len(p.units),
        vacant |-> Cardinality({u \in DOMAIN p.units : p.units[u].vacant})]

-----------------------------------------------------------------------------
\* Row i ends whatever unit was open before it.
Closes(i) == rows[i].a \in {"section", "unit", "summary groups",
                            "summary of charges"}

InDetail(i) ==
    \A j \in 1 .. i : rows[j].a \notin {"summary groups", "summary of charges"}

\* The meaning of the page, said without reading order: a unit is a unit row
\* above both summaries, and a charge belongs to the nearest unit above it
\* that no section or heading separates from it.  No charge is counted twice,
\* moved to another unit, or carried into another section.
ChargesFollowTheirUnit ==
    /\ {parse.units[u].row : u \in DOMAIN parse.units} =
           {i \in DOMAIN rows : rows[i].a = "unit" /\ InDetail(i)}
    /\ \A u \in DOMAIN parse.units :
          LET r == parse.units[u].row
          IN parse.units[u].charges =
                 {i \in r .. Len(rows) :
                     /\ rows[i].code = "charge"
                     /\ \A j \in r + 1 .. i : ~Closes(j)}
=============================================================================

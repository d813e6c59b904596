--------------------------- MODULE RentRoll_proof ---------------------------
(***************************************************************************)
(* A load of the rent roll is seen whole or not at all, and a sheet's       *)
(* charges follow its units: LoadsAreWhole and ChargesFollowTheirUnit hold  *)
(* of every reachable state, for any files, sheets of any length and        *)
(* earlier loads.                                                           *)
(***************************************************************************)
EXTENDS RentRoll, SequenceIds_proof, SequenceTheorems

Statement == [kind : {"drop", "create", "insert"}, table : Tables]
InsertInto(t) == [kind |-> "insert", table |-> t]

LoaderTypeOK ==
    /\ stage \in {"parsing", "loading", "loaded", "failed"}
    /\ stored \in [Tables -> SUBSET (Earlier \cup Current)]
    /\ pending \in [Tables -> SUBSET Current]
    /\ script \in Seq(Statement)
    /\ tables \subseteq Tables

\* Before the commit no table shows a row of this load, after it each shows
\* them all.
CommitIsTheOnlyWay ==
    \A t \in Tables :
        stored[t] \cap Current = IF stage = "loaded" THEN Current ELSE {}

\* What is not yet inserted is still to be: nothing else is missing when the
\* script ends.
NothingIsSkipped ==
    stage = "loading" =>
        \A t \in Tables : \/ pending[t] = Current
                          \/ \E i \in DOMAIN script : script[i] = InsertInto(t)

WholeInv == LoaderTypeOK /\ CommitIsTheOnlyWay /\ NothingIsSkipped

-----------------------------------------------------------------------------
\* The statements of a kind are as many as their tables, in their order.
LEMMA StatementsType ==
    ASSUME NEW kind \in {"drop", "create", "insert"}, NEW order \in Seq(Tables)
    PROVE  /\ Statements(kind, order) \in Seq(Statement)
           /\ Len(Statements(kind, order)) = Len(order)
           /\ \A i \in 1 .. Len(order) :
                  Statements(kind, order)[i] = [kind |-> kind, table |-> order[i]]
<1> DEFINE s == Statements(kind, order)
           n == Len(order)
<1>1. n \in Nat /\ DOMAIN order = 1 .. n /\ \A i \in 1 .. n : order[i] \in Tables
  OBVIOUS
<1>2. s = [i \in 1 .. n |-> [kind |-> kind, table |-> order[i]]]
  BY <1>1 DEF Statements
<1>3. s \in [1 .. n -> Statement]
  BY <1>1, <1>2 DEF Statement
<1> HIDE DEF s, n
<1>4. s \in Seq(Statement) /\ Len(s) = n
  BY <1>1, <1>3
<1> QED
  BY <1>2, <1>4 DEF s, n

\* What ends a sequence is in it.
LEMMA EndOfConcatenation ==
    ASSUME NEW S, NEW s \in Seq(S), NEW t \in Seq(S), NEW j \in 1 .. Len(t)
    PROVE  /\ s \o t \in Seq(S)
           /\ Len(s) + j \in DOMAIN (s \o t)
           /\ (s \o t)[Len(s) + j] = t[j]
  OBVIOUS

\* The orders of the drops and of the creations name tables only.
LEMMA OrdersAreOfTables ==
    /\ Created \in Seq(Tables) /\ Dropped \in Seq(Tables)
    /\ \A t \in Tables : \E j \in 1 .. Len(Created) : Created[j] = t
  BY DEF Created, Dropped, Tables, ToSet

\* An edition read by an earlier load is none of this one.
LEMMA EarlierIsNotCurrent == Earlier \cap Current = {}
  BY DEF Earlier, Current

LEMMA WholeInit == Init => WholeInv
<1> SUFFICES ASSUME Init PROVE WholeInv
  OBVIOUS
<1> USE DEF Init, TablesInit
<1>1. stored \in [Tables -> SUBSET Earlier]
  OBVIOUS
<1>2. pending \in [Tables -> SUBSET Current] /\ script \in Seq(Statement)
  BY DEF Nothing
<1>3. tables \subseteq Tables
  <2>1. \A k \in 1 .. 6 : ToSet(SubSeq(Dropped, k, 6)) \subseteq ToSet(Dropped)
    BY DEF ToSet, Dropped
  <2>2. ToSet(Dropped) \subseteq Tables
    BY OrdersAreOfTables DEF ToSet
  <2> QED
    BY <2>1, <2>2
<1>4. LoaderTypeOK
  BY <1>1, <1>2, <1>3 DEF LoaderTypeOK
<1>5. CommitIsTheOnlyWay
  BY <1>1, EarlierIsNotCurrent DEF CommitIsTheOnlyWay
<1> QED
  BY <1>4, <1>5 DEF WholeInv, NothingIsSkipped

\* The script a load starts with inserts into every table.
LEMMA GenerateSqlStep == WholeInv /\ GenerateSql => WholeInv'
<1> SUFFICES ASSUME WholeInv, GenerateSql PROVE WholeInv'
  OBVIOUS
<1> PICK reset \in BOOLEAN :
       script' = (IF reset THEN Statements("drop", Dropped) ELSE <<>>)
                 \o Statements("create", Created)
                 \o Statements("insert", Created)
  BY DEF GenerateSql
<1> DEFINE first == (IF reset THEN Statements("drop", Dropped) ELSE <<>>)
                    \o Statements("create", Created)
<1>1. first \in Seq(Statement) /\ script' = first \o Statements("insert", Created)
  <2>1. (IF reset THEN Statements("drop", Dropped) ELSE <<>>) \in Seq(Statement)
    BY StatementsType, OrdersAreOfTables
  <2>2. Statements("create", Created) \in Seq(Statement)
    BY StatementsType, OrdersAreOfTables
  <2> QED
    BY <2>1, <2>2
<1>2. /\ Statements("insert", Created) \in Seq(Statement)
      /\ Len(Statements("insert", Created)) = Len(Created)
      /\ \A j \in 1 .. Len(Created) :
             Statements("insert", Created)[j] = InsertInto(Created[j])
  BY StatementsType, OrdersAreOfTables DEF InsertInto
<1> HIDE DEF first
<1>3. script' \in Seq(Statement)
  <2> DEFINE second == Statements("insert", Created)
  <2>1. second \in Seq(Statement)
    BY <1>2
  <2> HIDE DEF second
  <2>2. first \o second \in Seq(Statement)
    BY <1>1, <2>1
  <2> QED
    BY <1>1, <2>2 DEF second
<1>4. ASSUME NEW t \in Tables
      PROVE  \E i \in DOMAIN script' : script'[i] = InsertInto(t)
  <2>1. PICK j \in 1 .. Len(Created) : Created[j] = t
    BY OrdersAreOfTables
  <2>2. /\ Len(first) + j \in DOMAIN (first \o Statements("insert", Created))
        /\ (first \o Statements("insert", Created))[Len(first) + j]
               = Statements("insert", Created)[j]
    BY <1>1, <1>2, EndOfConcatenation
  <2> QED
    BY <1>1, <1>2, <2>1, <2>2
<1> QED
  BY <1>3, <1>4 DEF WholeInv, LoaderTypeOK, CommitIsTheOnlyWay, NothingIsSkipped,
                    GenerateSql

\* What is left of a script is typed, and holds each insert but the first.
LEMMA TailOfScript ==
    ASSUME LoaderTypeOK, script # <<>>, script' = Tail(script)
    PROVE  /\ script' \in Seq(Statement)
           /\ Head(script) \in Statement
           /\ \A t \in Tables :
                 (\E i \in DOMAIN script : script[i] = InsertInto(t))
                 /\ Head(script) # InsertInto(t)
                     => \E i \in DOMAIN script' : script'[i] = InsertInto(t)
<1>1. script' \in Seq(Statement) /\ Head(script) \in Statement
  BY DEF LoaderTypeOK
<1>2. ASSUME NEW t \in Tables, NEW i \in DOMAIN script,
             script[i] = InsertInto(t), Head(script) # InsertInto(t)
      PROVE  i - 1 \in DOMAIN script' /\ script'[i - 1] = InsertInto(t)
  <2>1. i \in 1 .. Len(script) /\ i # 1
    BY <1>2 DEF LoaderTypeOK
  <2> QED
    BY <1>2, <2>1 DEF LoaderTypeOK
<1> QED
  BY <1>1, <1>2

LEMMA DropStep == WholeInv /\ Drop => WholeInv'
<1> SUFFICES ASSUME WholeInv, Drop PROVE WholeInv'
  OBVIOUS
<1> USE DEF WholeInv, Drop, Execute
<1>1. /\ script' \in Seq(Statement) /\ Head(script) \in Statement
      /\ \A t \in Tables : Head(script) # InsertInto(t)
  BY TailOfScript DEF InsertInto
<1>2. LoaderTypeOK'
  BY <1>1 DEF LoaderTypeOK, Statement
<1>3. CommitIsTheOnlyWay'
  BY <1>1 DEF LoaderTypeOK, CommitIsTheOnlyWay, Statement
<1>4. NothingIsSkipped'
  BY <1>1, TailOfScript DEF NothingIsSkipped
<1> QED
  BY <1>2, <1>3, <1>4

LEMMA CreateStep == WholeInv /\ Create => WholeInv'
<1> SUFFICES ASSUME WholeInv, Create PROVE WholeInv'
  OBVIOUS
<1> USE DEF WholeInv, Create, Execute
<1>1. /\ script' \in Seq(Statement) /\ Head(script) \in Statement
      /\ \A t \in Tables : Head(script) # InsertInto(t)
  BY TailOfScript DEF InsertInto
<1>2. LoaderTypeOK' /\ CommitIsTheOnlyWay'
  BY <1>1 DEF LoaderTypeOK, CommitIsTheOnlyWay, Statement
<1>3. NothingIsSkipped'
  BY <1>1, TailOfScript DEF NothingIsSkipped
<1> QED
  BY <1>2, <1>3

LEMMA InsertStep == WholeInv /\ Insert => WholeInv'
<1> SUFFICES ASSUME WholeInv, Insert PROVE WholeInv'
  OBVIOUS
<1> USE DEF WholeInv, Insert, Execute
<1>1. /\ script' \in Seq(Statement) /\ Head(script) \in Statement
      /\ Head(script) = InsertInto(Head(script).table)
  BY TailOfScript DEF InsertInto, Statement
<1>2. LoaderTypeOK' /\ CommitIsTheOnlyWay'
  BY <1>1 DEF LoaderTypeOK, CommitIsTheOnlyWay, Statement
<1>3. ASSUME NEW t \in Tables, stage' = "loading"
      PROVE  \/ pending'[t] = Current
             \/ \E i \in DOMAIN script' : script'[i] = InsertInto(t)
  <2>1. CASE Head(script).table = t
    BY <2>1 DEF LoaderTypeOK
  <2>2. CASE Head(script).table # t
    <3>1. Head(script) # InsertInto(t) /\ pending'[t] = pending[t]
      BY <2>2 DEF InsertInto, LoaderTypeOK
    <3> QED
      BY <1>3, <3>1, TailOfScript DEF NothingIsSkipped
  <2> QED
    BY <2>1, <2>2
<1> QED
  BY <1>2, <1>3 DEF NothingIsSkipped

\* The script has ended, so every insert is pending.
LEMMA CommitStep == WholeInv /\ Commit => WholeInv'
<1> SUFFICES ASSUME WholeInv, Commit PROVE WholeInv'
  OBVIOUS
<1> USE DEF WholeInv, Commit, CommitPending
<1>1. \A t \in Tables : pending[t] = Current
  BY DEF NothingIsSkipped
<1>2. LoaderTypeOK'
  BY DEF LoaderTypeOK, Nothing
<1>3. CommitIsTheOnlyWay'
  BY <1>1 DEF CommitIsTheOnlyWay, LoaderTypeOK
<1> QED
  BY <1>2, <1>3 DEF NothingIsSkipped

LEMMA AbortStep == WholeInv /\ Abort => WholeInv'
<1> SUFFICES ASSUME WholeInv, Abort PROVE WholeInv'
  OBVIOUS
<1> QED
  BY DEF WholeInv, Abort, LoaderTypeOK, CommitIsTheOnlyWay, NothingIsSkipped, Nothing

\* Parsing and reading touch no table.
LEMMA QuietStep ==
    ASSUME WholeInv, UNCHANGED <<tables, stored, script, pending>>,
           \/ UNCHANGED stage
           \/ stage = "parsing" /\ stage' = "failed"
    PROVE  WholeInv'
  BY DEF WholeInv, LoaderTypeOK, CommitIsTheOnlyWay, NothingIsSkipped

LEMMA WholeStep == WholeInv /\ [Next]_vars => WholeInv'
<1> SUFFICES ASSUME WholeInv, [Next]_vars PROVE WholeInv'
  OBVIOUS
<1>1. CASE Parse
  <2>1. CASE ParseRow
    BY <2>1, QuietStep DEF ParseRow, tableVars
  <2>2. CASE ParseFile
    BY <2>2, QuietStep DEF ParseFile
  <2>3. CASE NoMonthFound
    BY <2>3, QuietStep DEF NoMonthFound
  <2> QED
    BY <1>1, <2>1, <2>2, <2>3 DEF Parse
<1>2. CASE Load
  BY <1>2, GenerateSqlStep, DropStep, CreateStep, InsertStep, CommitStep, AbortStep
     DEF Load
<1>3. CASE UNCHANGED tableVars
  BY <1>3, QuietStep DEF tableVars
<1> QED
  BY <1>1, <1>2, <1>3 DEF Next, Loader, Reader, vars

\* Whatever statement the loader has reached, fails at or is killed in, a
\* reader finds all rows of the load in every table or in none.
THEOREM LoadsSeenWhole == Spec => []LoadsAreWhole
<1>1. WholeInv => LoadsAreWhole
  BY DEF WholeInv, LoaderTypeOK, CommitIsTheOnlyWay, LoadsAreWhole
<1> QED
  BY <1>1, WholeInit, WholeStep, PTL DEF Spec

-----------------------------------------------------------------------------
(* Parsing a sheet: the parser's one open unit is what the page means by    *)
(* the nearest unit above.                                                  *)

Texts == {"none", "section", "unit", "summary groups", "summary of charges",
          "totals"}
Headings == {"summary groups", "summary of charges"}

Unit == [row : Nat, group : Texts, vacant : BOOLEAN, charges : SUBSET Nat]

Parsed ==
    [mode : {"detail", "summary", "charge_summary"}, group : Texts, unit : Nat,
     units : Seq(Unit), charges : Seq(Nat),
     groups : Seq([name : Texts, percentage : Percentages \cup {NoPercentage}])]

FileTypes == rows \in Seq(Rows) /\ parse \in Parsed

\* No section, unit or heading follows row r.
StaysOpen(r) == \A j \in r + 1 .. Len(rows) : ~Closes(j)

ChargesBelow(r) ==
    {i \in r .. Len(rows) :
        rows[i].code = "charge" /\ \A j \in r + 1 .. i : ~Closes(j)}

\* The parser's mode says whether a heading was read, and its open unit is the
\* one, if any, that nothing has closed.
ModeIsPlace == parse.mode = "detail" <=> InDetail(Len(rows))

OpenUnitIsNearest ==
    /\ parse.mode # "detail" => parse.unit = 0
    /\ \A u \in DOMAIN parse.units :
           /\ parse.units[u].row \in 1 .. Len(rows)
           /\ u = parse.unit <=> StaysOpen(parse.units[u].row)
    /\ parse.unit \in 0 .. Len(parse.units)

UnitsAreUnitRows ==
    {parse.units[u].row : u \in DOMAIN parse.units} =
        {i \in DOMAIN rows : rows[i].a = "unit" /\ InDetail(i)}

ChargesAreBelow ==
    \A u \in DOMAIN parse.units :
        parse.units[u].charges = ChargesBelow(parse.units[u].row)

FileInv == FileTypes /\ ModeIsPlace /\ OpenUnitIsNearest /\ UnitsAreUnitRows
           /\ ChargesAreBelow

\* What the cells of a row can be.
LEMMA RowCells ==
    ASSUME NEW row \in Rows
    PROVE  /\ row.a \in Texts
           /\ row.vacant \in BOOLEAN
           /\ row.percentage \in Percentages \cup {NoPercentage}
           /\ row.a = "unit" => row.code = "charge"
           /\ row.a \in {"section"} \cup Headings => row.code = "none"
<1> USE DEF Row, Texts, Headings
<1>1. CASE \E p \in Percentages \cup {NoPercentage} :
              row = Row("section", "none", FALSE, p)
  BY <1>1
<1>2. CASE \E vacant \in BOOLEAN :
              row = Row("unit", "charge", vacant, NoPercentage)
  BY <1>2
<1>3. CASE \E code \in {"charge", "total"} :
              row = Row("none", code, FALSE, NoPercentage)
  BY <1>3
<1>4. CASE \E a \in {"summary groups", "summary of charges", "totals"} :
              row = Row(a, "none", FALSE, NoPercentage)
  <2> PICK a \in {"summary groups", "summary of charges", "totals"} :
             row = Row(a, "none", FALSE, NoPercentage)
    BY <1>4
  <2>1. row.a = a /\ row.code = "none" /\ row.vacant = FALSE
        /\ row.percentage = NoPercentage
    OBVIOUS
  <2> QED BY <2>1
<1> QED BY <1>1, <1>2, <1>3, <1>4 DEF Rows

\* What row n + 1 changes in the reading of the n above it.
LEMMA OneMoreRow ==
    ASSUME rows \in Seq(Rows), NEW row \in Rows, rows' = Append(rows, row),
           NEW n \in Nat, n = Len(rows)
    PROVE  /\ Len(rows') = n + 1 /\ rows'[n + 1] = row
           /\ \A i \in 1 .. n : rows'[i] = rows[i] /\ (Closes(i)' <=> Closes(i))
           /\ \A i \in 0 .. n : (InDetail(i)' <=> InDetail(i))
           /\ Closes(n + 1)' <=> (row.a \in {"section", "unit"} \cup Headings)
           /\ InDetail(n + 1)' <=> (InDetail(n) /\ row.a \notin Headings)
<1>1. /\ Len(rows') = n + 1 /\ rows'[n + 1] = row
      /\ \A i \in 1 .. n : rows'[i] = rows[i]
  OBVIOUS
<1>2. \A i \in 1 .. n : (Closes(i)' <=> Closes(i))
  BY <1>1 DEF Closes
<1>3. ASSUME NEW i \in 0 .. n PROVE InDetail(i)' <=> InDetail(i)
  <2>1. \A j \in 1 .. i : rows'[j] = rows[j]
    BY <1>1
  <2> QED BY <2>1 DEF InDetail
<1>4. Closes(n + 1)' <=> (row.a \in {"section", "unit"} \cup Headings)
  BY <1>1 DEF Closes, Headings
<1>5. InDetail(n + 1)' <=> (InDetail(n) /\ row.a \notin Headings)
  <2>1. 1 .. n + 1 = (1 .. n) \cup {n + 1}
    OBVIOUS
  <2> QED BY <1>1, <2>1 DEF InDetail, Headings
<1> QED BY <1>1, <1>2, <1>3, <1>4, <1>5

LEMMA OneMoreCharge ==
    ASSUME rows \in Seq(Rows), NEW row \in Rows, rows' = Append(rows, row),
           NEW n \in Nat, n = Len(rows), NEW r \in 1 .. n
    PROVE  /\ StaysOpen(r)' <=> StaysOpen(r) /\ ~Closes(n + 1)'
           /\ ChargesBelow(r)' =
                  IF StaysOpen(r)' /\ row.code = "charge"
                  THEN ChargesBelow(r) \cup {n + 1} ELSE ChargesBelow(r)
<1>1. /\ Len(rows') = n + 1 /\ rows'[n + 1] = row
      /\ \A i \in 1 .. n : rows'[i] = rows[i] /\ (Closes(i)' <=> Closes(i))
  BY OneMoreRow
<1>2. StaysOpen(r)' <=> \A j \in r + 1 .. n + 1 : ~Closes(j)'
  BY <1>1 DEF StaysOpen
<1>3. StaysOpen(r) <=> \A j \in r + 1 .. n : ~Closes(j)
  BY DEF StaysOpen
<1>4. r + 1 .. n + 1 = (r + 1 .. n) \cup {n + 1}
  OBVIOUS
<1>5. StaysOpen(r)' <=> StaysOpen(r) /\ ~Closes(n + 1)'
  BY <1>1, <1>2, <1>3, <1>4
<1>6. ASSUME NEW i \in r .. n
      PROVE  i \in ChargesBelow(r)' <=> i \in ChargesBelow(r)
  <2>1. i \in 1 .. n /\ i \in r .. n + 1
    OBVIOUS
  <2>2. rows'[i].code = rows[i].code
    BY <1>1, <2>1
  <2>3. \A j \in r + 1 .. i : (Closes(j)' <=> Closes(j))
    BY <1>1
  <2> QED BY <1>1, <2>1, <2>2, <2>3 DEF ChargesBelow
<1>7. n + 1 \in ChargesBelow(r)' <=> StaysOpen(r)' /\ row.code = "charge"
  <2>1. n + 1 \in r .. n + 1
    OBVIOUS
  <2> QED BY <1>1, <2>1 DEF ChargesBelow, StaysOpen
<1>8. ChargesBelow(r)' \subseteq r .. n + 1 /\ ChargesBelow(r) \subseteq r .. n
  BY <1>1 DEF ChargesBelow
<1>9. r .. n + 1 = (r .. n) \cup {n + 1} /\ n + 1 \notin r .. n
  OBVIOUS
<1>10. ChargesBelow(r)' =
           IF StaysOpen(r)' /\ row.code = "charge"
           THEN ChargesBelow(r) \cup {n + 1} ELSE ChargesBelow(r)
  <2>1. \A i : i \in ChargesBelow(r)' <=>
                \/ i \in ChargesBelow(r)
                \/ i = n + 1 /\ StaysOpen(r)' /\ row.code = "charge"
    BY <1>6, <1>7, <1>8, <1>9
  <2>2. CASE StaysOpen(r)' /\ row.code = "charge"
    <3>1. ChargesBelow(r)' = ChargesBelow(r) \cup {n + 1}
      BY <2>1, <2>2
    <3> QED BY <2>2, <3>1
  <2>3. CASE ~(StaysOpen(r)' /\ row.code = "charge")
    <3>1. ChargesBelow(r)' = ChargesBelow(r)
      BY <2>1, <2>3
    <3> QED BY <2>3, <3>1
  <2> QED BY <2>2, <2>3
<1> QED BY <1>5, <1>10

-----------------------------------------------------------------------------
(* One turn of the parser's loop.                                           *)

\* What it does to the units found so far, and where it leaves the reader.
Reading(row, n) ==
    \/ /\ row.a \in Headings
       /\ parse'.mode # "detail" /\ parse'.unit = 0
       /\ parse'.units = parse.units
    \/ /\ parse.mode = "detail" /\ row.a = "section"
       /\ parse'.mode = "detail" /\ parse'.unit = 0
       /\ parse'.units = parse.units
    \/ /\ parse.mode = "detail" /\ row.a = "unit"
       /\ parse'.mode = "detail" /\ parse'.unit = Len(parse.units) + 1
       /\ Len(parse'.units) = parse'.unit
       /\ \A u \in DOMAIN parse.units : parse'.units[u] = parse.units[u]
       /\ parse'.units[parse'.unit].row = n + 1
       /\ parse'.units[parse'.unit].charges = {n + 1}
    \/ /\ parse.mode = "detail" /\ row.a \in {"none", "totals"}
       /\ parse'.mode = "detail" /\ parse'.unit = parse.unit
       /\ parse'.units =
              IF parse.unit # 0 /\ row.code = "charge"
              THEN [parse.units EXCEPT ![parse.unit].charges = @ \cup {n + 1}]
              ELSE parse.units
    \/ /\ parse.mode # "detail" /\ row.a \notin Headings
       /\ parse'.mode = parse.mode /\ parse'.unit = parse.unit
       /\ parse'.units = parse.units

LEMMA UpdateTwice ==
    ASSUME NEW p \in Parsed, NEW mode \in {"summary", "charge_summary"},
           NEW group \in Texts
    PROVE  /\ [p EXCEPT !.mode = mode, !.unit = 0] \in Parsed
           /\ [p EXCEPT !.group = group, !.unit = 0] \in Parsed
<1>1. [p EXCEPT !.mode = mode] \in Parsed /\ [p EXCEPT !.group = group] \in Parsed
  BY DEF Parsed
<1>2. ASSUME NEW q \in Parsed PROVE [q EXCEPT !.unit = 0] \in Parsed
  BY DEF Parsed
<1> QED BY <1>1, <1>2

LEMMA RowIsRead ==
    ASSUME FileTypes, OpenUnitIsNearest, NEW row \in Rows, NEW n \in Nat,
           parse' = NextRow(parse, row, n + 1)
    PROVE  parse' \in Parsed /\ Reading(row, n)
<1>p. parse \in Parsed
  BY DEF FileTypes
<1>r. /\ row.a \in Texts
      /\ row.percentage \in Percentages \cup {NoPercentage}
      /\ row.vacant \in BOOLEAN
      /\ row.a = "unit" => row.code = "charge"
  BY RowCells
<1>1. CASE row.a \in Headings
  <2>1. PICK mode \in {"summary", "charge_summary"} :
            parse' = [parse EXCEPT !.mode = mode, !.unit = 0]
    BY <1>1 DEF NextRow, Headings
  <2>2. parse' \in Parsed
    BY <1>p, <1>r, <2>1, UpdateTwice
  <2>3. parse'.mode = mode /\ parse'.unit = 0 /\ parse'.units = parse.units
    BY <1>p, <2>1 DEF Parsed
  <2> QED BY <1>1, <2>2, <2>3 DEF Reading
<1>2. CASE row.a \notin Headings /\ parse.mode # "detail"
  <2>1. CASE parse.mode = "summary"
    <3>1. parse' = SummaryRow(parse, row)
      BY <1>2, <2>1 DEF NextRow, Headings
    <3>2. CASE row.a = "none"
      BY <1>2, <1>p, <3>1, <3>2 DEF SummaryRow, Reading
    <3>3. CASE row.a # "none"
      <4> DEFINE group == [name |-> row.a, percentage |-> row.percentage]
      <4>1. parse' = [parse EXCEPT !.groups = Append(parse.groups, group)]
        BY <3>1, <3>3 DEF SummaryRow
      <4>2. group \in [name : Texts, percentage : Percentages \cup {NoPercentage}]
        BY <1>r
      <4> HIDE DEF group
      <4>3. Append(parse.groups, group) \in
                Seq([name : Texts, percentage : Percentages \cup {NoPercentage}])
        BY <1>p, <4>2 DEF Parsed
      <4> QED BY <1>2, <1>p, <4>1, <4>3 DEF Reading, Parsed
    <3> QED BY <3>2, <3>3
  <2>2. CASE parse.mode = "charge_summary"
    <3>1. parse' = ChargeSummary(parse, row, n + 1)
      BY <1>2, <2>2 DEF NextRow, Headings
    <3>2. CASE row.a = "none"
      BY <1>2, <1>p, <3>1, <3>2 DEF ChargeSummary, Reading
    <3>3. CASE row.a # "none"
      <4>1. parse' = [parse EXCEPT !.charges = Append(parse.charges, n + 1)]
        BY <3>1, <3>3 DEF ChargeSummary
      <4>2. Append(parse.charges, n + 1) \in Seq(Nat)
        BY <1>p DEF Parsed
      <4> QED BY <1>2, <1>p, <4>1, <4>2 DEF Reading, Parsed
    <3> QED BY <3>2, <3>3
  <2> QED BY <1>2, <1>p, <2>1, <2>2 DEF Parsed
<1>3. CASE parse.mode = "detail" /\ row.a = "section"
  <2>1. parse' = [parse EXCEPT !.group = row.a, !.unit = 0]
    BY <1>3 DEF NextRow, Detail, NewSection
  <2>2. parse' \in Parsed
    BY <1>p, <1>r, <2>1, UpdateTwice
  <2>3. /\ parse'.mode = parse.mode /\ parse'.unit = 0
        /\ parse'.units = parse.units
    BY <1>p, <2>1 DEF Parsed
  <2> QED BY <1>3, <2>2, <2>3 DEF Reading
<1>4. CASE parse.mode = "detail" /\ row.a = "unit"
  <2> DEFINE unit == [row |-> n + 1, group |-> parse.group,
                      vacant |-> row.vacant, charges |-> {}]
             found == [unit EXCEPT !.charges = unit.charges \cup {n + 1}]
             u == Len(parse.units) + 1
             extended == Append(parse.units, unit)
             units == [extended EXCEPT ![u] = found]
  <2>1. parse' = [parse EXCEPT !.unit = u,
                      !.units = Charged(Append(@, unit), u, row, n + 1)]
    BY <1>4 DEF NextRow, Detail, AddUnit
  <2>2. /\ unit \in Unit /\ found \in Unit
        /\ found.row = n + 1 /\ found.charges = {n + 1}
    BY <1>p, <1>r DEF Unit, Parsed
  <2>3. parse.units \in Seq(Unit) /\ u \in Nat
    BY <1>p DEF Parsed
  <2> HIDE DEF unit
  <2>4. /\ extended \in [1 .. u -> Unit] /\ extended[u] = unit
        /\ \A k \in 1 .. Len(parse.units) : extended[k] = parse.units[k]
    <3>1. extended \in Seq(Unit) /\ Len(extended) = u /\ extended[u] = unit
      BY <2>2, <2>3
    <3>2. \A k \in 1 .. Len(parse.units) : extended[k] = parse.units[k]
      BY <2>2, <2>3
    <3> HIDE DEF extended
    <3> QED BY <3>1, <3>2
  <2>5. Charged(extended, u, row, n + 1) = units
    BY <1>4, <1>r, <2>4 DEF Charged
  <2> HIDE DEF found, extended
  <2>6. /\ units \in [1 .. u -> Unit] /\ units[u] = found
        /\ \A k \in 1 .. Len(parse.units) : units[k] = parse.units[k]
    BY <2>2, <2>3, <2>4
  <2>7. parse' = [parse EXCEPT !.unit = u, !.units = units]
    BY <2>1, <2>5 DEF extended
  <2> HIDE DEF units
  <2>8. units \in Seq(Unit) /\ Len(units) = u
    BY <2>3, <2>6
  <2> HIDE DEF u
  <2>9. /\ parse' \in Parsed /\ parse'.unit = u /\ parse'.units = units
        /\ parse'.mode = parse.mode
    BY <1>p, <2>3, <2>7, <2>8 DEF Parsed
  <2>10. Len(parse'.units) = parse'.unit /\ parse'.unit = Len(parse.units) + 1
    BY <2>8, <2>9 DEF u
  <2>11. \A k \in DOMAIN parse.units : parse'.units[k] = parse.units[k]
    BY <2>3, <2>6, <2>9
  <2> QED BY <1>4, <2>2, <2>6, <2>9, <2>10, <2>11 DEF Reading
<1>5. CASE parse.mode = "detail" /\ row.a \in {"none", "totals"}
  <2>1. parse' = IF parse.unit = 0 THEN parse
                 ELSE [parse EXCEPT !.units = Charged(@, parse.unit, row, n + 1)]
    BY <1>5 DEF NextRow, Detail
  <2>2. CASE parse.unit = 0 \/ row.code # "charge"
    BY <1>5, <1>p, <2>1, <2>2 DEF Charged, Reading, Parsed
  <2>3. CASE parse.unit # 0 /\ row.code = "charge"
    <3> DEFINE units == [parse.units EXCEPT ![parse.unit].charges = @ \cup {n + 1}]
    <3>1. parse' = [parse EXCEPT !.units = units]
      BY <2>1, <2>3 DEF Charged
    <3>2. parse.units \in Seq(Unit) /\ parse.unit \in 1 .. Len(parse.units)
      BY <1>p, <2>3 DEF Parsed, OpenUnitIsNearest
    <3>3. units \in Seq(Unit)
      <4>1. parse.units[parse.unit] \in Unit
        BY <3>2
      <4> DEFINE charged == [parse.units[parse.unit] EXCEPT
                                !.charges = parse.units[parse.unit].charges
                                                \cup {n + 1}]
      <4>2. parse.units[parse.unit].charges \cup {n + 1} \in SUBSET Nat
        BY <4>1 DEF Unit
      <4>3. charged \in Unit
        BY <4>1, <4>2 DEF Unit
      <4>4. units = [parse.units EXCEPT ![parse.unit] = charged]
        OBVIOUS
      <4> HIDE DEF charged, units
      <4> QED BY <3>2, <4>3, <4>4
    <3> HIDE DEF units
    <3>4. parse' \in Parsed /\ parse'.units = units /\ parse'.unit = parse.unit
          /\ parse'.mode = parse.mode
      BY <1>p, <3>1, <3>3 DEF Parsed
    <3> QED BY <1>5, <2>3, <3>4 DEF Reading, units
  <2> QED BY <2>2, <2>3
<1> QED BY <1>1, <1>2, <1>3, <1>4, <1>5, <1>p, <1>r DEF Texts, Headings

LEMMA ReadRowKeeps == FileInv /\ ReadRow => FileInv'
<1> SUFFICES ASSUME FileInv, ReadRow PROVE FileInv'
  OBVIOUS
<1> PICK row \in Rows :
        /\ rows' = Append(rows, row)
        /\ parse' = NextRow(parse, row, Len(rows) + 1)
  BY DEF ReadRow
<1>t. /\ rows \in Seq(Rows) /\ parse \in Parsed /\ parse.units \in Seq(Unit)
      /\ Len(rows) \in Nat /\ Len(parse.units) \in Nat
  BY DEF FileInv, FileTypes, Parsed
<1> PICK n \in Nat, m \in Nat : n = Len(rows) /\ m = Len(parse.units)
  BY <1>t
<1>d. DOMAIN rows = 1 .. n /\ DOMAIN parse.units = 1 .. m
  BY <1>t
<1>1. parse' \in Parsed /\ Reading(row, n)
  BY <1>t, RowIsRead DEF FileInv
<1>2. rows' \in Seq(Rows) /\ DOMAIN rows' = 1 .. n + 1
  BY <1>t
<1>3. FileTypes'
  BY <1>1, <1>2 DEF FileTypes
<1>4. /\ Len(rows') = n + 1 /\ rows'[n + 1] = row
      /\ \A i \in 1 .. n : rows'[i] = rows[i] /\ (Closes(i)' <=> Closes(i))
      /\ \A i \in 0 .. n : (InDetail(i)' <=> InDetail(i))
      /\ Closes(n + 1)' <=> (row.a \in {"section", "unit"} \cup Headings)
      /\ InDetail(n + 1)' <=> (InDetail(n) /\ row.a \notin Headings)
  BY <1>t, OneMoreRow
<1>5. /\ parse.mode = "detail" <=> InDetail(n)
      /\ parse.mode # "detail" => parse.unit = 0
      /\ parse.unit \in 0 .. m
  BY DEF FileInv, ModeIsPlace, OpenUnitIsNearest
<1>6. ASSUME NEW u \in 1 .. m
      PROVE  /\ parse.units[u].row \in 1 .. n
             /\ u = parse.unit <=> StaysOpen(parse.units[u].row)
             /\ parse.units[u].charges = ChargesBelow(parse.units[u].row)
  BY <1>d DEF FileInv, OpenUnitIsNearest, ChargesAreBelow
<1>7. row.a \in Texts /\ (row.a \in {"section"} \cup Headings => row.code = "none")
      /\ (row.a = "unit" => row.code = "charge")
  BY RowCells
<1>8. ModeIsPlace'
  <2>1. parse'.mode = "detail" <=> parse.mode = "detail" /\ row.a \notin Headings
    BY <1>1, <1>7 DEF Reading, Texts, Headings
  <2>2. InDetail(Len(rows))' <=> InDetail(n + 1)'
    BY <1>4
  <2> QED BY <1>4, <1>5, <2>1, <2>2 DEF ModeIsPlace
\* The units found before: what the row means for unit u of row r.
<1>9. ASSUME NEW u \in 1 .. m, NEW r, r = parse.units[u].row
      PROVE  /\ StaysOpen(r)' <=> u = parse.unit /\ ~Closes(n + 1)'
             /\ ChargesBelow(r)' =
                    IF StaysOpen(r)' /\ row.code = "charge"
                    THEN parse.units[u].charges \cup {n + 1}
                    ELSE parse.units[u].charges
  <2>1. r \in 1 .. n
    BY <1>6, <1>9
  <2>2. /\ StaysOpen(r)' <=> StaysOpen(r) /\ ~Closes(n + 1)'
        /\ ChargesBelow(r)' = IF StaysOpen(r)' /\ row.code = "charge"
                              THEN ChargesBelow(r) \cup {n + 1}
                              ELSE ChargesBelow(r)
    BY <1>t, <2>1, OneMoreCharge
  <2> QED BY <1>6, <1>9, <2>2
<1>10. CASE ~(parse.mode = "detail" /\ row.a = "unit")
  <2>1. ASSUME NEW u \in 1 .. m
        PROVE  /\ parse'.units[u].row = parse.units[u].row
               /\ u = parse'.unit <=> u = parse.unit /\ ~Closes(n + 1)'
               /\ parse'.units[u].charges =
                      IF u = parse'.unit /\ row.code = "charge"
                      THEN parse.units[u].charges \cup {n + 1}
                      ELSE parse.units[u].charges
    <3>1. CASE /\ parse'.units = parse.units /\ parse'.unit = 0
               /\ row.a \in {"section"} \cup Headings
      BY <1>4, <1>7, <2>1, <3>1
    <3>2. CASE /\ parse'.units = parse.units /\ parse.unit = 0 /\ parse'.unit = 0
      BY <2>1, <3>2
    <3>3. CASE /\ row.a \in {"none", "totals"} /\ parse'.unit = parse.unit
               /\ parse'.units =
                     IF parse.unit # 0 /\ row.code = "charge"
                     THEN [parse.units EXCEPT
                              ![parse.unit].charges = @ \cup {n + 1}]
                     ELSE parse.units
      <4>1. ~Closes(n + 1)'
        BY <1>4, <3>3 DEF Headings
      <4>2. parse.units[u] \in Unit
        BY <1>d, <1>t
      <4>3. CASE u = parse.unit /\ row.code = "charge"
        <5> PICK charged : charged = [parse.units[u] EXCEPT !.charges = @ \cup {n + 1}]
          OBVIOUS
        <5>1. parse'.units = [parse.units EXCEPT ![u] = charged]
          BY <3>3, <4>3, <2>1, <1>5
        <5>2. parse'.units[u] = charged
          BY <1>d, <2>1, <5>1
        <5>3. charged.row = parse.units[u].row
              /\ charged.charges = parse.units[u].charges \cup {n + 1}
          BY <4>2 DEF Unit
        <5> QED BY <3>3, <4>1, <4>3, <5>2, <5>3
      <4>4. CASE ~(u = parse.unit /\ row.code = "charge")
        <5>1. parse'.units[u] = parse.units[u]
          BY <1>d, <2>1, <3>3, <4>4
        <5> QED BY <3>3, <4>1, <4>4, <5>1
      <4> QED BY <4>3, <4>4
    <3> QED BY <1>1, <1>5, <1>10, <3>1, <3>2, <3>3 DEF Reading
  <2>2. DOMAIN parse'.units = 1 .. m /\ parse'.unit \in 0 .. m
    BY <1>1, <1>5, <1>10, <1>d DEF Reading
  <2>3. parse'.mode # "detail" => parse'.unit = 0
    BY <1>1, <1>5, <1>7 DEF Reading, Texts, Headings
  <2>4. ASSUME NEW u \in 1 .. m
        PROVE  /\ parse'.units[u].row \in 1 .. n + 1
               /\ u = parse'.unit <=> StaysOpen(parse.units[u].row)'
               /\ parse'.units[u].charges = ChargesBelow(parse.units[u].row)'
    <3> PICK r : r = parse.units[u].row
      OBVIOUS
    <3>1. r \in 1 .. n /\ parse'.units[u].row = r
      BY <1>6, <2>1
    <3>2. u = parse'.unit <=> StaysOpen(r)'
      BY <1>9, <2>1
    <3>3. parse'.units[u].charges = ChargesBelow(r)'
      BY <1>9, <2>1, <3>2
    <3> QED BY <3>1, <3>2, <3>3
  <2>5. OpenUnitIsNearest' /\ ChargesAreBelow'
    BY <1>4, <2>2, <2>3, <2>4 DEF OpenUnitIsNearest, ChargesAreBelow
  <2>6. UnitsAreUnitRows'
    <3>1. {parse'.units[u].row : u \in DOMAIN parse'.units} =
              {parse.units[u].row : u \in DOMAIN parse.units}
      <4>1. \A u \in 1 .. m : parse'.units[u].row = parse.units[u].row
        BY <2>1
      <4> QED BY <1>d, <2>2, <4>1
    <3>2. ~(row.a = "unit" /\ InDetail(n + 1)')
      BY <1>4, <1>5, <1>10
    <3>3. {i \in DOMAIN rows' : rows'[i].a = "unit" /\ InDetail(i)'} =
              {i \in DOMAIN rows : rows[i].a = "unit" /\ InDetail(i)}
      BY <1>2, <1>4, <1>d, <3>2
    <3> QED BY <3>1, <3>3 DEF FileInv, UnitsAreUnitRows
  <2> QED BY <1>3, <1>8, <2>5, <2>6 DEF FileInv
<1>11. CASE parse.mode = "detail" /\ row.a = "unit"
  <2>1. /\ parse'.mode = "detail" /\ parse'.unit = m + 1
        /\ DOMAIN parse'.units = 1 .. m + 1
        /\ \A u \in 1 .. m : parse'.units[u] = parse.units[u]
        /\ parse'.units[m + 1].row = n + 1
        /\ parse'.units[m + 1].charges = {n + 1}
    <3>1. parse'.units \in Seq(Unit)
      BY <1>1 DEF Parsed
    <3>2. /\ parse'.mode = "detail" /\ parse'.unit = m + 1
          /\ Len(parse'.units) = m + 1
          /\ \A u \in 1 .. m : parse'.units[u] = parse.units[u]
          /\ parse'.units[m + 1].row = n + 1
          /\ parse'.units[m + 1].charges = {n + 1}
      BY <1>1, <1>11, <1>d DEF Reading, Headings
    <3> QED BY <3>1, <3>2
  <2>2. Closes(n + 1)' /\ InDetail(n + 1)' /\ row.code = "charge"
    BY <1>4, <1>5, <1>7, <1>11 DEF Headings
  <2>3. StaysOpen(n + 1)' /\ ChargesBelow(n + 1)' = {n + 1}
    <3>1. n + 2 .. n + 1 = {} /\ n + 1 .. n + 1 = {n + 1}
      OBVIOUS
    <3> QED BY <1>4, <2>2, <3>1 DEF StaysOpen, ChargesBelow
  <2>4. ASSUME NEW u \in 1 .. m + 1
        PROVE  /\ parse'.units[u].row \in 1 .. n + 1
               /\ u = parse'.unit <=> StaysOpen(parse.units[u].row)'
               /\ parse'.units[u].charges = ChargesBelow(parse.units[u].row)'
    <3>1. CASE u = m + 1
      <4> PICK r : r = n + 1
        OBVIOUS
      <4>1. parse'.units[u].row = r /\ r \in 1 .. n + 1
        BY <2>1, <3>1
      <4>2. StaysOpen(r)' /\ ChargesBelow(r)' = {n + 1}
        BY <2>3
      <4> QED BY <2>1, <3>1, <4>1, <4>2
    <3>2. CASE u # m + 1
      <4> PICK r : r = parse.units[u].row
        OBVIOUS
      <4>1. u \in 1 .. m
        BY <3>2
      <4>2. r \in 1 .. n /\ parse'.units[u].row = r
        BY <1>6, <2>1, <4>1
      <4>3. ~StaysOpen(r)' /\ ChargesBelow(r)' = parse.units[u].charges
        BY <1>9, <2>2, <4>1
      <4> QED BY <2>1, <3>2, <4>1, <4>2, <4>3
    <3> QED BY <3>1, <3>2
  <2>5. OpenUnitIsNearest' /\ ChargesAreBelow'
    <3>1. parse'.unit \in 0 .. Len(parse'.units)
      BY <1>1, <1>11, <2>1 DEF Reading, Headings
    <3> QED
      BY <1>4, <2>1, <2>4, <3>1 DEF OpenUnitIsNearest, ChargesAreBelow
  <2>6. UnitsAreUnitRows'
    <3>1. {parse'.units[u].row : u \in DOMAIN parse'.units} =
              {parse.units[u].row : u \in DOMAIN parse.units} \cup {n + 1}
      <4>1. 1 .. m + 1 = (1 .. m) \cup {m + 1}
        OBVIOUS
      <4>2. \A u \in 1 .. m : parse'.units[u].row = parse.units[u].row
        BY <2>1
      <4>3. {parse'.units[u].row : u \in 1 .. m + 1} =
                {parse'.units[u].row : u \in 1 .. m} \cup {n + 1}
        BY <2>1, <4>1
      <4>4. {parse'.units[u].row : u \in 1 .. m} =
                {parse.units[u].row : u \in 1 .. m}
        BY <4>2
      <4> QED BY <1>d, <2>1, <4>3, <4>4
    <3>2. {i \in DOMAIN rows' : rows'[i].a = "unit" /\ InDetail(i)'} =
              {i \in DOMAIN rows : rows[i].a = "unit" /\ InDetail(i)}
                  \cup {n + 1}
      BY <1>2, <1>4, <1>11, <1>d, <2>2
    <3> QED BY <3>1, <3>2 DEF FileInv, UnitsAreUnitRows
  <2> QED BY <1>3, <1>8, <2>5, <2>6 DEF FileInv
<1> QED BY <1>10, <1>11

\* A blank page reads as nothing.
LEMMA BlankPage == rows = <<>> /\ parse = Blank => FileInv
<1> SUFFICES ASSUME rows = <<>>, parse = Blank PROVE FileInv
  OBVIOUS
<1> USE DEF Blank
<1>1. FileTypes
  BY DEF FileTypes, Parsed, Texts
<1>2. ModeIsPlace /\ OpenUnitIsNearest /\ ChargesAreBelow
  BY DEF ModeIsPlace, OpenUnitIsNearest, ChargesAreBelow, InDetail
<1>3. UnitsAreUnitRows
  BY DEF UnitsAreUnitRows
<1> QED BY <1>1, <1>2, <1>3 DEF FileInv

\* The rest of the system writes neither the page nor what was read of it.
LEMMA FileStep == FileInv /\ [Next]_vars => FileInv'
<1> SUFFICES ASSUME FileInv, [Next]_vars PROVE FileInv'
  OBVIOUS
<1>1. CASE ReadRow
  BY <1>1, ReadRowKeeps
<1>2. CASE rows' = <<>> /\ parse' = Blank
  <2>1. (rows = <<>> /\ parse = Blank => FileInv)'
    BY BlankPage, PTL
  <2> QED BY <1>2, <2>1
<1>3. CASE UNCHANGED fileVars
  <2>1. rows' = rows /\ parse' = parse
    BY <1>3 DEF fileVars
  <2>2. FileTypes' /\ ModeIsPlace'
    BY <2>1 DEF FileInv, FileTypes, ModeIsPlace, InDetail
  <2>3. OpenUnitIsNearest'
    BY <2>1 DEF FileInv, OpenUnitIsNearest, StaysOpen, Closes
  <2>4. UnitsAreUnitRows'
    <3>1. ASSUME NEW i PROVE InDetail(i)' <=> InDetail(i)
      BY <2>1 DEF InDetail
    <3>2. {i \in DOMAIN rows' : rows'[i].a = "unit" /\ InDetail(i)'} =
              {i \in DOMAIN rows : rows[i].a = "unit" /\ InDetail(i)}
      BY <2>1, <3>1
    <3> QED BY <2>1, <3>2 DEF FileInv, UnitsAreUnitRows
  <2>5. ChargesAreBelow'
    BY <2>1 DEF FileInv, ChargesAreBelow, ChargesBelow, Closes
  <2> QED BY <2>2, <2>3, <2>4, <2>5 DEF FileInv
<1> QED
  BY <1>1, <1>2, <1>3 DEF Next, Loader, Reader, Parse, Load, ParseRow, ParseFile,
     NoMonthFound, GenerateSql, Execute, Drop, Create, Insert, Commit,
     CommitPending, Abort, vars

\* Sheets of any length: the parser's one pass gives every charge to the
\* nearest unit above it that nothing separates from it (parse_rent_roll).
THEOREM ChargesFollow == Spec => []ChargesFollowTheirUnit
<1>1. Init => FileInv
  BY BlankPage DEF Init, FileInit
<1>2. FileInv => ChargesFollowTheirUnit
  BY DEF FileInv, UnitsAreUnitRows, ChargesAreBelow, ChargesBelow,
         ChargesFollowTheirUnit
<1> QED BY <1>1, <1>2, FileStep, PTL DEF Spec

-----------------------------------------------------------------------------
(* What the analysis makes of a trend: the rows with a percentage in their  *)
(* order, the changes between neighbours, the first of the lowest.          *)

IsTrend(t) ==
    /\ IsSeq(t) /\ ByMonth(t)
    /\ \A i \in DOMAIN t : /\ t[i].month \in Int
                           /\ t[i].percentage \in Percentages \cup {NoPercentage}

Given(t) == {i \in DOMAIN t : t[i].percentage # NoPercentage}

\* The n-th usable row is row GivenAt(t, n) of the trend.
GivenAt(t, n) == InOrder(Given(t))[n]

\* The query returns its rows in the order the analysis sorts them in.
LEMMA SortedStays ==
    ASSUME NEW t, IsTrend(t)
    PROVE  SortedByMonth(t) = t
<1> DEFINE UpTo(j) == {i \in DOMAIN t : \/ t[i].month < t[j].month
                                        \/ t[i].month = t[j].month /\ i <= j}
           At(k) == CHOOSE j \in DOMAIN t : Cardinality(UpTo(j)) = k
<1>1. Len(t) \in Nat /\ DOMAIN t = 1 .. Len(t) /\ t \in Seq(Range(t))
  BY SeqFacts DEF IsTrend, IsSeq
<1>2. ASSUME NEW j \in DOMAIN t PROVE UpTo(j) = 1 .. j
  <2>1. j \in 1 .. Len(t) /\ 1 .. j \subseteq DOMAIN t
    BY <1>1
  <2>2. ASSUME NEW i \in DOMAIN t PROVE i \in UpTo(j) <=> i \in 1 .. j
    <3>1. i \in 1 .. Len(t) /\ t[i].month \in Int /\ t[j].month \in Int
      BY <1>1 DEF IsTrend
    <3>2. i < j => t[i].month <= t[j].month
      BY DEF IsTrend, ByMonth
    <3>3. j < i => t[j].month <= t[i].month
      BY DEF IsTrend, ByMonth
    <3> QED BY <2>1, <3>1, <3>2, <3>3
  <2> HIDE DEF UpTo
  <2>3. UpTo(j) \subseteq DOMAIN t
    BY DEF UpTo
  <2> QED BY <2>1, <2>2, <2>3
<1>3. ASSUME NEW j \in DOMAIN t PROVE Cardinality(UpTo(j)) = j
  <2>1. j \in Nat /\ 1 \in Int /\ j \in Int /\ ~(1 > j)
    BY <1>1
  <2>2. Cardinality(1 .. j) = j
    BY <2>1, FS_Interval
  <2> HIDE DEF UpTo
  <2> QED BY <1>2, <2>2
<1> HIDE DEF UpTo
<1>4. ASSUME NEW k \in DOMAIN t PROVE At(k) = k
  <2>1. \E j \in DOMAIN t : Cardinality(UpTo(j)) = k
    BY <1>3
  <2>2. At(k) \in DOMAIN t /\ Cardinality(UpTo(At(k))) = k
    BY <2>1
  <2> HIDE DEF At
  <2> QED BY <1>3, <2>2
<1>5. SortedByMonth(t) = [k \in DOMAIN t |-> t[At(k)]]
  BY DEF SortedByMonth, UpTo
<1> HIDE DEF At
<1>6. SortedByMonth(t) = [k \in DOMAIN t |-> t[k]]
  BY <1>4, <1>5
<1> QED BY <1>1, <1>6

\* The usable rows are the rows with a percentage, in the order of the trend.
LEMMA UsableRows ==
    ASSUME NEW t, IsTrend(t)
    PROVE  /\ IsSeq(Usable(t)) /\ Len(Usable(t)) \in Nat
           /\ DOMAIN Usable(t) = 1 .. Len(Usable(t))
           /\ \A n \in 1 .. Len(Usable(t)) :
                  /\ GivenAt(t, n) \in Given(t)
                  /\ Usable(t)[n] = t[GivenAt(t, n)]
                  /\ Usable(t)[n].percentage \in Int
           /\ \A k \in Given(t) : \E n \in 1 .. Len(Usable(t)) : GivenAt(t, n) = k
           /\ \A m, n \in 1 .. Len(Usable(t)) :
                  m < n => GivenAt(t, m) < GivenAt(t, n)
<1> DEFINE P == Given(t)
           u == MembersAt(t, P)
<1>1. Usable(t) = u
  BY SortedStays DEF Usable, Given
<1>2. P \in SUBSET DOMAIN t /\ IsSeq(t)
  BY DEF Given, IsTrend
<1>3. \A k \in P : t[k].percentage \in Int
  BY PercentagesAreNumbers DEF Given, IsTrend
<1> HIDE DEF P
<1>4. IsSeq(u) /\ DOMAIN u = 1 .. Len(u) /\ Len(u) \in Nat
  BY <1>2, ChosenIsSeq
<1>5. /\ \A n \in DOMAIN u : InOrder(P)[n] \in P /\ u[n] = t[InOrder(P)[n]]
      /\ \A k \in P : \E n \in DOMAIN u : InOrder(P)[n] = k
      /\ \A m, n \in DOMAIN u : m < n => InOrder(P)[m] < InOrder(P)[n]
  BY <1>2, MembersAtPlaces DEF IsSeq
<1> HIDE DEF u
<1>6. \A n \in DOMAIN u : u[n].percentage \in Int
  BY <1>3, <1>5
<1> QED BY <1>1, <1>4, <1>5, <1>6 DEF P, GivenAt

LEMMA ChangesOfTrend ==
    ASSUME NEW t, IsTrend(t)
    PROVE  /\ DOMAIN Changes(t) = 1 .. Len(Usable(t)) - 1
           /\ Changes(t) # <<>> => Len(Usable(t)) > 1
           /\ \A i \in 1 .. Len(Usable(t)) - 1 :
                  /\ Changes(t)[i] = Change(Usable(t)[i], Usable(t)[i + 1])
                  /\ Changes(t)[i].change = Usable(t)[i + 1].percentage
                                            - Usable(t)[i].percentage
                  /\ Changes(t)[i].change \in Int
                  /\ Changes(t)[i].to = Usable(t)[i + 1].month
<1> DEFINE u == Usable(t)
           n == Len(u)
<1>1. Len(u) \in Nat /\ \A i \in 1 .. Len(u) : u[i].percentage \in Int
  BY UsableRows
<1>2. Changes(t) = [i \in 1 .. n - 1 |-> Change(u[i], u[i + 1])]
  BY DEF Changes
<1> HIDE DEF u
<1>3. n > 1 \/ Changes(t) = <<>>
  <2>1. CASE ~(n > 1)
    <3>1. 1 .. n - 1 = {}
      BY <1>1, <2>1
    <3>2. Changes(t) = [i \in {} |-> Change(u[i], u[i + 1])]
      BY <1>2, <3>1
    <3> QED BY <3>2
  <2> QED BY <2>1
<1>4. ASSUME NEW i \in 1 .. n - 1
      PROVE  /\ Changes(t)[i] = Change(u[i], u[i + 1])
             /\ Changes(t)[i].change = u[i + 1].percentage - u[i].percentage
             /\ Changes(t)[i].change \in Int
             /\ Changes(t)[i].to = u[i + 1].month
  <2>1. i \in 1 .. Len(u) /\ i + 1 \in 1 .. Len(u)
    BY <1>1
  <2>2. u[i].percentage \in Int /\ u[i + 1].percentage \in Int
    BY <1>1, <2>1
  <2>3. Changes(t)[i] = Change(u[i], u[i + 1])
    BY <1>2
  <2> QED BY <2>2, <2>3 DEF Change
<1> QED BY <1>2, <1>3, <1>4 DEF u

\* min takes the first of the lowest changes, and there is one.
LEMMA LargestIsLowest ==
    ASSUME NEW t, IsTrend(t), Changes(t) # <<>>
    PROVE  \E i \in 1 .. Len(Usable(t)) - 1 :
               /\ LargestDecline(t) = Changes(t)[i]
               /\ \A j \in 1 .. Len(Usable(t)) - 1 :
                      Changes(t)[i].change <= Changes(t)[j].change
<1> DEFINE c == Changes(t)
           n == Len(Usable(t)) - 1
           Lowest(i) == \A j \in DOMAIN c : c[i].change <= c[j].change
           V == {c[i].change : i \in DOMAIN c}
           L == {i \in DOMAIN c : Lowest(i)}
           first == CHOOSE i \in DOMAIN c :
                        Lowest(i) /\ \A j \in 1 .. i - 1 : ~Lowest(j)
<1>1. n \in Nat /\ n > 0 /\ DOMAIN c = 1 .. n /\ \A i \in 1 .. n : c[i].change \in Int
  BY UsableRows, ChangesOfTrend
<1>2. LargestDecline(t) = c[first]
  BY DEF LargestDecline
<1> HIDE DEF c, n
<1>3. IsFiniteSet(DOMAIN c)
  <2>1. 1 \in Int /\ n \in Int
    BY <1>1
  <2> QED BY <1>1, <2>1, FS_Interval
<1>4. L # {}
  <2>1. V \in SUBSET Int /\ V # {}
    BY <1>1
  <2>2. IsFiniteSet(V)
    <3> DEFINE f == [i \in DOMAIN c |-> c[i].change]
    <3>1. f \in Surjection(DOMAIN c, V)
      BY DEF Surjection
    <3> HIDE DEF f, V
    <3> QED BY <1>3, <3>1, FS_Surjection
  <2> HIDE DEF V
  <2>3. PICK v \in V : \A w \in V : v <= w
    BY <2>1, <2>2, LeastMember
  <2>4. PICK i \in DOMAIN c : v = c[i].change
    BY DEF V
  <2>5. \A j \in DOMAIN c : c[j].change \in V
    BY DEF V
  <2>6. Lowest(i)
    BY <2>3, <2>4, <2>5
  <2> QED BY <2>6
<1>5. L \in SUBSET DOMAIN c /\ L \in SUBSET Int
  BY <1>1
<1>6. \E i \in DOMAIN c : Lowest(i) /\ \A j \in 1 .. i - 1 : ~Lowest(j)
  <2> HIDE DEF L
  <2>1. IsFiniteSet(L)
    BY <1>3, <1>5, FS_Subset
  <2>2. PICK i \in L : \A j \in L : i <= j
    BY <1>4, <1>5, <2>1, LeastMember
  <2>3. i \in DOMAIN c /\ i \in 1 .. n
    BY <1>1, <1>5
  <2>4. Lowest(i)
    BY DEF L
  <2>5. ASSUME NEW j \in 1 .. i - 1 PROVE ~Lowest(j)
    <3>1. j \in DOMAIN c /\ ~(i <= j)
      BY <1>1, <2>3
    <3> HIDE DEF Lowest
    <3> QED BY <2>2, <3>1 DEF L
  <2> HIDE DEF Lowest
  <2> QED BY <2>3, <2>4, <2>5
<1>7. first \in DOMAIN c /\ Lowest(first)
  <2> HIDE DEF Lowest
  <2> QED BY <1>6
<1> HIDE DEF first
<1> QED BY <1>1, <1>2, <1>7 DEF c, n

\* Neighbouring rows with a percentage are neighbours among the usable rows.
LEMMA NeighboursAreUsable ==
    ASSUME NEW t, IsTrend(t), NEW i \in DOMAIN t, NEW k \in DOMAIN t
    PROVE  Neighbours(t, i, k) <=>
               \E n \in 1 .. Len(Usable(t)) - 1 :
                   i = GivenAt(t, n) /\ k = GivenAt(t, n + 1)
<1> DEFINE u == Usable(t)
<1>1. /\ Len(u) \in Nat
      /\ \A n \in 1 .. Len(u) : GivenAt(t, n) \in Given(t)
      /\ \A j \in Given(t) : \E n \in 1 .. Len(u) : GivenAt(t, n) = j
      /\ \A m, n \in 1 .. Len(u) : m < n => GivenAt(t, m) < GivenAt(t, n)
  BY UsableRows
<1>2. Given(t) \subseteq Nat
  BY SeqFacts DEF Given, IsTrend
<1>3. \A j \in DOMAIN t : j \in Given(t) <=> t[j].percentage # NoPercentage
  BY DEF Given
<1>n. i \in Nat /\ k \in Nat /\ \A j \in i + 1 .. k - 1 : j \in DOMAIN t
  <2>1. DOMAIN t = 1 .. Len(t) /\ Len(t) \in Nat
    BY SeqFacts DEF IsTrend
  <2> QED BY <2>1
<1> HIDE DEF u
<1>4. ASSUME Neighbours(t, i, k)
      PROVE  \E n \in 1 .. Len(u) - 1 : i = GivenAt(t, n) /\ k = GivenAt(t, n + 1)
  <2>1. i \in Given(t) /\ k \in Given(t) /\ i < k
    BY <1>3, <1>4 DEF Neighbours
  <2>2. \A j \in i + 1 .. k - 1 : j \notin Given(t)
    BY <1>3, <1>4, <1>n DEF Neighbours
  <2>3. PICK m \in 1 .. Len(u) : GivenAt(t, m) = i
    BY <1>1, <2>1
  <2>4. PICK n \in 1 .. Len(u) : GivenAt(t, n) = k
    BY <1>1, <2>1
  <2>5. m < n
    <3>1. ~(n < m) /\ n # m
      BY <1>1, <1>n, <2>1, <2>3, <2>4
    <3> QED BY <1>1, <3>1
  <2>6. ~(m + 1 < n)
    <3>1. SUFFICES ASSUME m + 1 < n PROVE FALSE
      OBVIOUS
    <3>2. m + 1 \in 1 .. Len(u)
      BY <1>1, <3>1
    <3>3. GivenAt(t, m + 1) \in Given(t)
      BY <1>1, <3>2
    <3>4. i < GivenAt(t, m + 1) /\ GivenAt(t, m + 1) < k
      BY <1>1, <2>3, <2>4, <3>1, <3>2
    <3>5. GivenAt(t, m + 1) \in i + 1 .. k - 1
      BY <1>2, <1>n, <3>3, <3>4
    <3> QED BY <2>2, <3>3, <3>5
  <2>7. n = m + 1 /\ m \in 1 .. Len(u) - 1
    BY <1>1, <2>5, <2>6
  <2> QED BY <2>3, <2>4, <2>7
<1>5. ASSUME NEW n \in 1 .. Len(u) - 1,
             i = GivenAt(t, n), k = GivenAt(t, n + 1)
      PROVE  Neighbours(t, i, k)
  <2>1. n \in 1 .. Len(u) /\ n + 1 \in 1 .. Len(u) /\ n < n + 1
    BY <1>1
  <2>2. i < k /\ i \in Given(t) /\ k \in Given(t)
    BY <1>1, <1>5, <2>1
  <2>3. ASSUME NEW j \in i + 1 .. k - 1 PROVE j \notin Given(t)
    <3>1. SUFFICES ASSUME j \in Given(t) PROVE FALSE
      OBVIOUS
    <3>2. PICK x \in 1 .. Len(u) : GivenAt(t, x) = j
      BY <1>1, <3>1
    <3>3. i < j /\ j < k
      BY <1>n, <2>3
    <3>4. ~(x < n) /\ x # n /\ ~(n + 1 < x) /\ x # n + 1
      BY <1>1, <1>2, <1>5, <1>n, <2>1, <3>2, <3>3
    <3> QED BY <1>1, <3>4
  <2>4. \A j \in i + 1 .. k - 1 : t[j].percentage = NoPercentage
    BY <1>3, <1>n, <2>3
  <2> QED BY <1>3, <2>2, <2>4 DEF Neighbours
<1> QED BY <1>4, <1>5 DEF u

Fell(t) ==
    {p \in (DOMAIN t) \X (DOMAIN t) : Neighbours(t, p[1], p[2])}

\* The decline reported is the largest fall between neighbouring months.
LEMMA DeclineIsLargestFall ==
    ASSUME NEW t, IsTrend(t), HasDecline(t)
    PROVE  \E p \in Fell(t) :
               /\ \A q \in Fell(t) :
                      t[p[2]].percentage - t[p[1]].percentage
                          <= t[q[2]].percentage - t[q[1]].percentage
               /\ LargestDecline(t).to = t[p[2]].month
<1> DEFINE u == Usable(t)
           n == Len(u) - 1
<1>1. PICK m \in 1 .. n :
          /\ LargestDecline(t) = Changes(t)[m]
          /\ \A j \in 1 .. n : Changes(t)[m].change <= Changes(t)[j].change
  BY LargestIsLowest DEF HasDecline
<1>2. /\ Len(u) \in Nat
      /\ \A j \in 1 .. Len(u) : /\ GivenAt(t, j) \in Given(t)
                                /\ u[j] = t[GivenAt(t, j)]
  BY UsableRows
<1>3. \A j \in 1 .. n :
          /\ Changes(t)[j].change = u[j + 1].percentage - u[j].percentage
          /\ Changes(t)[j].to = u[j + 1].month
  BY ChangesOfTrend
<1>4. ASSUME NEW j \in 1 .. n
      PROVE  /\ GivenAt(t, j) \in DOMAIN t /\ GivenAt(t, j + 1) \in DOMAIN t
             /\ Changes(t)[j].change = t[GivenAt(t, j + 1)].percentage
                                       - t[GivenAt(t, j)].percentage
             /\ Changes(t)[j].to = t[GivenAt(t, j + 1)].month
  <2>1. j \in 1 .. Len(u) /\ j + 1 \in 1 .. Len(u)
    BY <1>2
  <2>2. u[j] = t[GivenAt(t, j)] /\ u[j + 1] = t[GivenAt(t, j + 1)]
    BY <1>2, <2>1
  <2>3. GivenAt(t, j) \in Given(t) /\ GivenAt(t, j + 1) \in Given(t)
    BY <1>2, <2>1
  <2> HIDE DEF u, n
  <2> QED BY <1>3, <2>2, <2>3 DEF Given
<1> DEFINE p == <<GivenAt(t, m), GivenAt(t, m + 1)>>
<1>5. p \in Fell(t)
  <2>1. Neighbours(t, GivenAt(t, m), GivenAt(t, m + 1))
    BY <1>4, NeighboursAreUsable
  <2> QED BY <1>4, <2>1 DEF Fell
<1>6. ASSUME NEW q \in Fell(t)
      PROVE  t[p[2]].percentage - t[p[1]].percentage
                 <= t[q[2]].percentage - t[q[1]].percentage
  <2>1. q[1] \in DOMAIN t /\ q[2] \in DOMAIN t /\ Neighbours(t, q[1], q[2])
    BY DEF Fell
  <2>2. PICK j \in 1 .. n : q[1] = GivenAt(t, j) /\ q[2] = GivenAt(t, j + 1)
    BY <2>1, NeighboursAreUsable
  <2>3. t[q[2]].percentage - t[q[1]].percentage = Changes(t)[j].change
    BY <1>4, <2>2
  <2>4. t[p[2]].percentage - t[p[1]].percentage = Changes(t)[m].change
    BY <1>4
  <2> HIDE DEF n, p
  <2> QED BY <1>1, <2>3, <2>4
<1>7. LargestDecline(t).to = t[p[2]].month
  BY <1>1, <1>4
<1> HIDE DEF p
<1> QED BY <1>5, <1>6, <1>7

\* Without a decline no row with a percentage is below an earlier one.
LEMMA NeverFell ==
    ASSUME NEW t, IsTrend(t), ~HasDecline(t),
           NEW i \in Given(t), NEW k \in Given(t), i < k
    PROVE  t[i].percentage <= t[k].percentage
<1> DEFINE u == Usable(t)
<1>1. /\ Len(u) \in Nat
      /\ \A x \in 1 .. Len(u) : u[x] = t[GivenAt(t, x)] /\ u[x].percentage \in Int
      /\ \A j \in Given(t) : \E x \in 1 .. Len(u) : GivenAt(t, x) = j
      /\ \A x, y \in 1 .. Len(u) : x < y => GivenAt(t, x) < GivenAt(t, y)
  BY UsableRows
<1>2. ASSUME NEW j \in 1 .. Len(u) - 1
      PROVE  u[j].percentage <= u[j + 1].percentage
  <2>1. /\ Changes(t)[j].change = u[j + 1].percentage - u[j].percentage
        /\ DOMAIN Changes(t) = 1 .. Len(u) - 1
        /\ \A x \in 1 .. Len(u) - 1 : Changes(t)[x].change \in Int
    BY ChangesOfTrend
  <2>2. Changes(t) # <<>>
    BY <2>1
  <2>3. PICK x \in 1 .. Len(u) - 1 :
            /\ LargestDecline(t) = Changes(t)[x]
            /\ \A y \in 1 .. Len(u) - 1 : Changes(t)[x].change <= Changes(t)[y].change
    BY <2>2, LargestIsLowest
  <2>4. ~(Changes(t)[x].change < 0)
    BY <2>2, <2>3 DEF HasDecline
  <2>5. j \in 1 .. Len(u) /\ j + 1 \in 1 .. Len(u)
    BY <1>1
  <2>6. u[j].percentage \in Int /\ u[j + 1].percentage \in Int
    BY <1>1, <2>5
  <2> HIDE DEF u
  <2> QED BY <2>1, <2>3, <2>4, <2>6
<1>3. PICK m \in 1 .. Len(u) : GivenAt(t, m) = i
  BY <1>1
<1>4. PICK n \in 1 .. Len(u) : GivenAt(t, n) = k
  BY <1>1
<1>5. m < n
  <2>1. i \in Nat /\ k \in Nat
    BY SeqFacts DEF Given, IsTrend
  <2>2. ~(n < m) /\ n # m
    BY <1>1, <1>3, <1>4, <2>1
  <2> QED BY <1>1, <2>2
<1> DEFINE Below == {x \in m .. n : u[x].percentage < u[m].percentage}
<1> HIDE DEF u
<1>6. Below = {}
  <2>1. SUFFICES ASSUME Below # {} PROVE FALSE
    OBVIOUS
  <2>2. m \in Int /\ n \in Int /\ m .. n \subseteq 1 .. Len(u)
    BY <1>1
  <2>3. IsFiniteSet(m .. n) /\ Below \in SUBSET (m .. n) /\ Below \in SUBSET Int
    BY <2>2, FS_Interval
  <2>4. IsFiniteSet(Below)
    BY <2>3, FS_Subset
  <2>5. PICK b \in Below : \A x \in Below : b <= x
    <3> HIDE DEF Below
    <3> QED BY <2>1, <2>3, <2>4, LeastMember
  <2>6. /\ b \in m .. n /\ u[b].percentage < u[m].percentage
        /\ u[m].percentage \in Int /\ u[b].percentage \in Int
    BY <1>1, <2>2, <2>5
  <2>7. b # m
    BY <2>6
  <2>8. b - 1 \in m .. n /\ b - 1 \in 1 .. Len(u) - 1 /\ b - 1 + 1 = b /\ ~(b <= b - 1)
    BY <1>1, <2>2, <2>6, <2>7
  <2>9. u[b - 1].percentage \in Int /\ u[b - 1].percentage <= u[b].percentage
    <3>1. b - 1 \in 1 .. Len(u)
      BY <1>1, <2>8
    <3>2. u[b - 1].percentage <= u[b - 1 + 1].percentage
      BY <1>2, <2>8
    <3> QED BY <1>1, <2>8, <3>1, <3>2
  <2>10. b - 1 \in Below
    BY <2>6, <2>8, <2>9
  <2> QED BY <2>5, <2>8, <2>10
<1>7. n \in m .. n /\ n \notin Below
  BY <1>1, <1>5, <1>6
<1>8. u[m].percentage \in Int /\ u[n].percentage \in Int
  BY <1>1
<1>9. u[m].percentage <= u[n].percentage
  BY <1>7, <1>8
<1> QED BY <1>1, <1>3, <1>4, <1>9

-----------------------------------------------------------------------------
(* The query's answer is such a trend.                                      *)

\* Every sheet read so far states percentages; after the parsing all were read.
ReportsInv ==
    /\ Earlier \subseteq DOMAIN reports
    /\ stage \in {"loading", "loaded"} => Current \subseteq DOMAIN reports
    /\ \A e \in DOMAIN reports :
           reports[e].percentages \in Seq(Percentages \cup {NoPercentage})

\* The occupancies of a report are percentages, for what a parser can hold.
LEMMA ReportHasPercentages ==
    ASSUME NEW p \in Parsed
    PROVE  Report(p).percentages \in Seq(Percentages \cup {NoPercentage})
<1> DEFINE S == [name : Texts, percentage : Percentages \cup {NoPercentage}]
           P == {i \in DOMAIN p.groups : IsOccupancy(p.groups[i])}
           current == MembersAt(p.groups, P)
           s == [i \in DOMAIN current |-> current[i].percentage]
<1>1. p.groups \in Seq(S) /\ P \in SUBSET DOMAIN p.groups
  BY DEF Parsed
<1>2. current \in Seq(S)
  <2> HIDE DEF P, S
  <2> QED BY <1>1, MembersAtPlaces
<1>3. Report(p).percentages = s
  BY DEF Report
<1> HIDE DEF current
<1>4. DOMAIN current = 1 .. Len(current) /\ Len(current) \in Nat
      /\ \A i \in DOMAIN current : current[i].percentage \in Percentages \cup {NoPercentage}
  <2> HIDE DEF S
  <2>1. DOMAIN current = 1 .. Len(current) /\ Len(current) \in Nat
        /\ \A i \in DOMAIN current : current[i] \in S
    BY <1>2
  <2>2. \A x \in S : x.percentage \in Percentages \cup {NoPercentage}
    BY DEF S
  <2> QED BY <2>1, <2>2
<1>5. s \in [1 .. Len(current) -> Percentages \cup {NoPercentage}]
  BY <1>4
<1> HIDE DEF s
<1> QED BY <1>3, <1>4, <1>5, FunctionSeq

LEMMA ReportsInit == Init => ReportsInv
<1> SUFFICES ASSUME Init PROVE ReportsInv
  OBVIOUS
<1>1. reports = [e \in Earlier |-> EarlierReports[e[1]]] /\ stage = "parsing"
  BY DEF Init, TablesInit
<1>2. \A e \in Earlier : e[1] \in DOMAIN EarlierReports
  BY DEF Earlier
<1> QED BY <1>1, <1>2, EarlierReportsAreRead DEF ReportsInv

LEMMA ParseFileKeepsReports == FileInv /\ ReportsInv /\ ParseFile => ReportsInv'
<1> SUFFICES ASSUME FileInv, ReportsInv, ParseFile PROVE ReportsInv'
  OBVIOUS
<1>1. PICK f \in ToParse :
          reports' = [e \in DOMAIN reports \cup {<<f, "current">>} |->
                         IF e = <<f, "current">> THEN Report(parse) ELSE reports[e]]
  BY DEF ParseFile
<1>2. Report(parse).percentages \in Seq(Percentages \cup {NoPercentage})
  BY ReportHasPercentages DEF FileInv, FileTypes
<1> DEFINE new == <<f, "current">>
           read == Report(parse)
<1> HIDE DEF new, read
<1>3. reports' = [e \in DOMAIN reports \cup {new} |->
                     IF e = new THEN read ELSE reports[e]]
  BY <1>1 DEF new, read
<1>4. DOMAIN reports' = DOMAIN reports \cup {new}
  BY <1>3
<1>5. \A e \in DOMAIN reports' :
          reports'[e].percentages \in Seq(Percentages \cup {NoPercentage})
  BY <1>2, <1>3, <1>4 DEF ReportsInv, read
<1>6. stage' = "parsing"
  BY DEF ParseFile
<1> QED BY <1>4, <1>5, <1>6 DEF ReportsInv

LEMMA ReportsStep == FileInv /\ ReportsInv /\ [Next]_vars => ReportsInv'
<1> SUFFICES ASSUME FileInv, ReportsInv, [Next]_vars PROVE ReportsInv'
  OBVIOUS
<1>1. CASE ParseFile
  BY <1>1, ParseFileKeepsReports
<1>2. CASE UNCHANGED reports /\ (stage' \in {"loading", "loaded"} => stage \in {"loading", "loaded"})
  BY <1>2 DEF ReportsInv
<1>3. CASE GenerateSql
  <2>1. Current \subseteq DOMAIN reports
    BY <1>3 DEF GenerateSql, ToParse, Current
  <2> QED BY <1>3, <2>1 DEF GenerateSql, ReportsInv
<1> QED
  BY <1>1, <1>2, <1>3 DEF Next, Loader, Reader, Parse, Load, ParseRow, NoMonthFound,
     Execute, Drop, Create, Insert, Commit, CommitPending, Abort, vars, tableVars

\* A query sees only editions that were read, finitely many.
LEMMA JoinedIsRead ==
    ASSUME WholeInv, ReportsInv, NEW t \in Tables
    PROVE  /\ IsFiniteSet(Joined(t)) /\ Joined(t) \subseteq DOMAIN reports
           /\ \A e \in Joined(t) : MonthOf[e[1]] \in Int
<1>1. "rent_roll_reports" \in Tables
  <2>1. 2 \in DOMAIN Created /\ Created[2] = "rent_roll_reports"
    BY DEF Created
  <2> QED BY <2>1 DEF Tables, ToSet
<1>2. Joined(t) \subseteq Earlier \cup Current
  BY <1>1 DEF Joined, WholeInv, LoaderTypeOK
<1>3. Joined(t) \subseteq DOMAIN reports
  <2>1. ASSUME NEW e \in Joined(t), e \in Current PROVE e \in DOMAIN reports
    <3>1. e \in stored[t] \cap Current
      BY <2>1 DEF Joined
    <3>2. stage = "loaded"
      BY <3>1 DEF WholeInv, CommitIsTheOnlyWay
    <3> QED BY <2>1, <3>2 DEF ReportsInv
  <2> QED BY <1>2, <2>1 DEF ReportsInv
<1>4. IsFiniteSet(Earlier \cup Current)
  <2>1. IsFiniteSet({"earlier"}) /\ IsFiniteSet({"current"})
    BY FS_Singleton
  <2>2. IsFiniteSet(Earlier) /\ IsFiniteSet(Current)
    BY <2>1, FilesHaveMonths, FS_Product DEF Earlier, Current
  <2> QED BY <2>2, FS_Union
<1>5. IsFiniteSet(Joined(t))
  BY <1>2, <1>4, FS_Subset
<1>6. \A e \in Earlier \cup Current : MonthOf[e[1]] \in Int
  BY FilesHaveMonths DEF Earlier, Current
<1> QED BY <1>2, <1>3, <1>5, <1>6

LEMMA RowsAreFinite ==
    ASSUME WholeInv, ReportsInv
    PROVE  /\ IsFiniteSet(OccupancyRows)
           /\ \A r \in OccupancyRows :
                  /\ r.month \in Int
                  /\ r.percentage \in Percentages \cup {NoPercentage}
<1> DEFINE J == Joined("rent_roll_summary_groups")
           RowOf(e, i) == [month |-> MonthOf[e[1]],
                           percentage |-> reports[e].percentages[i],
                           amounts |-> AmountsOf[e], row |-> <<e, i>>]
           RowsOf(e) == {RowOf(e, i) : i \in DOMAIN reports[e].percentages}
           All == {RowsOf(e) : e \in J}
<1>1. "rent_roll_summary_groups" \in Tables
  <2>1. 5 \in DOMAIN Created /\ Created[5] = "rent_roll_summary_groups"
    BY DEF Created
  <2> QED BY <2>1 DEF Tables, ToSet
<1>2. /\ IsFiniteSet(J)
      /\ \A e \in J : e \in DOMAIN reports /\ MonthOf[e[1]] \in Int
  BY <1>1, JoinedIsRead
<1>3. OccupancyRows = UNION All
  BY DEF OccupancyRows
<1> HIDE DEF J
<1>4. ASSUME NEW e \in J
      PROVE  /\ IsFiniteSet(DOMAIN reports[e].percentages)
             /\ \A i \in DOMAIN reports[e].percentages :
                    reports[e].percentages[i] \in Percentages \cup {NoPercentage}
  <2> DEFINE s == reports[e].percentages
             S == Percentages \cup {NoPercentage}
  <2>1. s \in Seq(S)
    BY <1>2 DEF ReportsInv
  <2> HIDE DEF s, S
  <2>2. /\ DOMAIN s = 1 .. Len(s) /\ 1 \in Int /\ Len(s) \in Int
        /\ \A i \in DOMAIN s : s[i] \in S
    BY <2>1
  <2>3. IsFiniteSet(DOMAIN s)
    BY <2>2, FS_Interval
  <2> QED BY <2>2, <2>3 DEF s, S
<1>5. ASSUME NEW e \in J PROVE IsFiniteSet(RowsOf(e))
  <2> DEFINE D == DOMAIN reports[e].percentages
             f == [i \in D |-> RowOf(e, i)]
             R == RowsOf(e)
  <2> HIDE DEF RowOf
  <2>1. f \in Surjection(D, R)
    BY DEF Surjection
  <2>2. IsFiniteSet(D)
    BY <1>4
  <2> HIDE DEF f, D, R
  <2>3. IsFiniteSet(R)
    BY <2>1, <2>2, FS_Surjection
  <2> QED BY <2>3 DEF R
<1>6. IsFiniteSet(UNION All)
  <2> HIDE DEF RowsOf
  <2> DEFINE f == [e \in J |-> RowsOf(e)]
  <2>1. f \in Surjection(J, All)
    BY DEF Surjection
  <2>2. \A T \in All : IsFiniteSet(T)
    BY <1>5
  <2> HIDE DEF f, All
  <2>3. IsFiniteSet(All)
    BY <1>2, <2>1, FS_Surjection
  <2> QED BY <2>2, <2>3, FS_UNION
<1>7. ASSUME NEW r \in OccupancyRows
      PROVE  r.month \in Int /\ r.percentage \in Percentages \cup {NoPercentage}
  <2> HIDE DEF RowOf
  <2>1. PICK e \in J : r \in RowsOf(e)
    BY <1>3
  <2>2. PICK i \in DOMAIN reports[e].percentages : r = RowOf(e, i)
    BY <2>1
  <2>3. r.month = MonthOf[e[1]] /\ r.percentage = reports[e].percentages[i]
    BY <2>2 DEF RowOf
  <2> QED BY <1>2, <1>4, <2>3
<1> HIDE DEF All
<1> QED BY <1>3, <1>6, <1>7

\* Whichever rows of a month come first, and however many months are asked for.
LEMMA AnswerIsTrend ==
    ASSUME WholeInv, ReportsInv, NEW t \in OccupancyTrends
    PROVE  IsTrend(t)
<1> DEFINE S == OccupancyRows
           n == Cardinality(S)
<1>1. IsFiniteSet(S) /\ n \in Nat
  BY RowsAreFinite, FS_CardinalityType
<1>2. PICK s \in SetToSeqs(S) :
          /\ ByMonth(s)
          /\ t = SubSeq(s, IF Len(s) > TrendMonths THEN Len(s) - TrendMonths + 1
                           ELSE 1, Len(s))
  BY DEF OccupancyTrends
<1>3. s \in [1 .. n -> S]
  BY DEF SetToSeqs
<1> HIDE DEF S, n
<1>4. Len(s) = n /\ DOMAIN s = 1 .. n /\ \A i \in 1 .. n : s[i] \in S
  BY <1>1, <1>3, FunctionSeq
<1> DEFINE a == IF n > TrendMonths THEN n - TrendMonths + 1 ELSE 1
<1>5. a \in Int /\ a >= 1 /\ t = SubSeq(s, a, n) /\ n \in Int
  BY <1>1, <1>2, <1>4, TrendHasMonths
<1> HIDE DEF a
<1>6. \A i \in a .. n : s[i] \in S
  BY <1>1, <1>4, <1>5
<1>7. /\ t \in Seq(S) /\ Len(t) = (IF a <= n THEN n - a + 1 ELSE 0)
      /\ \A i \in 1 .. n - a + 1 : t[i] = s[a + i - 1]
  BY <1>5, <1>6, SubSeqProperties
<1>8. /\ DOMAIN t = 1 .. Len(t) /\ IsSeq(t)
      /\ \A i \in DOMAIN t : t[i] = s[a + i - 1] /\ a + i - 1 \in 1 .. n
  <2>1. DOMAIN t = 1 .. Len(t) /\ IsSeq(t)
    BY <1>7, SeqOverItsRange
  <2> QED BY <1>1, <1>5, <1>7, <2>1
<1>9. ByMonth(t)
  <2> SUFFICES ASSUME NEW i \in DOMAIN t, NEW j \in DOMAIN t, i < j
               PROVE  t[i].month <= t[j].month
    BY DEF ByMonth
  <2>1. i \in Int /\ j \in Int /\ a + i - 1 < a + j - 1
    BY <1>5, <1>7, <1>8
  <2> QED BY <1>2, <1>4, <1>8, <2>1 DEF ByMonth
<1>10. \A i \in DOMAIN t : t[i] \in S
  BY <1>4, <1>8
<1> QED BY <1>8, <1>9, <1>10, RowsAreFinite DEF IsTrend, S

-----------------------------------------------------------------------------
(* The investigation.                                                       *)

\* Its first observation is the trend, and its only one unless there is a
\* decline.
FirstIsTrend == seen # <<>> => seen[1].tool = Trend /\ IsTrend(seen[1].data)

MonthOfDecline == LargestDecline(seen[1].data).to

OthersFollowDecline ==
    \A i \in DOMAIN seen \ {1} :
        /\ seen[i].tool \in {Vacant, Rent, Search}
        /\ HasDecline(seen[1].data)
        /\ seen[i].tool \in {Vacant, Rent} =>
               \A e \in seen[i].data : MonthOf[e[1]] = MonthOfDecline

\* What is asked for next is asked about the month of the decline.
AskedAboutDecline ==
    asked # NoCall =>
        /\ brief = Pending
        /\ \/ asked.tool = Trend /\ seen = <<>>
           \/ /\ asked.tool \in {Vacant, Rent, Search} /\ seen # <<>>
              /\ HasDecline(seen[1].data)
              /\ asked.tool \in {Vacant, Rent} => asked.month = MonthOfDecline

BriefInv ==
    /\ IsSeq(seen)
    /\ FirstIsTrend /\ OthersFollowDecline /\ AskedAboutDecline
    /\ BriefsAreGrounded /\ BriefsStayOnTheDecline

\* The names of the four tools are different.
LEMMA ToolNames ==
    /\ Trend = "get_occupancy_trend" /\ Vacant = "get_vacant_units"
    /\ Rent = "get_rent_by_unit_type" /\ Search = "search_property_content"
  BY DEF Trend, Vacant, Rent, Search

\* The observations that have been made stay where they are.
LEMMA DataIsFirst ==
    ASSUME IsSeq(seen), FirstIsTrend, OthersFollowDecline, seen # <<>>
    PROVE  /\ Observed(Trend) /\ DataOf(Trend) = seen[1].data
           /\ 1 \in DOMAIN seen
<1>1. 1 \in DOMAIN seen /\ seen[1].tool = Trend
  BY SeqFacts DEF FirstIsTrend
<1>2. \A i \in DOMAIN seen : seen[i].tool = Trend => i = 1
  BY ToolNames DEF OthersFollowDecline
<1> DEFINE first == CHOOSE i \in DOMAIN seen : seen[i].tool = Trend
<1>3. first \in DOMAIN seen /\ seen[first].tool = Trend
  BY <1>1
<1>4. DataOf(Trend) = seen[first].data
  BY DEF DataOf
<1> HIDE DEF first
<1> QED BY <1>1, <1>2, <1>3, <1>4 DEF Observed

LEMMA DataIsAboutDecline ==
    ASSUME IsSeq(seen), FirstIsTrend, OthersFollowDecline,
           NEW tool \in {Vacant, Rent}, Observed(tool)
    PROVE  /\ HasDecline(seen[1].data)
           /\ \A e \in DataOf(tool) : MonthOf[e[1]] = MonthOfDecline
<1> DEFINE place == CHOOSE i \in DOMAIN seen : seen[i].tool = tool
<1>1. place \in DOMAIN seen /\ seen[place].tool = tool
  BY DEF Observed
<1>2. DataOf(tool) = seen[place].data
  BY DEF DataOf
<1> HIDE DEF place
<1>3. place # 1
  <2>1. seen # <<>>
    BY <1>1
  <2> QED BY <1>1, <2>1, ToolNames DEF FirstIsTrend
<1> QED BY <1>1, <1>2, <1>3 DEF OthersFollowDecline

\* What the policy decides to ask for is about the month of the decline.
LEMMA DecidedAboutDecline ==
    ASSUME IsSeq(seen), FirstIsTrend, OthersFollowDecline, Decided # NoCall
    PROVE  \/ Decided.tool = Trend /\ seen = <<>>
           \/ /\ Decided.tool \in {Vacant, Rent, Search} /\ seen # <<>>
              /\ HasDecline(seen[1].data)
              /\ Decided.tool \in {Vacant, Rent} => Decided.month = MonthOfDecline
<1>1. CASE seen = <<>>
  BY <1>1 DEF Decided, Call
<1>2. CASE seen # <<>>
  <2> DEFINE last == Last(seen)
             t == seen[1].data
  <2>1. PICK n \in DOMAIN seen : last = seen[n]
    <3>1. Len(seen) \in DOMAIN seen
      BY <1>2, SeqFacts
    <3> QED BY <3>1 DEF Last
  <2>2. /\ DataOf(Trend) = t
        /\ n # 1 => last.tool \in {Vacant, Rent, Search} /\ HasDecline(t)
        /\ n = 1 => last.tool = Trend /\ last.data = t
    BY <1>2, <2>1, DataIsFirst DEF FirstIsTrend, OthersFollowDecline
  <2>3. CASE last.tool = Trend
    <3>1. last.data = t
      BY <2>2, <2>3, ToolNames
    <3>2. Decided = IF HasDecline(t) THEN Call(Vacant, LargestDecline(t).to) ELSE NoCall
      BY <1>2, <2>3, <3>1, ToolNames DEF Decided
    <3>3. Decided = Call(Vacant, LargestDecline(t).to) /\ HasDecline(t)
      BY <3>2
    <3> QED BY <1>2, <3>3 DEF Call, MonthOfDecline
  <2>4. CASE last.tool # Trend
    <3>1. HasDecline(t)
      BY <2>2, <2>4
    <3>2. Decided \in {Call(Rent, LargestDecline(t).to), Call(Search, NoMonth), NoCall}
      BY <1>2, <2>2, <2>4, ToolNames DEF Decided
    <3>3. CASE Decided = Call(Rent, LargestDecline(t).to)
      BY <1>2, <3>1, <3>3 DEF Call, MonthOfDecline
    <3>4. CASE Decided = Call(Search, NoMonth)
      BY <1>2, <3>1, <3>4, ToolNames DEF Call
    <3> QED BY <3>2, <3>3, <3>4
  <2> QED BY <2>3, <2>4
<1> QED BY <1>1, <1>2

\* A brief is built only after the trend was read.
LEMMA TrendComesFirst == Decided = NoCall => seen # <<>>
<1>1. CASE seen = <<>>
  BY <1>1, ToolNames DEF Decided, Call, NoCall
<1> QED BY <1>1

-----------------------------------------------------------------------------
(* The verifier finds what a brief claims.                                  *)

LEMMA IsCited ==
    ASSUME NEW tool \in {Trend, Vacant, Rent}, Observed(tool)
    PROVE  \E c \in Citations : c.source = tool /\ c.evidence = Evidence(tool)
<1>1. [source |-> tool, chunk |-> 0, evidence |-> Evidence(tool)] \in Citations
  BY DEF Citations
<1> QED BY <1>1

LEMMA ChunkIsCited ==
    ASSUME Chunks # {}
    PROVE  \E c \in Citations : c.source = Search
<1>1. PICK k \in Chunks : TRUE
  OBVIOUS
<1>2. [source |-> Search, chunk |-> k, evidence |-> Evidence(Search)] \in Citations
  BY DEF Citations
<1> QED BY <1>2

\* Sources that are observed and metrics that are in the evidence.
LEMMA FindingIsGrounded ==
    ASSUME NEW id, NEW sources, NEW metrics,
           sources \subseteq {Trend, Vacant, Rent},
           \A s \in sources : Observed(s),
           \A m \in metrics : m.source \in sources /\ m.value \in Evidence(m.source)
    PROVE  Verified({Finding(id, sources, metrics)}, Citations)
<1>1. \A s \in sources : \E c \in Citations : c.source = s /\ c.evidence = Evidence(s)
  BY IsCited
<1>2. \A m \in metrics :
          \E c \in Citations : c.source = m.source /\ m.value \in c.evidence
  BY <1>1
<1> QED BY <1>1, <1>2 DEF Verified, Finding

LEMMA MovementIsGrounded ==
    ASSUME NEW third, third \in TrendEvidence, IsTrend(DataOf(Trend)),
           Usable(DataOf(Trend)) # <<>>
    PROVE  \A m \in Movement(third) : m.source = Trend /\ m.value \in Evidence(Trend)
<1> DEFINE u == Usable(DataOf(Trend))
<1>1. 1 \in DOMAIN u /\ Len(u) \in DOMAIN u
  <2>1. IsSeq(u)
    BY UsableRows
  <2> HIDE DEF u
  <2> QED BY <2>1, SeqFacts DEF u
<1>2. u[1].percentage \in TrendEvidence /\ Last(u).percentage \in TrendEvidence
  BY <1>1 DEF TrendEvidence, Last
<1>3. Evidence(Trend) = TrendEvidence
  BY ToolNames DEF Evidence
<1> HIDE DEF u
<1>4. Movement(third) = {Metric(u[1].percentage, Trend), Metric(Last(u).percentage, Trend),
                         Metric(third, Trend)}
  BY DEF Movement, u
<1> QED BY <1>2, <1>3, <1>4 DEF Metric

Grounded(finding) == Verified({finding}, Citations)

LEMMA AllGrounded ==
    ASSUME NEW findings, \A f \in findings : Grounded(f)
    PROVE  Verified(findings, Citations)
BY DEF Grounded, Verified

LEMMA DeclineIsGrounded ==
    ASSUME IsTrend(DataOf(Trend)), Observed(Trend), HasDecline(DataOf(Trend))
    PROVE  Verified(DeclineFindings, Citations)
<1> DEFINE t == DataOf(Trend)
           movement == Finding("movement", {Trend}, Movement(LargestDecline(t).change))
           amounts == {Metric(a, Trend) : a \in AmountChanges}
           financial == Finding("financial", {Trend}, amounts)
           vacancy == Finding("vacancy", {Vacant} \cup With(Rent, Rent),
                              {Metric(Returned, Vacant)})
           context == Finding("context", {Search}, {})
<1>1. Grounded(movement)
  <2>1. PICK i \in DOMAIN Changes(t) : LargestDecline(t) = Changes(t)[i]
    BY LargestIsLowest, ChangesOfTrend DEF HasDecline
  <2>2. LargestDecline(t) \in ToSet(Changes(t))
    BY <2>1 DEF ToSet
  <2>3. LargestDecline(t).change \in TrendEvidence
    BY <2>2 DEF TrendEvidence
  <2>4. Usable(t) # <<>>
    <3>1. Len(Usable(t)) > 1 /\ Len(Usable(t)) \in Nat
      BY ChangesOfTrend, UsableRows DEF HasDecline
    <3>2. IsSeq(Usable(t))
      BY UsableRows
    <3> QED BY <3>1, <3>2, SeqFacts
  <2> DEFINE metrics == Movement(LargestDecline(t).change)
  <2>5. \A m \in metrics : m.source = Trend /\ m.value \in Evidence(Trend)
    BY <2>3, <2>4, MovementIsGrounded
  <2> HIDE DEF metrics
  <2> QED BY <2>5, FindingIsGrounded DEF Grounded, metrics
<1>2. Grounded(financial)
  <2>1. AmountChanges \subseteq Evidence(Trend)
    BY ToolNames DEF Evidence, TrendEvidence
  <2>2. \A m \in amounts : m.source = Trend /\ m.value \in Evidence(Trend)
    BY <2>1 DEF Metric
  <2> HIDE DEF amounts
  <2> QED BY <2>2, FindingIsGrounded DEF Grounded
<1>3. ASSUME Observed(Vacant) PROVE Grounded(vacancy)
  <2> DEFINE sources == {Vacant} \cup With(Rent, Rent)
             metrics == {Metric(Returned, Vacant)}
  <2>1. sources \subseteq {Trend, Vacant, Rent} /\ \A s \in sources : Observed(s)
    BY <1>3 DEF With
  <2>2. \A m \in metrics : m.source = Vacant /\ m.value \in Evidence(Vacant)
    BY ToolNames DEF Metric, Evidence
  <2>3. Vacant \in sources
    OBVIOUS
  <2> HIDE DEF sources, metrics
  <2> QED BY <2>1, <2>2, <2>3, FindingIsGrounded DEF Grounded, sources, metrics
<1>4. ASSUME Chunks # {} PROVE Grounded(context)
  BY <1>4, ChunkIsCited DEF Grounded, Verified, Finding
<1> HIDE DEF movement, financial, vacancy, context
<1>5. DeclineFindings = {movement, financial} \cup With(Vacant, vacancy)
                        \cup (IF Chunks = {} THEN {} ELSE {context})
  BY DEF DeclineFindings, movement, financial, vacancy, context
<1>6. \A f \in DeclineFindings : Grounded(f)
  BY <1>1, <1>2, <1>3, <1>4, <1>5 DEF With
<1> QED BY <1>6, AllGrounded

LEMMA FindingsAreGrounded ==
    ASSUME IsTrend(DataOf(Trend)), Observed(Trend)
    PROVE  Verified(Findings, Citations)
<1> DEFINE t == DataOf(Trend)
<1>1. CASE Usable(t) = <<>>
  <2>1. Findings = {Finding("no history", {Trend}, {})}
    BY <1>1 DEF Findings
  <2> QED BY <2>1, FindingIsGrounded
<1>2. CASE Usable(t) # <<>> /\ HasDecline(t)
  <2>1. Findings = DeclineFindings
    BY <1>2 DEF Findings
  <2> QED BY <1>2, <2>1, DeclineIsGrounded
<1>3. CASE Usable(t) # <<>> /\ ~HasDecline(t)
  <2> DEFINE metrics == Movement(Overall(t).change)
  <2>1. Findings = {Finding("no decline", {Trend}, metrics)}
    BY <1>3 DEF Findings
  <2>2. Overall(t).change \in TrendEvidence
    BY <1>3 DEF TrendEvidence
  <2>3. \A m \in metrics : m.source = Trend /\ m.value \in Evidence(Trend)
    BY <1>3, <2>2, MovementIsGrounded
  <2> HIDE DEF metrics
  <2> QED BY <2>1, <2>3, FindingIsGrounded
<1> QED BY <1>1, <1>2, <1>3

-----------------------------------------------------------------------------
(* What a brief claims of the trend is so.                                  *)

NoFall(trend, findings) ==
    /\ \A f \in findings : f.id \in {"no history", "no decline"}
    /\ Len(seen) = 1
    /\ \A i, k \in DOMAIN trend :
          i < k /\ NoPercentage \notin {trend[i].percentage, trend[k].percentage}
              => trend[i].percentage <= trend[k].percentage

LargestFall(trend) ==
    \E p \in Fell(trend) :
        /\ \A q \in Fell(trend) : trend[p[2]].percentage - trend[p[1]].percentage
                                  <= trend[q[2]].percentage - trend[q[1]].percentage
        /\ \A tool \in {Vacant, Rent} : Observed(tool) =>
              \A e \in DataOf(tool) : MonthOf[e[1]] = trend[p[2]].month

LEMMA StaysOnTheDecline ==
    BriefsStayOnTheDecline <=>
        (brief.status = "verified" =>
            NoFall(DataOf(Trend), brief.findings) \/ LargestFall(DataOf(Trend)))
BY DEF BriefsStayOnTheDecline, NoFall, LargestFall, Fell

LEMMA FindingsAreTrue ==
    ASSUME IsSeq(seen), FirstIsTrend, OthersFollowDecline, seen # <<>>
    PROVE  NoFall(DataOf(Trend), Findings) \/ LargestFall(DataOf(Trend))
<1> DEFINE t == seen[1].data
<1>1. DataOf(Trend) = t /\ IsTrend(t)
  BY DataIsFirst DEF FirstIsTrend
<1>2. CASE HasDecline(t)
  <2>1. PICK p \in Fell(t) :
            /\ \A q \in Fell(t) :
                   t[p[2]].percentage - t[p[1]].percentage
                       <= t[q[2]].percentage - t[q[1]].percentage
            /\ MonthOfDecline = t[p[2]].month
    BY <1>1, <1>2, DeclineIsLargestFall DEF MonthOfDecline
  <2>2. \A tool \in {Vacant, Rent} : Observed(tool) =>
            \A e \in DataOf(tool) : MonthOf[e[1]] = t[p[2]].month
    BY <2>1, DataIsAboutDecline
  <2> HIDE DEF t
  <2> QED BY <1>1, <2>1, <2>2 DEF LargestFall
<1>3. CASE ~HasDecline(t)
  <2>1. \/ Findings = {Finding("no history", {Trend}, {})}
        \/ Findings = {Finding("no decline", {Trend}, Movement(Overall(t).change))}
    BY <1>1, <1>3 DEF Findings
  <2>2. ASSUME NEW f \in Findings PROVE f.id \in {"no history", "no decline"}
    <3>1. \/ f = Finding("no history", {Trend}, {})
          \/ f = Finding("no decline", {Trend}, Movement(Overall(t).change))
      BY <2>1
    <3>2. CASE f = Finding("no history", {Trend}, {})
      BY <3>2 DEF Finding
    <3>3. CASE f = Finding("no decline", {Trend}, Movement(Overall(t).change))
      BY <3>3 DEF Finding
    <3> QED BY <3>1, <3>2, <3>3
  <2>3. Len(seen) = 1
    <3>1. Len(seen) \in Nat /\ Len(seen) # 0 /\ DOMAIN seen = 1 .. Len(seen)
      BY SeqFacts
    <3>2. 2 \notin DOMAIN seen
      BY <1>3 DEF OthersFollowDecline
    <3> QED BY <3>1, <3>2
  <2>4. ASSUME NEW i \in DOMAIN t, NEW k \in DOMAIN t, i < k,
               NoPercentage \notin {t[i].percentage, t[k].percentage}
        PROVE  t[i].percentage <= t[k].percentage
    <3>1. i \in Given(t) /\ k \in Given(t)
      BY <2>4 DEF Given
    <3> QED BY <1>1, <1>3, <2>4, <3>1, NeverFell
  <2> HIDE DEF t
  <2> QED BY <1>1, <2>2, <2>3, <2>4 DEF NoFall
<1> QED BY <1>2, <1>3

-----------------------------------------------------------------------------
(* The steps.                                                               *)

LEMMA ClaimsStay ==
    ASSUME UNCHANGED seen, NEW findings
    PROVE  /\ NoFall(DataOf(Trend), findings) => NoFall(DataOf(Trend), findings)'
           /\ LargestFall(DataOf(Trend)) => LargestFall(DataOf(Trend))'
<1>1. PICK t : t = DataOf(Trend)
  OBVIOUS
<1>2. DataOf(Trend)' = t
  BY <1>1 DEF DataOf
<1>3. NoFall(t, findings) => NoFall(t, findings)'
  BY DEF NoFall
<1>4. LargestFall(t) => LargestFall(t)'
  <2>1. ASSUME NEW tool
        PROVE  /\ Observed(tool)' <=> Observed(tool)
               /\ DataOf(tool)' = DataOf(tool)
    BY DEF Observed, DataOf
  <2> QED BY <2>1 DEF LargestFall
<1>5. (DataOf(Trend) = t /\ NoFall(t, findings) => NoFall(DataOf(Trend), findings))'
      /\ (DataOf(Trend) = t /\ LargestFall(t) => LargestFall(DataOf(Trend)))'
  OBVIOUS
<1> QED BY <1>1, <1>2, <1>3, <1>4, <1>5

LEMMA ObservedStays ==
    ASSUME BriefInv, UNCHANGED seen
    PROVE  /\ IsSeq(seen)' /\ FirstIsTrend' /\ OthersFollowDecline'
           /\ UNCHANGED brief => BriefsAreGrounded' /\ BriefsStayOnTheDecline'
<1>1. IsSeq(seen)' /\ FirstIsTrend' /\ OthersFollowDecline'
  BY DEF BriefInv, FirstIsTrend, OthersFollowDecline, MonthOfDecline
<1>2. ASSUME UNCHANGED brief PROVE BriefsAreGrounded' /\ BriefsStayOnTheDecline'
  <2>1. PICK found : found = brief.findings
    OBVIOUS
  <2>2. brief.status = "verified" =>
            NoFall(DataOf(Trend), found) \/ LargestFall(DataOf(Trend))
    BY <2>1, StaysOnTheDecline DEF BriefInv
  <2>3. (brief.status = "verified" =>
            NoFall(DataOf(Trend), found) \/ LargestFall(DataOf(Trend)))'
    BY <1>2, <2>2, ClaimsStay
  <2>4. (BriefsStayOnTheDecline <=>
            (brief.status = "verified" =>
                NoFall(DataOf(Trend), brief.findings) \/ LargestFall(DataOf(Trend))))'
    BY StaysOnTheDecline, PTL
  <2>5. BriefsStayOnTheDecline'
    BY <1>2, <2>1, <2>3, <2>4
  <2> QED BY <1>2, <2>5 DEF BriefInv, BriefsAreGrounded
<1> QED BY <1>1, <1>2

LEMMA NothingObserved == BriefInv /\ UNCHANGED briefVars => BriefInv'
<1> SUFFICES ASSUME BriefInv, UNCHANGED briefVars PROVE BriefInv'
  OBVIOUS
<1>1. seen' = seen /\ asked' = asked /\ brief' = brief
  BY DEF briefVars
<1>2. AskedAboutDecline'
  BY <1>1 DEF BriefInv, AskedAboutDecline, MonthOfDecline
<1> QED BY <1>1, <1>2, ObservedStays DEF BriefInv

LEMMA AskNextKeeps == BriefInv /\ AskNext => BriefInv'
<1> SUFFICES ASSUME BriefInv, AskNext PROVE BriefInv'
  OBVIOUS
<1>1. /\ seen' = seen /\ brief' = brief /\ brief = Pending
      /\ asked' = Decided /\ Decided # NoCall
  BY DEF AskNext, Investigating
<1>2. \/ Decided.tool = Trend /\ seen = <<>>
      \/ /\ Decided.tool \in {Vacant, Rent, Search} /\ seen # <<>>
         /\ HasDecline(seen[1].data)
         /\ Decided.tool \in {Vacant, Rent} => Decided.month = MonthOfDecline
  BY <1>1, DecidedAboutDecline DEF BriefInv
<1>3. AskedAboutDecline'
  BY <1>1, <1>2 DEF AskedAboutDecline, MonthOfDecline
<1> QED BY <1>1, <1>3, ObservedStays DEF BriefInv

LEMMA ToolFailsKeeps == BriefInv /\ ToolFails => BriefInv'
<1> SUFFICES ASSUME BriefInv, ToolFails PROVE BriefInv'
  OBVIOUS
<1>1. seen' = seen /\ asked' = NoCall /\ brief' = [status |-> "failed"]
  BY DEF ToolFails
<1>2. AskedAboutDecline'
  BY <1>1 DEF AskedAboutDecline, NoCall
<1>3. brief'.status = "failed"
  BY <1>1
<1>4. BriefsAreGrounded' /\ BriefsStayOnTheDecline'
  BY <1>3 DEF BriefsAreGrounded, BriefsStayOnTheDecline
<1> QED BY <1>1, <1>2, <1>4, ObservedStays DEF BriefInv

LEMMA BuildBriefKeeps == BriefInv /\ BuildBrief => BriefInv'
<1> SUFFICES ASSUME BriefInv, BuildBrief PROVE BriefInv'
  OBVIOUS
<1>1. /\ seen' = seen /\ asked' = asked /\ asked = NoCall /\ seen # <<>>
      /\ brief' = [status |-> IF Verified(Findings, Citations)
                              THEN "verified" ELSE "rejected",
                   findings |-> Findings, citations |-> Citations]
  BY TrendComesFirst DEF BuildBrief
<1>2. Verified(Findings, Citations)
  BY <1>1, DataIsFirst, FindingsAreGrounded DEF BriefInv, FirstIsTrend
<1>3. brief'.status = "verified" /\ brief'.findings = Findings
  BY <1>1, <1>2
<1>4. PICK found : found = Findings
  OBVIOUS
<1>5. NoFall(DataOf(Trend), found) \/ LargestFall(DataOf(Trend))
  BY <1>1, <1>4, FindingsAreTrue DEF BriefInv
<1>6. (NoFall(DataOf(Trend), found) \/ LargestFall(DataOf(Trend)))'
  BY <1>1, <1>5, ClaimsStay
<1>7. BriefsStayOnTheDecline'
  <2>1. (BriefsStayOnTheDecline <=>
            (brief.status = "verified" =>
                NoFall(DataOf(Trend), brief.findings) \/ LargestFall(DataOf(Trend))))'
    BY StaysOnTheDecline, PTL
  <2> QED BY <1>3, <1>4, <1>6, <2>1
<1>8. BriefsAreGrounded'
  BY <1>3 DEF BriefsAreGrounded
<1>9. AskedAboutDecline'
  BY <1>1 DEF AskedAboutDecline, NoCall
<1> QED BY <1>1, <1>7, <1>8, <1>9, ObservedStays DEF BriefInv

\* What a tool answers is a trend, or about the month it was asked about.
LEMMA AnswersAreAbout ==
    ASSUME WholeInv, ReportsInv, NEW data \in Answers
    PROVE  /\ asked.tool = Trend => IsTrend(data)
           /\ asked.tool \in {Vacant, Rent} =>
                  \A e \in data : MonthOf[e[1]] = asked.month
<1>1. CASE asked.tool = Trend
  <2>1. Answers = OccupancyTrends
    BY <1>1, ToolNames DEF Answers
  <2> QED BY <1>1, <2>1, AnswerIsTrend, ToolNames
<1>2. CASE asked.tool = Vacant
  <2>1. data = VacantUnits(asked.month)
    BY <1>2, ToolNames DEF Answers
  <2> QED BY <1>2, <2>1, ToolNames DEF VacantUnits
<1>3. CASE asked.tool = Rent
  <2>1. data = RentByUnitType(asked.month)
    BY <1>3, ToolNames DEF Answers
  <2> QED BY <1>3, <2>1, ToolNames DEF RentByUnitType
<1> QED BY <1>1, <1>2, <1>3

LEMMA ToolReturnsKeeps ==
    WholeInv /\ ReportsInv /\ BriefInv /\ ToolReturns => BriefInv'
<1> SUFFICES ASSUME WholeInv, ReportsInv, BriefInv, ToolReturns PROVE BriefInv'
  OBVIOUS
<1>1. PICK data \in Answers :
          seen' = Append(seen, [tool |-> asked.tool, month |-> asked.month,
                                data |-> data])
  BY DEF ToolReturns
<1>2. asked # NoCall /\ asked' = NoCall /\ brief' = brief /\ brief = Pending
  BY DEF ToolReturns, BriefInv, AskedAboutDecline
<1> DEFINE n == Len(seen)
           t == seen[1].data
           new == [tool |-> asked.tool, month |-> asked.month, data |-> data]
<1>3. /\ IsSeq(seen)' /\ Len(seen') = n + 1 /\ n \in Nat
      /\ \A i \in 1 .. n : seen'[i] = seen[i]
      /\ seen'[n + 1] = new
  BY <1>1, AppendSeq, SeqFacts DEF BriefInv
<1>4. DOMAIN seen = 1 .. n /\ DOMAIN seen' = 1 .. n + 1 /\ (seen = <<>> <=> n = 0)
  <2>1. DOMAIN seen = 1 .. n /\ (seen = <<>> <=> n = 0)
    BY SeqFacts DEF BriefInv
  <2>2. IsSeq(Append(seen, new)) /\ Len(Append(seen, new)) = n + 1
    BY AppendSeq DEF BriefInv
  <2>3. DOMAIN Append(seen, new) = 1 .. n + 1
    BY <2>2, SeqFacts
  <2> QED BY <1>1, <2>1, <2>3
<1>5. new.tool = asked.tool /\ new.data = data
  OBVIOUS
<1>6. /\ asked.tool = Trend => IsTrend(data)
      /\ asked.tool \in {Vacant, Rent} => \A e \in data : MonthOf[e[1]] = asked.month
  BY AnswersAreAbout
<1>7. \/ asked.tool = Trend /\ seen = <<>>
      \/ /\ asked.tool \in {Vacant, Rent, Search} /\ seen # <<>>
         /\ HasDecline(t)
         /\ asked.tool \in {Vacant, Rent} => asked.month = MonthOfDecline
  BY <1>2 DEF BriefInv, AskedAboutDecline
<1> HIDE DEF new, n
<1>8. FirstIsTrend'
  <2>1. CASE seen = <<>>
    <3>1. seen'[1] = new
      BY <1>3, <1>4, <2>1
    <3>2. seen'[1].tool = Trend /\ IsTrend(seen'[1].data)
      BY <1>5, <1>6, <1>7, <2>1, <3>1
    <3> QED BY <3>2 DEF FirstIsTrend
  <2>2. CASE seen # <<>>
    <3>1. seen'[1] = seen[1]
      BY <1>3, <1>4, <2>2
    <3> QED BY <2>2, <3>1 DEF BriefInv, FirstIsTrend
  <2> QED BY <2>1, <2>2
<1>9. OthersFollowDecline'
  <2>1. CASE seen = <<>>
    <3>1. DOMAIN seen' \ {1} = {}
      BY <1>4, <2>1
    <3> QED BY <3>1 DEF OthersFollowDecline
  <2>2. CASE seen # <<>>
    <3>1. seen'[1] = seen[1]
      BY <1>3, <1>4, <2>2
    <3>2. ASSUME NEW i \in DOMAIN seen' \ {1}
          PROVE  /\ seen'[i].tool \in {Vacant, Rent, Search}
                 /\ HasDecline(t)
                 /\ seen'[i].tool \in {Vacant, Rent} =>
                        \A e \in seen'[i].data : MonthOf[e[1]] = LargestDecline(t).to
      <4>1. CASE i \in 1 .. n
        <5>1. i \in DOMAIN seen \ {1} /\ seen'[i] = seen[i]
          BY <1>3, <1>4, <4>1
        <5> QED BY <5>1 DEF BriefInv, OthersFollowDecline, MonthOfDecline
      <4>2. CASE i = n + 1
        <5>1. seen'[i] = new
          BY <1>3, <4>2
        <5> QED BY <1>5, <1>6, <1>7, <2>2, <5>1 DEF MonthOfDecline
      <4> QED BY <1>3, <1>4, <4>1, <4>2
    <3> QED BY <3>1, <3>2 DEF OthersFollowDecline, MonthOfDecline
  <2> QED BY <2>1, <2>2
<1>10. AskedAboutDecline'
  BY <1>2 DEF AskedAboutDecline, NoCall
<1>11. BriefsAreGrounded' /\ BriefsStayOnTheDecline'
  <2>1. brief'.status = "pending"
    BY <1>2 DEF Pending
  <2> QED BY <2>1 DEF BriefsAreGrounded, BriefsStayOnTheDecline
<1> QED BY <1>3, <1>8, <1>9, <1>10, <1>11 DEF BriefInv

LEMMA BriefStep ==
    WholeInv /\ ReportsInv /\ BriefInv /\ [Next]_vars => BriefInv'
<1> SUFFICES ASSUME WholeInv, ReportsInv, BriefInv, [Next]_vars PROVE BriefInv'
  OBVIOUS
<1>1. CASE UNCHANGED briefVars
  BY <1>1, NothingObserved
<1>2. CASE Investigate
  BY <1>2, AskNextKeeps, ToolReturnsKeeps, ToolFailsKeeps, BuildBriefKeeps
     DEF Investigate
<1> QED BY <1>1, <1>2 DEF Next, Loader, Reader, vars

LEMMA BriefBegins == Init => BriefInv
<1> SUFFICES ASSUME Init PROVE BriefInv
  OBVIOUS
<1>1. seen = <<>> /\ asked = NoCall /\ brief = Pending
  BY DEF Init, BriefInit
<1>2. brief.status = "pending"
  BY <1>1 DEF Pending
<1>3. IsSeq(seen) /\ DOMAIN seen = {}
  BY <1>1, NothingIsSeq
<1> QED
  BY <1>1, <1>2, <1>3 DEF BriefInv, FirstIsTrend, OthersFollowDecline,
     AskedAboutDecline, BriefsAreGrounded, BriefsStayOnTheDecline

LEMMA InvestigationHolds == Spec => [](WholeInv /\ FileInv /\ ReportsInv /\ BriefInv)
<1> DEFINE Inv == WholeInv /\ FileInv /\ ReportsInv /\ BriefInv
<1>1. Init => Inv
  BY WholeInit, BlankPage, ReportsInit, BriefBegins DEF Init, FileInit
<1>2. Inv /\ [Next]_vars => Inv'
  BY WholeStep, FileStep, ReportsStep, BriefStep
<1> QED BY <1>1, <1>2, PTL DEF Spec

\* However the tables change between its queries, no brief is rejected by its
\* verifier: every number it states is in the evidence it cites
\* (build_occupancy_investigation_report).
THEOREM BriefsGrounded == Spec => []BriefsAreGrounded
<1>1. BriefInv => BriefsAreGrounded
  BY DEF BriefInv
<1> QED BY <1>1, InvestigationHolds, PTL

\* Trends of any length: a brief that reports no decline saw none, and one that
\* reports a decline has the largest between neighbouring months and cites
\* units and rents of the month it ended in (analyze_occupancy_trend).
THEOREM BriefsOnTheDecline == Spec => []BriefsStayOnTheDecline
<1>1. BriefInv => BriefsStayOnTheDecline
  BY DEF BriefInv
<1> QED BY <1>1, InvestigationHolds, PTL
=============================================================================

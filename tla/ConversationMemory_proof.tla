---------------------- MODULE ConversationMemory_proof ----------------------
(***************************************************************************)
(* Theorems about ConversationMemory for any number of add and get calls   *)
(* and every max_turns: the statements implement ConversationLog, a prompt *)
(* never shows a turn twice, only late turns are skipped, and two attempts *)
(* of _compact are enough.                                                 *)
(***************************************************************************)
EXTENDS ConversationMemory, SequenceIds_proof

Above(S, x) == {u \in S : u > x}

\* Where each call is, and what it has by then.
CallsInPhase ==
    /\ \A a \in Adders :
           /\ pc[a] \in {"ensure_thread", "insert_turn", "commit_turn"} =>
                  attempt[a] = 0
           /\ pc[a] = "commit_turn" => turn[a] # 0
           /\ pc[a] = "get_thread" => attempt[a] <= 1
           /\ pc[a] \in {"list_turns", "update_summary"} => attempt[a] # 0
           /\ pc[a] = "update_summary" => compactable[a] # {}
    /\ \A r \in Readers : pc[r] \in {"get_thread", "list_turns", "done"}

\* A summary of the turns S that ends at x leaves MaxTurns to be shown.
LeavesTurns(S, x) ==
    x = 0 \/ (x \in S /\ Cardinality(Above(S, x)) >= MaxTurns)

SummariesLeaveTurns ==
    /\ LeavesTurns(turns, thread.through)
    /\ \A p \in Calls : LeavesTurns(turns, seen[p].through)
    /\ \A a \in Adders : \A t \in compactable[a] : LeavesTurns(turns, t)

\* summarized_through only grows: its value tells which summary was read.
SeenIsOlder ==
    \A p \in Calls :
        /\ seen[p].through <= thread.through
        /\ seen[p].through = thread.through => seen[p] = thread

\* An update folds all turns up to its last, except those that came late.
FoldsHaveNoGaps ==
    \A a \in Adders : pc[a] = "update_summary" =>
        \A last \in compactable[a] :
            /\ last > seen[a].through
            /\ \A t \in turns : seen[a].through < t /\ t <= last =>
                   t \in compactable[a] \cup late

MemoryInv ==
    /\ TypeOK /\ CallsInPhase /\ SummariesLeaveTurns /\ SeenIsOlder
    /\ FoldsHaveNoGaps /\ HistoryNeverRepeats /\ OnlyLateTurnsAreSkipped

-----------------------------------------------------------------------------
(* Why two attempts are enough.                                            *)

Unfolded == Above(turns, thread.through)

Current(a) == seen[a].through = thread.through

\* A call that stored its turn after the last update and will read it.
Newcomer(a) ==
    \/ pc[a] = "get_thread" /\ attempt[a] = 0
    \/ /\ pc[a] \in {"list_turns", "update_summary"}
       /\ attempt[a] = 1 /\ Current(a)

\* What an update that will succeed leaves behind fits, or somebody came.
UpdatesSuffice ==
    \A c \in Adders : pc[c] = "update_summary" /\ Current(c) =>
        \/ Cardinality(Unfolded \ compactable[c]) <= MaxTurns
        \/ \E d \in Adders \ {c} : Newcomer(d)

\* A call that will list the turns again, or update the summary as it is.
WillCompact(a) ==
    \/ pc[a] = "get_thread"
    \/ /\ pc[a] \in {"list_turns", "update_summary"}
       /\ attempt[a] = 1 \/ Current(a)

SomeoneCompacts ==
    Cardinality(Unfolded) > MaxTurns => \E a \in Adders : WillCompact(a)

CatchUpInv == faults = 0 => UpdatesSuffice /\ SomeoneCompacts

-----------------------------------------------------------------------------
(* Counting the turns of a finite set.                                     *)

LEMMA SameCardinality == \A S : Log!Cardinality(S) = Cardinality(S)
BY DEF Log!Cardinality, Cardinality, Log!IsFiniteSet, IsFiniteSet

\* The turns that _compact folds.
LEMMA CompactableTurns ==
    \A S : Log!Compactable(S) = {t \in S : Cardinality(Above(S, t)) >= MaxTurns}
BY SameCardinality DEF Log!Compactable, Above

LEMMA FewerInSubset ==
    ASSUME NEW S, IsFiniteSet(S), NEW T \in SUBSET S
    PROVE  /\ IsFiniteSet(T) /\ Cardinality(T) \in Nat /\ Cardinality(S) \in Nat
           /\ Cardinality(T) <= Cardinality(S)
BY FS_Subset, FS_CardinalityType

LEMMA AboveIsPart ==
    ASSUME NEW S \in SUBSET Nat, IsFiniteSet(S), NEW e \in Nat
    PROVE  /\ Above(S, e) \in SUBSET S /\ IsFiniteSet(Above(S, e))
           /\ Cardinality(Above(S, e)) \in Nat
BY FewerInSubset DEF Above

\* The rows up to e and the rows above it make up the whole.
LEMMA AboveAndPlace ==
    ASSUME NEW S \in SUBSET Nat, IsFiniteSet(S), NEW e \in S
    PROVE  /\ Cardinality(Above(S, e)) = Cardinality(S) - Place(S, e)
           /\ Cardinality(S) \in Nat /\ Place(S, e) \in 1 .. Cardinality(S)
<1> DEFINE D == {f \in S : f <= e}
<1>1. D \in SUBSET S /\ S \cap D = D
  OBVIOUS
<1>2. Above(S, e) = S \ D
  <2>1. e \in Nat /\ \A f \in S : f \in Nat /\ (f > e <=> ~(f <= e))
    OBVIOUS
  <2> QED BY <2>1 DEF Above
<1> HIDE DEF D
<1>3. Cardinality(S \ D) = Cardinality(S) - Cardinality(D)
  BY <1>1, FS_Difference
<1>4. Place(S, e) = Cardinality(D)
  BY DEF Place, D
<1> QED BY <1>2, <1>3, <1>4, PlaceInRange, FS_CardinalityType

\* A set of more than MaxTurns turns has turns to fold.
LEMMA ManyTurnsAreCompactable ==
    ASSUME NEW S \in SUBSET Nat, IsFiniteSet(S), Cardinality(S) > MaxTurns
    PROVE  Log!Compactable(S) # {}
<1>1. Cardinality(S) \in Nat /\ 1 \in 1 .. Cardinality(S) /\ MaxTurns \in Nat
  BY FS_CardinalityType, TurnsAreKept
<1>2. PICK e \in S : Place(S, e) = 1
  BY <1>1, EveryPlaceIsTaken
<1>3. Cardinality(Above(S, e)) >= MaxTurns
  BY <1>1, <1>2, AboveAndPlace
<1> QED BY <1>3, CompactableTurns

\* What a fold leaves verbatim fits.
LEMMA AtMostMaxTurnsAreLeft ==
    ASSUME NEW S \in SUBSET Nat, IsFiniteSet(S)
    PROVE  Cardinality(S \ Log!Compactable(S)) <= MaxTurns
<1> DEFINE n == Cardinality(S)
           N == S \ Log!Compactable(S)
<1>1. n \in Nat /\ MaxTurns \in Nat
  BY FS_CardinalityType, TurnsAreKept
<1>2. N \in SUBSET S /\ Cardinality(N) \in Nat /\ Cardinality(N) <= n
  BY FewerInSubset
<1>3. CASE n <= MaxTurns
  BY <1>1, <1>2, <1>3
<1>4. CASE n > MaxTurns
  <2>1. n - MaxTurns \in 1 .. n
    BY <1>1, <1>4, TurnsAreKept
  <2>2. PICK e \in S : Place(S, e) = n - MaxTurns
    BY <2>1, EveryPlaceIsTaken
  <2>3. Cardinality(Above(S, e)) = MaxTurns /\ IsFiniteSet(Above(S, e))
    <3>1. Cardinality(Above(S, e)) = n - (n - MaxTurns) /\ IsFiniteSet(Above(S, e))
      BY <2>2, AboveAndPlace, AboveIsPart
    <3> QED BY <1>1, <3>1
  <2>4. N \subseteq Above(S, e)
    <3> SUFFICES ASSUME NEW t \in N, ~(t > e) PROVE FALSE
      BY DEF Above
    <3>1. t \in S /\ ~(Cardinality(Above(S, t)) >= MaxTurns)
      BY CompactableTurns
    <3>2. t \in Nat /\ e \in Nat /\ \A u \in S : u \in Nat
      BY <3>1
    <3>3. \A u \in S : u > e => u > t
      BY <3>2
    <3>4. Above(S, e) \in SUBSET Above(S, t)
      BY <3>3 DEF Above
    <3>5. Cardinality(Above(S, e)) <= Cardinality(Above(S, t))
          /\ Cardinality(Above(S, t)) \in Nat
      BY <3>2, <3>4, AboveIsPart, FewerInSubset
    <3> QED BY <1>1, <2>3, <3>1, <3>5
  <2>5. Cardinality(N) <= Cardinality(Above(S, e))
    BY <2>3, <2>4, FewerInSubset
  <2> QED BY <2>3, <2>5
<1> QED BY <1>1, <1>3, <1>4

LEMMA SameOrder == \A S : Log!InOrder(S) = InOrder(S)
BY DEF Log!InOrder, Log!Place, Log!Cardinality, Log!IsFiniteSet,
       InOrder, Place, Cardinality, IsFiniteSet

\* Folding the turns S into a summary ends it at the last of them.
LEMMA FoldEndsAtLast ==
    ASSUME NEW t \in Thread, NEW S \in SUBSET Nat, IsFiniteSet(S), S # {}
    PROVE  /\ Log!Folded(t, S) \in Thread
           /\ Log!Folded(t, S).through \in S
           /\ \A u \in S : u <= Log!Folded(t, S).through
<1> DEFINE f == Log!Folded(t, S)
           lines == t.summary \o InOrder(S)
           cut == IF Len(lines) > MaxSummary THEN Len(lines) - MaxSummary + 1 ELSE 1
<1>1. f = [summary |-> SubSeq(lines, cut, Len(lines)),
           through |-> CHOOSE last \in S : \A u \in S : u <= last]
  BY SameOrder DEF Log!Folded, Log!Truncated
<1> HIDE DEF f
<1>2. \E last \in S : \A u \in S : u <= last
  <2>1. Cardinality(S) \in Nat /\ Cardinality(S) # 0
    BY FS_CardinalityType, FS_EmptySet
  <2>2. PICK e \in S : Place(S, e) = Cardinality(S)
    BY <2>1, EveryPlaceIsTaken
  <2>3. {d \in S : d <= e} = S
    <3>1. {d \in S : d <= e} \in SUBSET S
      OBVIOUS
    <3> QED BY <2>2, <3>1, FS_Subset DEF Place
  <2> QED BY <2>3
<1>3. f.through \in S /\ \A u \in S : u <= f.through
  <2> DEFINE m == CHOOSE last \in S : \A u \in S : u <= last
  <2>1. m \in S /\ \A u \in S : u <= m
    BY <1>2
  <2> HIDE DEF m
  <2>2. f.through = m
    BY <1>1 DEF m
  <2> QED BY <2>1, <2>2
<1>4. lines \in Seq(Nat)
  <2>1. InOrder(S) \in Seq(S)
    BY InOrderListsRows
  <2>2. Len(InOrder(S)) \in Nat /\ InOrder(S) \in [1 .. Len(InOrder(S)) -> S]
    BY <2>1
  <2>3. InOrder(S) \in [1 .. Len(InOrder(S)) -> Nat]
    BY <2>2
  <2>4. InOrder(S) \in Seq(Nat)
    BY <2>2, <2>3
  <2> QED BY <2>4 DEF Thread
<1> HIDE DEF lines
<1>5. Len(lines) \in Nat /\ cut \in 1 .. Len(lines) + 1
  BY <1>4, SummaryHasRoom
<1> HIDE DEF cut
<1>6. SubSeq(lines, cut, Len(lines)) \in Seq(Nat)
  BY <1>4, <1>5
<1>7. f \in Thread
  <2> DEFINE m == CHOOSE last \in S : \A u \in S : u <= last
             l == SubSeq(lines, cut, Len(lines))
  <2>1. f = [summary |-> l, through |-> m]
    BY <1>1 DEF lines, cut
  <2> HIDE DEF m, l
  <2>2. m \in Nat
    BY <1>3, <2>1
  <2> QED BY <1>6, <2>1, <2>2 DEF Thread, l
<1> QED BY <1>3, <1>7 DEF f

-----------------------------------------------------------------------------
(* MemoryInv is inductive.                                                 *)

\* What the types say of the stored turns and of the calls.
LEMMA TurnsAreFinite ==
    ASSUME TypeOK
    PROVE  /\ turns \in SUBSET Nat /\ IsFiniteSet(turns) /\ 0 \notin turns
           /\ \A a \in Adders : compactable[a] \in SUBSET turns
           /\ \A a \in Adders : IsFiniteSet(compactable[a])
           /\ \A p \in Calls : seen[p] \in Thread /\ seen[p].through \in Nat
           /\ thread \in Thread /\ thread.through \in Nat
<1>1. turns \subseteq 1 .. lastId /\ lastId \in Nat
  BY DEF TypeOK
<1>2. IsFiniteSet(1 .. lastId)
  BY <1>1, FS_Interval
<1>3. IsFiniteSet(turns)
  BY <1>1, <1>2, FS_Subset
<1>4. \A a \in Adders : compactable[a] \in SUBSET turns
  BY DEF TypeOK
<1>5. \A a \in Adders : IsFiniteSet(compactable[a])
  BY <1>3, <1>4, FS_Subset
<1> QED BY <1>1, <1>3, <1>4, <1>5 DEF TypeOK, Thread

\* More turns leave no fewer to be shown.
LEMMA LeavesMore ==
    ASSUME NEW S, NEW T, IsFiniteSet(T), S \subseteq T,
           NEW x, LeavesTurns(S, x)
    PROVE  LeavesTurns(T, x)
<1>1. Above(S, x) \subseteq Above(T, x) /\ Above(T, x) \in SUBSET T
  BY DEF Above
<1>2. IsFiniteSet(Above(T, x))
  BY <1>1, FS_Subset
<1>3. /\ Cardinality(Above(S, x)) \in Nat /\ Cardinality(Above(T, x)) \in Nat
      /\ Cardinality(Above(S, x)) <= Cardinality(Above(T, x))
  BY <1>1, <1>2, FewerInSubset
<1> QED BY <1>3, TurnsAreKept DEF LeavesTurns

\* The statements of a call, and what moving on leaves alone.
Statements ==
    {"ensure_thread", "insert_turn", "commit_turn",
     "get_thread", "list_turns", "update_summary", "done"}

LEMMA GotoMoves ==
    ASSUME TypeOK, NEW p \in Calls, NEW next \in Statements, Goto(p, next)
    PROVE  /\ pc'[p] = next
           /\ \A q \in Calls : q # p => pc'[q] = pc[q]
           /\ pc' \in [Calls -> Statements]
<1>1. pc \in [Calls -> Statements]
  BY DEF TypeOK, Statements
<1> QED BY <1>1 DEF Goto

LEMMA AddersAreNotReaders ==
    /\ \A a \in Adders : a \in Calls /\ a \notin Readers
    /\ \A r \in Readers : r \in Calls /\ r \notin Adders
BY CallsAreDistinct DEF Calls

LEMMA MemoryInit == Init => MemoryInv
<1> SUFFICES ASSUME Init PROVE MemoryInv
  OBVIOUS
<1>1. Log!NoThread \in Thread /\ Log!NoThread.through = 0
  BY DEF Log!NoThread, Thread
<1>2. TypeOK
  <2>1. /\ pc \in [Calls -> Statements] /\ turn \in [Adders -> 0 .. lastId]
        /\ attempt \in [Adders -> 0 .. 2] /\ seen \in [Calls -> Thread]
        /\ compactable \in [Adders -> SUBSET turns]
    BY <1>1 DEF Init, Statements
  <2>2. history \in [Readers -> [thread : Thread, turns : SUBSET turns]]
    BY <1>1 DEF Init, NoHistory
  <2>3. ensured = FALSE /\ thread = Log!NoThread /\ turns = {} /\ lastId = 0
    BY DEF Init
  <2>4. late = {} /\ folded = {} /\ faults = 0
    BY DEF Init
  <2>5. faults \in 0 .. MaxFaults
    BY <2>4, FaultsAreBounded
  <2>6. ensured \in BOOLEAN
    BY <2>3
  <2> QED BY <1>1, <2>1, <2>2, <2>3, <2>4, <2>5, <2>6 DEF TypeOK, Statements
<1>3. CallsInPhase
  BY AddersAreNotReaders DEF Init, CallsInPhase
<1> QED
  BY <1>1, <1>2, <1>3 DEF Init, MemoryInv, SummariesLeaveTurns, LeavesTurns,
     SeenIsOlder, FoldsHaveNoGaps, HistoryNeverRepeats, OnlyLateTurnsAreSkipped,
     NoHistory, Calls

\* A step that leaves the rows and the calls' locals alone.
LEMMA RestKeeps ==
    ASSUME MemoryInv,
           UNCHANGED <<thread, turns, seen, compactable, history, late, folded>>,
           \A a \in Adders : pc'[a] = "update_summary" => pc[a] = "update_summary"
    PROVE  /\ SummariesLeaveTurns' /\ SeenIsOlder' /\ FoldsHaveNoGaps'
           /\ HistoryNeverRepeats' /\ OnlyLateTurnsAreSkipped'
BY DEF MemoryInv, SummariesLeaveTurns, SeenIsOlder, FoldsHaveNoGaps,
       HistoryNeverRepeats, OnlyLateTurnsAreSkipped

LEMMA EnsureKeeps ==
    ASSUME MemoryInv, NEW a \in Adders, EnsureThread(a)
    PROVE  MemoryInv'
<1> USE DEF EnsureThread
<1>2. /\ pc'[a] = "insert_turn" /\ pc' \in [Calls -> Statements]
      /\ \A q \in Calls : q # a => pc'[q] = pc[q]
  BY GotoMoves, AddersAreNotReaders DEF MemoryInv, Statements
<1>1. TypeOK'
  BY <1>2 DEF MemoryInv, TypeOK, Statements
<1>3. CallsInPhase'
  BY <1>2, AddersAreNotReaders DEF MemoryInv, CallsInPhase
<1>4. \A b \in Adders : pc'[b] = "update_summary" => pc[b] = "update_summary"
  BY <1>2, AddersAreNotReaders
<1> QED BY <1>1, <1>3, <1>4, RestKeeps DEF MemoryInv

LEMMA InsertKeeps ==
    ASSUME MemoryInv, NEW a \in Adders, InsertTurn(a)
    PROVE  MemoryInv'
<1> USE DEF InsertTurn
<1>1. /\ lastId \in Nat /\ lastId' = lastId + 1 /\ turns \subseteq 1 .. lastId
      /\ turn \in [Adders -> 0 .. lastId]
  BY DEF MemoryInv, TypeOK
<1>2. turns \subseteq 1 .. lastId' /\ turn' \in [Adders -> 0 .. lastId'] /\ turn'[a] # 0
  BY <1>1
<1>4. /\ pc'[a] = "commit_turn" /\ pc' \in [Calls -> Statements]
      /\ \A q \in Calls : q # a => pc'[q] = pc[q]
  BY GotoMoves, AddersAreNotReaders DEF MemoryInv, Statements
<1>3. TypeOK'
  BY <1>1, <1>2, <1>4 DEF MemoryInv, TypeOK, Statements
<1>5. CallsInPhase'
  BY <1>1, <1>2, <1>4, AddersAreNotReaders DEF MemoryInv, CallsInPhase
<1>6. \A b \in Adders : pc'[b] = "update_summary" => pc[b] = "update_summary"
  BY <1>4, AddersAreNotReaders
<1> QED BY <1>3, <1>5, <1>6, RestKeeps DEF MemoryInv

\* A turn that commits below the summary, or below a fold under way, is late.
LEMMA CommitKeeps ==
    ASSUME MemoryInv, NEW a \in Adders, CommitTurn(a)
    PROVE  MemoryInv'
<1> USE DEF CommitTurn
<1> DEFINE n == turn[a]
<1>1. /\ n \in 1 .. lastId /\ lastId \in Nat /\ turns \subseteq 1 .. lastId
      /\ turns' = turns \cup {n}
  BY DEF MemoryInv, TypeOK, CallsInPhase
<1>2. late \subseteq late' /\ late' \subseteq turns' /\ ((\E t \in turns : t > n) => n \in late')
  BY DEF MemoryInv, TypeOK
<1>3. /\ pc'[a] = "get_thread" /\ pc' \in [Calls -> Statements]
      /\ \A q \in Calls : q # a => pc'[q] = pc[q]
  BY GotoMoves, AddersAreNotReaders DEF MemoryInv, Statements
<1>4. UNCHANGED <<ensured, thread, lastId, turn, attempt, seen, compactable,
                  history, folded, faults>>
  OBVIOUS
<1> HIDE DEF n
<1>5. TypeOK'
  <2>1. turns' \subseteq 1 .. lastId' /\ turns \subseteq turns'
    BY <1>1, <1>4
  <2>2. /\ compactable' \in [Adders -> SUBSET turns']
        /\ history' \in [Readers -> [thread : Thread, turns : SUBSET turns']]
    BY <1>4, <2>1 DEF MemoryInv, TypeOK
  <2> QED BY <1>2, <1>3, <1>4, <2>1, <2>2 DEF MemoryInv, TypeOK, Statements
<1>6. CallsInPhase'
  BY <1>3, <1>4, AddersAreNotReaders DEF MemoryInv, CallsInPhase
<1>7. IsFiniteSet(turns') /\ turns \subseteq turns'
  BY <1>1, TurnsAreFinite, FS_AddElement DEF MemoryInv
<1>8. SummariesLeaveTurns'
  BY <1>4, <1>7, LeavesMore DEF MemoryInv, SummariesLeaveTurns
<1>9. ASSUME NEW u \in turns, n <= u PROVE n \in turns \cup late'
  BY <1>1, <1>2, <1>9
<1>10. FoldsHaveNoGaps'
  <2> SUFFICES ASSUME NEW b \in Adders, pc[b] = "update_summary",
                      NEW last \in compactable[b], NEW t \in turns \cup {n},
                      seen[b].through < t, t <= last
               PROVE  last > seen[b].through /\ t \in compactable[b] \cup late'
    <3>1. \A b \in Adders : pc'[b] = "update_summary" => pc[b] = "update_summary"
      BY <1>3, AddersAreNotReaders
    <3>2. \A b \in Adders : pc[b] = "update_summary" =>
              \A last \in compactable[b] : last > seen[b].through
      BY DEF MemoryInv, FoldsHaveNoGaps
    <3> QED BY <1>1, <1>4, <3>1, <3>2 DEF FoldsHaveNoGaps
  <2>1. last \in turns
    BY DEF MemoryInv, TypeOK
  <2>2. t \in turns => t \in compactable[b] \cup late
    BY DEF MemoryInv, FoldsHaveNoGaps
  <2>3. t = n => t \in turns \cup late'
    BY <1>9, <2>1
  <2> QED BY <1>2, <2>2, <2>3 DEF MemoryInv, FoldsHaveNoGaps
<1>11. OnlyLateTurnsAreSkipped'
  <2> SUFFICES ASSUME NEW t \in turns \cup {n}, t <= thread.through
               PROVE  t \in folded \cup late'
    BY <1>1, <1>4 DEF OnlyLateTurnsAreSkipped
  <2>1. t \in turns => t \in folded \cup late
    BY DEF MemoryInv, OnlyLateTurnsAreSkipped
  <2>2. CASE t = n
    <3>1. thread.through \in turns
      BY <1>1, <2>2 DEF MemoryInv, SummariesLeaveTurns, LeavesTurns
    <3> QED BY <1>2, <1>9, <2>1, <2>2, <3>1
  <2> QED BY <1>2, <2>1, <2>2
<1> QED
  BY <1>4, <1>5, <1>6, <1>8, <1>10, <1>11 DEF MemoryInv, SeenIsOlder,
     HistoryNeverRepeats

LEMMA GetThreadKeeps ==
    ASSUME MemoryInv, NEW a \in Adders, GetThread(a)
    PROVE  MemoryInv'
<1> USE DEF GetThread
<1>1. /\ pc'[a] = "list_turns" /\ pc' \in [Calls -> Statements]
      /\ \A q \in Calls : q # a => pc'[q] = pc[q]
  BY GotoMoves, AddersAreNotReaders DEF MemoryInv, Statements
<1>2. /\ attempt \in [Adders -> 0 .. 2] /\ attempt[a] <= 1
      /\ attempt' = [attempt EXCEPT ![a] = attempt[a] + 1]
      /\ seen \in [Calls -> Thread] /\ thread \in Thread /\ a \in Calls
      /\ seen' = [seen EXCEPT ![a] = thread]
  BY AddersAreNotReaders DEF MemoryInv, TypeOK, CallsInPhase
<1>3. /\ attempt' \in [Adders -> 0 .. 2] /\ attempt'[a] # 0
      /\ \A b \in Adders : b # a => attempt'[b] = attempt[b]
  BY <1>2
<1>4. /\ seen' \in [Calls -> Thread] /\ seen'[a] = thread
      /\ \A p \in Calls : p # a => seen'[p] = seen[p]
  BY <1>2
<1>5. TypeOK'
  BY <1>1, <1>3, <1>4 DEF MemoryInv, TypeOK, Statements
<1>6. CallsInPhase'
  BY <1>1, <1>3, AddersAreNotReaders DEF MemoryInv, CallsInPhase
<1>7. SummariesLeaveTurns'
  BY <1>4 DEF MemoryInv, SummariesLeaveTurns
<1>8. SeenIsOlder'
  BY <1>4, TurnsAreFinite DEF MemoryInv, SeenIsOlder
<1>9. FoldsHaveNoGaps'
  BY <1>1, <1>4, AddersAreNotReaders DEF MemoryInv, FoldsHaveNoGaps
<1> QED
  BY <1>5, <1>6, <1>7, <1>8, <1>9 DEF MemoryInv, HistoryNeverRepeats,
     OnlyLateTurnsAreSkipped

\* What a fold takes leaves MaxTurns turns, and takes all turns before it.
LEMMA ListedTurns ==
    ASSUME MemoryInv, NEW a \in Adders
    PROVE  LET C == OlderTurns(Unsummarized(a))
           IN  /\ C \in SUBSET turns
               /\ \A last \in C : LeavesTurns(turns, last) /\ last > seen[a].through
               /\ \A last \in C, t \in turns :
                      seen[a].through < t /\ t <= last => t \in C
<1> DEFINE U == Unsummarized(a)
           C == OlderTurns(U)
<1>1. U = {t \in turns : t > seen[a].through}
  BY DEF Unsummarized
<1>2. C = {t \in U : Cardinality(Above(U, t)) >= MaxTurns}
  BY CompactableTurns DEF OlderTurns
<1>3. turns \in SUBSET Nat /\ IsFiniteSet(turns) /\ seen[a].through \in Nat
  BY TurnsAreFinite, AddersAreNotReaders DEF MemoryInv
<1>4. U \in SUBSET turns /\ IsFiniteSet(U) /\ U \in SUBSET Nat
  BY <1>1, <1>3, FS_Subset
<1> HIDE DEF U, C
<1>5. ASSUME NEW last \in C PROVE LeavesTurns(turns, last) /\ last > seen[a].through
  <2>1. LeavesTurns(U, last)
    BY <1>2 DEF LeavesTurns
  <2> QED BY <1>1, <1>2, <1>3, <1>4, <2>1, LeavesMore
<1>6. ASSUME NEW last \in C, NEW t \in turns, seen[a].through < t, t <= last
      PROVE  t \in C
  <2>1. t \in U
    BY <1>1, <1>3, <1>6
  <2>2. t \in Nat /\ last \in Nat /\ last \in U /\ \A u \in U : u \in Nat
    BY <1>2, <1>3, <1>4
  <2>3. \A u \in U : u > last => u > t
    BY <1>6, <2>2
  <2>4. Above(U, last) \in SUBSET Above(U, t)
    BY <2>3 DEF Above
  <2>5. /\ Cardinality(Above(U, last)) <= Cardinality(Above(U, t))
        /\ Cardinality(Above(U, last)) \in Nat /\ Cardinality(Above(U, t)) \in Nat
    BY <1>4, <2>2, <2>4, AboveIsPart, FewerInSubset
  <2>6. Cardinality(Above(U, t)) >= MaxTurns
    BY <1>2, <2>5, TurnsAreKept
  <2> QED BY <1>2, <2>1, <2>6
<1>7. C \in SUBSET turns
  BY <1>2, <1>4
<1> QED BY <1>5, <1>6, <1>7 DEF C, U

LEMMA ListTurnsKeeps ==
    ASSUME MemoryInv, NEW a \in Adders, ListTurns(a)
    PROVE  MemoryInv'
<1> USE DEF ListTurns
<1> DEFINE C == OlderTurns(Unsummarized(a))
<1>1. /\ C \in SUBSET turns
      /\ \A last \in C : LeavesTurns(turns, last) /\ last > seen[a].through
      /\ \A last \in C, t \in turns : seen[a].through < t /\ t <= last => t \in C
  BY ListedTurns
<1> HIDE DEF C
<1>2. /\ compactable \in [Adders -> SUBSET turns]
      /\ compactable' = [compactable EXCEPT ![a] = C]
  BY DEF MemoryInv, TypeOK, C
<1>3. /\ compactable' \in [Adders -> SUBSET turns] /\ compactable'[a] = C
      /\ \A b \in Adders : b # a => compactable'[b] = compactable[b]
  BY <1>1, <1>2
<1>4. /\ pc'[a] \in {"done", "update_summary"} /\ pc' \in [Calls -> Statements]
      /\ pc'[a] = "update_summary" => C # {}
      /\ \A q \in Calls : q # a => pc'[q] = pc[q]
  <2> DEFINE next == IF compactable'[a] = {} THEN "done" ELSE "update_summary"
  <2>1. next \in Statements /\ Goto(a, next)
    BY DEF Statements
  <2>2. next = "update_summary" => C # {}
    BY <1>3
  <2>3. next \in {"done", "update_summary"}
    OBVIOUS
  <2> HIDE DEF next
  <2> QED BY <2>1, <2>2, <2>3, GotoMoves, AddersAreNotReaders DEF MemoryInv
<1>5. UNCHANGED <<ensured, thread, turns, lastId, turn, attempt, seen,
                  history, late, folded, faults>>
  OBVIOUS
<1>6. TypeOK'
  BY <1>3, <1>4, <1>5 DEF MemoryInv, TypeOK, Statements
<1>7. CallsInPhase'
  BY <1>3, <1>4, <1>5, AddersAreNotReaders DEF MemoryInv, CallsInPhase
<1>8. SummariesLeaveTurns'
  BY <1>1, <1>3, <1>5 DEF MemoryInv, SummariesLeaveTurns
<1>9. FoldsHaveNoGaps'
  <2> SUFFICES ASSUME NEW b \in Adders, pc'[b] = "update_summary",
                      NEW last \in compactable'[b]
               PROVE  /\ last > seen[b].through
                      /\ \A t \in turns : seen[b].through < t /\ t <= last =>
                             t \in compactable'[b] \cup late
    BY <1>5 DEF FoldsHaveNoGaps
  <2>1. CASE b = a
    BY <1>1, <1>3, <2>1
  <2>2. CASE b # a
    BY <1>3, <1>4, <2>2, AddersAreNotReaders DEF MemoryInv, FoldsHaveNoGaps
  <2> QED BY <2>1, <2>2
<1> QED
  BY <1>5, <1>6, <1>7, <1>8, <1>9 DEF MemoryInv, SeenIsOlder,
     HistoryNeverRepeats, OnlyLateTurnsAreSkipped

\* What an update that succeeds does: it folds its turns into the summary as
\* it is, and the summary ends later than any that was read before.
LEMMA UpdateFolds ==
    ASSUME MemoryInv, NEW a \in Adders, pc[a] = "update_summary",
           SummaryIsCurrent(a)
    PROVE  /\ seen[a] = thread
           /\ Extended(a) = Log!Folded(thread, compactable[a])
           /\ Extended(a) \in Thread
           /\ Extended(a).through \in compactable[a]
           /\ \A t \in compactable[a] : t <= Extended(a).through
           /\ thread.through < Extended(a).through
           /\ Extended(a).through \in Nat
<1>1. seen[a] = thread
  BY AddersAreNotReaders DEF MemoryInv, SeenIsOlder, SummaryIsCurrent
<1>2. Extended(a) = Log!Folded(thread, compactable[a])
  BY <1>1 DEF Extended
<1> DEFINE C == compactable[a]
<1>3. /\ C \in SUBSET Nat /\ IsFiniteSet(C) /\ C # {} /\ thread \in Thread
      /\ thread.through \in Nat
  BY TurnsAreFinite DEF MemoryInv, CallsInPhase
<1> HIDE DEF C
<1>4. /\ Log!Folded(thread, C) \in Thread
      /\ Log!Folded(thread, C).through \in C
      /\ \A u \in C : u <= Log!Folded(thread, C).through
  BY <1>3, FoldEndsAtLast
<1>5. \A t \in C : t > thread.through
  BY <1>1 DEF MemoryInv, FoldsHaveNoGaps, C
<1>6. thread.through < Log!Folded(thread, C).through
  BY <1>3, <1>4, <1>5
<1> QED BY <1>1, <1>2, <1>3, <1>4, <1>6 DEF C

LEMMA UpdateKeeps ==
    ASSUME MemoryInv, NEW a \in Adders, UpdateSummary(a)
    PROVE  MemoryInv'
<1> USE DEF UpdateSummary
<1>1. UNCHANGED <<ensured, turns, lastId, turn, attempt, seen, compactable,
                  history, late, faults>>
  OBVIOUS
<1>2. /\ pc'[a] \in {"done", "get_thread"} /\ pc' \in [Calls -> Statements]
      /\ \A q \in Calls : q # a => pc'[q] = pc[q]
      /\ pc'[a] = "get_thread" => attempt[a] <= 1
  <2>1. PICK next \in {"done", "get_thread"} :
            Goto(a, next) /\ (next = "get_thread" => MayRetry(a))
    OBVIOUS
  <2>2. next = "get_thread" => attempt[a] <= 1
    BY <2>1 DEF MayRetry, MemoryInv, TypeOK
  <2>3. next \in Statements
    BY DEF Statements
  <2> QED BY <2>1, <2>2, <2>3, GotoMoves, AddersAreNotReaders DEF MemoryInv
<1>3. CallsInPhase'
  BY <1>1, <1>2, AddersAreNotReaders DEF MemoryInv, CallsInPhase
<1>4. \A b \in Adders : pc'[b] = "update_summary" => pc[b] = "update_summary"
  BY <1>2, AddersAreNotReaders
<1>5. CASE SummaryIsCurrent(a)
  <2> DEFINE last == Extended(a).through
  <2>1. thread' = Extended(a) /\ folded' = folded \cup compactable[a]
    BY <1>5
  <2>2. /\ Extended(a) \in Thread /\ last \in compactable[a] /\ last \in Nat
        /\ thread.through < last /\ \A t \in compactable[a] : t <= last
        /\ seen[a] = thread
    BY <1>5, UpdateFolds
  <2>3. thread' \in Thread /\ thread'.through = last
    BY <2>1, <2>2
  <2> HIDE DEF last
  <2>4. folded' \subseteq turns
    BY <2>1 DEF MemoryInv, TypeOK
  <2>5. TypeOK'
    BY <1>1, <1>2, <2>3, <2>4 DEF MemoryInv, TypeOK, Statements
  <2>6. SummariesLeaveTurns'
    BY <1>1, <2>2, <2>3 DEF MemoryInv, SummariesLeaveTurns
  <2>7. SeenIsOlder'
    <3>1. ASSUME NEW p \in Calls PROVE seen[p].through < last
      <4>1. seen[p].through <= thread.through
        BY DEF MemoryInv, SeenIsOlder
      <4>2. seen[p].through \in Nat /\ thread.through \in Nat
        BY TurnsAreFinite DEF MemoryInv
      <4> QED BY <2>2, <4>1, <4>2
    <3>2. \A p \in Calls : seen[p].through \in Nat
      BY TurnsAreFinite DEF MemoryInv
    <3> QED BY <1>1, <2>2, <2>3, <3>1, <3>2 DEF SeenIsOlder
  <2>8. FoldsHaveNoGaps'
    BY <1>1, <1>4 DEF MemoryInv, FoldsHaveNoGaps
  <2>9. OnlyLateTurnsAreSkipped'
    <3> SUFFICES ASSUME NEW t \in turns, t <= last PROVE t \in folded' \cup late
      BY <1>1, <2>3 DEF OnlyLateTurnsAreSkipped
    <3>1. t \in Nat /\ thread.through \in Nat
      BY TurnsAreFinite DEF MemoryInv
    <3>2. CASE t <= thread.through
      BY <2>1, <3>2 DEF MemoryInv, OnlyLateTurnsAreSkipped
    <3>3. CASE thread.through < t
      BY <2>1, <2>2, <3>3 DEF MemoryInv, FoldsHaveNoGaps
    <3> QED BY <3>1, <3>2, <3>3
  <2> QED
    BY <1>1, <1>3, <2>5, <2>6, <2>7, <2>8, <2>9 DEF MemoryInv, HistoryNeverRepeats
<1>6. CASE ~SummaryIsCurrent(a)
  <2>1. UNCHANGED <<thread, folded>>
    BY <1>6
  <2>2. TypeOK'
    BY <1>1, <1>2, <2>1 DEF MemoryInv, TypeOK, Statements
  <2> QED BY <1>1, <1>3, <1>4, <2>1, <2>2, RestKeeps DEF MemoryInv
<1> QED BY <1>5, <1>6

LEMMA ReadThreadKeeps ==
    ASSUME MemoryInv, NEW r \in Readers, ReadThread(r)
    PROVE  MemoryInv'
<1> USE DEF ReadThread
<1>1. /\ pc'[r] \in {"list_turns", "done"} /\ pc' \in [Calls -> Statements]
      /\ \A q \in Calls : q # r => pc'[q] = pc[q]
  <2>1. PICK next \in {"list_turns", "done"} : Goto(r, next)
    OBVIOUS
  <2>2. next \in Statements
    BY DEF Statements
  <2> QED BY <2>1, <2>2, GotoMoves, AddersAreNotReaders DEF MemoryInv
<1>2. /\ seen \in [Calls -> Thread] /\ thread \in Thread /\ r \in Calls
      /\ seen' = [seen EXCEPT ![r] = thread]
  BY AddersAreNotReaders DEF MemoryInv, TypeOK
<1>3. /\ seen' \in [Calls -> Thread] /\ seen'[r] = thread
      /\ \A p \in Calls : p # r => seen'[p] = seen[p]
  BY <1>2
<1>4. TypeOK'
  BY <1>1, <1>3 DEF MemoryInv, TypeOK, Statements
<1>5. CallsInPhase'
  BY <1>1, AddersAreNotReaders DEF MemoryInv, CallsInPhase
<1>6. SummariesLeaveTurns'
  BY <1>3 DEF MemoryInv, SummariesLeaveTurns
<1>7. SeenIsOlder'
  BY <1>3, TurnsAreFinite DEF MemoryInv, SeenIsOlder
<1>8. FoldsHaveNoGaps'
  BY <1>1, <1>3, AddersAreNotReaders DEF MemoryInv, FoldsHaveNoGaps
<1> QED
  BY <1>4, <1>5, <1>6, <1>7, <1>8 DEF MemoryInv, HistoryNeverRepeats,
     OnlyLateTurnsAreSkipped

\* The turns of a prompt are newer than the last MaxTurns of any summary.
LEMMA ReadTurnsKeeps ==
    ASSUME MemoryInv, NEW r \in Readers, ReadTurns(r)
    PROVE  MemoryInv'
<1> USE DEF ReadTurns
<1>1. /\ pc'[r] = "done" /\ pc' \in [Calls -> Statements]
      /\ \A q \in Calls : q # r => pc'[q] = pc[q]
  BY GotoMoves, AddersAreNotReaders DEF MemoryInv, Statements
<1> DEFINE N == Newest(turns)
           h == [thread |-> seen[r], turns |-> N]
<1>2. N = turns \ {t \in turns : Cardinality(Above(turns, t)) >= MaxTurns}
  BY CompactableTurns DEF Newest
<1>3. /\ history \in [Readers -> [thread : Thread, turns : SUBSET turns]]
      /\ history' = [history EXCEPT ![r] = h] /\ seen[r] \in Thread
  BY AddersAreNotReaders DEF MemoryInv, TypeOK
<1>4. \A t \in N : t > seen[r].through
  <2> SUFFICES ASSUME NEW t \in N, ~(t > seen[r].through) PROVE FALSE
    OBVIOUS
  <2> DEFINE x == seen[r].through
  <2>1. /\ turns \in SUBSET Nat /\ IsFiniteSet(turns) /\ 0 \notin turns
        /\ x \in Nat
    BY TurnsAreFinite, AddersAreNotReaders DEF MemoryInv
  <2>2. t \in turns /\ t \in Nat /\ t # 0 /\ ~(Cardinality(Above(turns, t)) >= MaxTurns)
    BY <1>2, <2>1
  <2>3. x # 0 /\ LeavesTurns(turns, x)
    BY <2>1, <2>2, AddersAreNotReaders DEF MemoryInv, SummariesLeaveTurns
  <2>4. t <= x
    BY <2>1, <2>2
  <2> HIDE DEF x
  <2>5. ASSUME NEW u \in turns, u > x PROVE u > t
    <3>1. u \in Nat
      BY <2>1
    <3> QED BY <2>1, <2>2, <2>4, <2>5, <3>1
  <2>6. Above(turns, x) \in SUBSET Above(turns, t)
    BY <2>5 DEF Above
  <2>7. /\ Cardinality(Above(turns, x)) <= Cardinality(Above(turns, t))
        /\ Cardinality(Above(turns, x)) \in Nat /\ Cardinality(Above(turns, t)) \in Nat
    BY <2>1, <2>2, <2>6, AboveIsPart, FewerInSubset
  <2> QED BY <2>2, <2>3, <2>7, TurnsAreKept DEF LeavesTurns
<1>5. h \in [thread : Thread, turns : SUBSET turns]
  BY <1>2, <1>3
<1>6. h.thread = seen[r] /\ h.turns = N
  OBVIOUS
<1> HIDE DEF h, N
<1>7. /\ history' \in [Readers -> [thread : Thread, turns : SUBSET turns]]
      /\ history'[r] = h /\ \A q \in Readers : q # r => history'[q] = history[q]
  BY <1>3, <1>5
<1>8. TypeOK'
  BY <1>1, <1>7 DEF MemoryInv, TypeOK, Statements
<1>9. CallsInPhase'
  BY <1>1, AddersAreNotReaders DEF MemoryInv, CallsInPhase
<1>10. HistoryNeverRepeats'
  BY <1>4, <1>6, <1>7 DEF MemoryInv, HistoryNeverRepeats
<1>11. FoldsHaveNoGaps'
  BY <1>1, AddersAreNotReaders DEF MemoryInv, FoldsHaveNoGaps
<1> QED
  BY <1>8, <1>9, <1>10, <1>11 DEF MemoryInv, SummariesLeaveTurns, SeenIsOlder,
     OnlyLateTurnsAreSkipped

LEMMA FaultKeeps ==
    ASSUME MemoryInv, NEW p \in Calls, StatementFails(p)
    PROVE  MemoryInv'
<1> USE DEF StatementFails
<1>1. /\ pc'[p] = "done" /\ pc' \in [Calls -> Statements]
      /\ \A q \in Calls : q # p => pc'[q] = pc[q]
  BY GotoMoves DEF MemoryInv, Statements
<1>2. faults' \in 0 .. MaxFaults
  BY FaultsAreBounded DEF MemoryInv, TypeOK
<1>3. TypeOK'
  BY <1>1, <1>2 DEF MemoryInv, TypeOK, Statements
<1>4. CallsInPhase'
  BY <1>1, AddersAreNotReaders DEF MemoryInv, CallsInPhase
<1>5. \A b \in Adders : pc'[b] = "update_summary" => pc[b] = "update_summary"
  BY <1>1, AddersAreNotReaders
<1> QED BY <1>3, <1>4, <1>5, RestKeeps DEF MemoryInv

LEMMA MemoryStep == MemoryInv /\ [Next]_vars => MemoryInv'
<1> SUFFICES ASSUME MemoryInv, [Next]_vars PROVE MemoryInv'
  OBVIOUS
<1>1. ASSUME NEW a \in Adders, Add(a) PROVE MemoryInv'
  BY <1>1, EnsureKeeps, InsertKeeps, CommitKeeps, GetThreadKeeps,
     ListTurnsKeeps, UpdateKeeps DEF Add
<1>2. ASSUME NEW r \in Readers, Get(r) PROVE MemoryInv'
  BY <1>2, ReadThreadKeeps, ReadTurnsKeeps DEF Get
<1>3. ASSUME NEW p \in Calls, StatementFails(p) PROVE MemoryInv'
  BY <1>3, FaultKeeps
<1>4. CASE UNCHANGED vars
  <2>1. TypeOK' /\ CallsInPhase'
    BY <1>4 DEF vars, MemoryInv, TypeOK, CallsInPhase
  <2> QED BY <1>4, <2>1, RestKeeps DEF vars, MemoryInv
<1> QED BY <1>1, <1>2, <1>3, <1>4 DEF Next

LEMMA MemoryInvariant == Spec => []MemoryInv
BY MemoryInit, MemoryStep, PTL DEF Spec

-----------------------------------------------------------------------------
(* Theorems.                                                               *)

(***************************************************************************)
(* Types of the two tables and of the locals of add and get.               *)
(***************************************************************************)
THEOREM MemoryTypeCorrect == Spec => []TypeOK
<1>1. MemoryInv => TypeOK
  BY DEF MemoryInv
<1> QED BY MemoryInvariant, <1>1, PTL

(***************************************************************************)
(* A prompt never shows a turn both summarized and verbatim, although get  *)
(* reads the thread and its turns in separate transactions.                *)
(***************************************************************************)
THEOREM PromptsNeverRepeat == Spec => []HistoryNeverRepeats
<1>1. MemoryInv => HistoryNeverRepeats
  BY DEF MemoryInv
<1> QED BY MemoryInvariant, <1>1, PTL

(***************************************************************************)
(* _compact passes over a turn only if its insert committed after a        *)
(* younger turn's.                                                         *)
(***************************************************************************)
THEOREM OnlyLateTurnsSkipped == Spec => []OnlyLateTurnsAreSkipped
<1>1. MemoryInv => OnlyLateTurnsAreSkipped
  BY DEF MemoryInv
<1> QED BY MemoryInvariant, <1>1, PTL

\* Every statement adds one turn, folds some, or changes neither table.
LEMMA LogStep == MemoryInv /\ [Next]_vars => [Log!Next]_<<turns, thread>>
<1> SUFFICES ASSUME MemoryInv, [Next]_vars PROVE [Log!Next]_<<turns, thread>>
  OBVIOUS
<1>1. ASSUME NEW a \in Adders, CommitTurn(a) PROVE [Log!Next]_<<turns, thread>>
  <2>1. turns' = turns \cup {turn[a]} /\ thread' = thread
    BY <1>1 DEF CommitTurn
  <2>2. CASE turn[a] \in turns
    BY <2>1, <2>2
  <2>3. CASE turn[a] \notin turns
    BY <2>1, <2>3 DEF Log!Next, Log!AddTurn
  <2> QED BY <2>2, <2>3
<1>2. ASSUME NEW a \in Adders, UpdateSummary(a)
      PROVE  [Log!Next]_<<turns, thread>>
  <2> USE <1>2 DEF UpdateSummary
  <2>1. CASE SummaryIsCurrent(a)
    <3> DEFINE S == compactable[a]
    <3>1. thread' = Log!Folded(thread, S) /\ turns' = turns
      BY <2>1, UpdateFolds
    <3>2. S \in SUBSET turns /\ S # {} /\ \A t \in S : t > thread.through
      BY <2>1, UpdateFolds DEF MemoryInv, TypeOK, CallsInPhase, FoldsHaveNoGaps
    <3>3. S \subseteq Log!Compactable(turns)
      <4>1. 0 \notin turns
        BY TurnsAreFinite DEF MemoryInv
      <4>2. \A t \in S : LeavesTurns(turns, t)
        BY DEF MemoryInv, SummariesLeaveTurns
      <4> QED BY <3>2, <4>1, <4>2, CompactableTurns DEF LeavesTurns
    <3> HIDE DEF S
    <3> QED BY <3>1, <3>2, <3>3 DEF Log!Next, Log!Fold
  <2>2. CASE ~SummaryIsCurrent(a)
    BY <2>2
  <2> QED BY <2>1, <2>2
<1>3. ASSUME NEW a \in Adders, Add(a), ~CommitTurn(a), ~UpdateSummary(a)
      PROVE  UNCHANGED <<turns, thread>>
  BY <1>3 DEF Add, EnsureThread, InsertTurn, GetThread, ListTurns
<1>4. ASSUME NEW r \in Readers, Get(r) PROVE UNCHANGED <<turns, thread>>
  BY <1>4 DEF Get, ReadThread, ReadTurns
<1>5. ASSUME NEW p \in Calls, StatementFails(p) PROVE UNCHANGED <<turns, thread>>
  BY <1>5 DEF StatementFails
<1>6. CASE UNCHANGED vars
  BY <1>6 DEF vars
<1> QED BY <1>1, <1>2, <1>3, <1>4, <1>5, <1>6 DEF Next

(***************************************************************************)
(* The interleaved statements of add and get only do what ConversationLog  *)
(* allows: store a turn, or fold in order the oldest turns that are not    *)
(* yet in the summary.                                                     *)
(***************************************************************************)
THEOREM MemoryImplementsLog == Spec => ImplementsLog
<1>1. Init => Log!Init
  BY DEF Init, Log!Init
<1> QED BY <1>1, MemoryInvariant, LogStep, PTL DEF Spec, ImplementsLog, Log!Spec

-----------------------------------------------------------------------------
(* Two attempts are enough.                                                *)

\* What is left when an update that succeeds takes its turns.
LEMMA LeftByUpdate ==
    ASSUME MemoryInv, NEW a \in Adders, UpdateSummary(a), SummaryIsCurrent(a)
    PROVE  /\ Unfolded' \in SUBSET (Unfolded \ compactable[a])
           /\ \A c \in Adders : ~Current(c)'
<1>1. /\ thread' = Extended(a) /\ UNCHANGED <<turns, seen>>
      /\ \A t \in compactable[a] : t <= Extended(a).through
      /\ thread.through < Extended(a).through /\ Extended(a).through \in Nat
  BY UpdateFolds DEF UpdateSummary
<1> DEFINE last == Extended(a).through
<1>2. thread'.through = last
  BY <1>1
<1>3. turns \in SUBSET Nat /\ thread.through \in Nat
  BY TurnsAreFinite DEF MemoryInv
<1> HIDE DEF last
<1>4. ASSUME NEW u \in turns, u > last
      PROVE  u > thread.through /\ u \notin compactable[a]
  <2>1. u \in Nat /\ last \in Nat /\ thread.through < last
    BY <1>1, <1>3 DEF last
  <2>2. ~(u <= last)
    BY <1>4, <2>1
  <2> QED BY <1>1, <1>3, <1>4, <2>1, <2>2 DEF last
<1>5. Unfolded' \in SUBSET (Unfolded \ compactable[a])
  BY <1>1, <1>2, <1>4 DEF Unfolded, Above
<1>6. ASSUME NEW c \in Adders PROVE seen[c].through # last
  <2>1. seen[c].through <= thread.through /\ seen[c].through \in Nat
    BY TurnsAreFinite, AddersAreNotReaders DEF MemoryInv, SeenIsOlder
  <2> QED BY <1>1, <1>3, <2>1 DEF last
<1> QED BY <1>1, <1>2, <1>5, <1>6 DEF Current

LEMMA UnfoldedIsFinite ==
    ASSUME MemoryInv
    PROVE  /\ Unfolded \in SUBSET Nat /\ IsFiniteSet(Unfolded)
           /\ Cardinality(Unfolded) \in Nat
BY TurnsAreFinite, AboveIsPart DEF MemoryInv, Unfolded

\* While the tables and the faults stay, only the moving call matters.
LEMMA CatchUpMoves ==
    ASSUME MemoryInv, CatchUpInv, faults = 0, NEW a \in Calls,
           UNCHANGED <<thread, turns>>,
           \A b \in Adders : b # a =>
               UNCHANGED <<pc[b], attempt[b], seen[b], compactable[b]>>,
           a \in Adders =>
               /\ Newcomer(a) => Newcomer(a)' \/ Cardinality(Unfolded) <= MaxTurns
               /\ WillCompact(a) => WillCompact(a)' \/ Cardinality(Unfolded) <= MaxTurns
               /\ pc'[a] = "update_summary" /\ Current(a)' =>
                      Cardinality(Unfolded \ compactable'[a]) <= MaxTurns
    PROVE  UpdatesSuffice' /\ SomeoneCompacts'
<1>1. Unfolded' = Unfolded
  BY DEF Unfolded
<1>2. \A b \in Adders : b # a =>
          /\ Newcomer(b)' = Newcomer(b) /\ WillCompact(b)' = WillCompact(b)
          /\ Current(b)' = Current(b)
  BY DEF Newcomer, WillCompact, Current
<1>3. SomeoneCompacts'
  BY <1>1, <1>2, UnfoldedIsFinite, TurnsAreKept DEF CatchUpInv, SomeoneCompacts
<1>4. ASSUME NEW c \in Adders, pc'[c] = "update_summary", Current(c)', c # a
      PROVE  \/ Cardinality(Unfolded \ compactable[c]) <= MaxTurns
             \/ \E d \in Adders \ {c} : Newcomer(d)'
  <2>1. pc[c] = "update_summary" /\ Current(c)
    BY <1>2, <1>4
  <2>2. CASE Cardinality(Unfolded) <= MaxTurns
    <3>1. Cardinality(Unfolded \ compactable[c]) <= Cardinality(Unfolded)
          /\ Cardinality(Unfolded \ compactable[c]) \in Nat
      BY UnfoldedIsFinite, FewerInSubset
    <3> QED BY <2>2, <3>1, UnfoldedIsFinite, TurnsAreKept
  <2>3. CASE ~(Cardinality(Unfolded) <= MaxTurns)
    BY <1>2, <2>1, <2>3 DEF CatchUpInv, UpdatesSuffice
  <2> QED BY <2>2, <2>3
<1>5. UpdatesSuffice'
  <2> SUFFICES ASSUME NEW c \in Adders, pc'[c] = "update_summary", Current(c)'
               PROVE  \/ Cardinality(Unfolded \ compactable'[c]) <= MaxTurns
                      \/ \E d \in Adders \ {c} : Newcomer(d)'
    BY <1>1 DEF UpdatesSuffice
  <2>1. CASE c = a
    BY <2>1
  <2>2. CASE c # a
    BY <1>4, <2>2
  <2> QED BY <2>1, <2>2
<1> QED BY <1>3, <1>5

LEMMA CatchUpInit == Init => CatchUpInv
<1> SUFFICES ASSUME Init PROVE CatchUpInv
  OBVIOUS
<1>1. Unfolded = {} /\ \A a \in Adders : pc[a] = "ensure_thread"
  BY AddersAreNotReaders DEF Init, Unfolded, Above
<1>2. Cardinality(Unfolded) = 0
  BY <1>1, FS_EmptySet
<1> QED
  BY <1>1, <1>2, TurnsAreKept DEF CatchUpInv, UpdatesSuffice, SomeoneCompacts

\* The first statements of add are not yet about compaction.
LEMMA CatchUpBefore ==
    ASSUME MemoryInv, CatchUpInv, faults = 0, NEW a \in Adders,
           EnsureThread(a) \/ InsertTurn(a)
    PROVE  UpdatesSuffice' /\ SomeoneCompacts'
<1>1. /\ pc[a] \in {"ensure_thread", "insert_turn"}
      /\ UNCHANGED <<thread, turns, attempt, seen, compactable>>
  BY DEF EnsureThread, InsertTurn
<1>2. /\ pc'[a] \in {"insert_turn", "commit_turn"}
      /\ \A q \in Calls : q # a => pc'[q] = pc[q]
  BY GotoMoves, AddersAreNotReaders DEF MemoryInv, Statements, EnsureThread, InsertTurn
<1>3. ~Newcomer(a) /\ ~WillCompact(a)
  BY <1>1 DEF Newcomer, WillCompact
<1> QED BY <1>1, <1>2, <1>3, AddersAreNotReaders, CatchUpMoves

\* A new turn comes with a call that will read it.
LEMMA CatchUpCommit ==
    ASSUME MemoryInv, CatchUpInv, faults = 0, NEW a \in Adders, CommitTurn(a)
    PROVE  UpdatesSuffice' /\ SomeoneCompacts'
<1>1. attempt[a] = 0 /\ attempt' = attempt
  BY DEF CommitTurn, MemoryInv, CallsInPhase
<1>2. pc'[a] = "get_thread"
  BY GotoMoves, AddersAreNotReaders DEF MemoryInv, Statements, CommitTurn
<1>3. Newcomer(a)' /\ WillCompact(a)'
  BY <1>1, <1>2 DEF Newcomer, WillCompact
<1>4. SomeoneCompacts'
  BY <1>3 DEF SomeoneCompacts
<1>5. \A c \in Adders : pc'[c] = "update_summary" => c # a
  BY <1>2
<1> QED BY <1>3, <1>4, <1>5 DEF UpdatesSuffice

LEMMA CatchUpGetThread ==
    ASSUME MemoryInv, CatchUpInv, faults = 0, NEW a \in Adders, GetThread(a)
    PROVE  UpdatesSuffice' /\ SomeoneCompacts'
<1>1. /\ pc'[a] = "list_turns" /\ pc[a] = "get_thread"
      /\ \A q \in Calls : q # a => pc'[q] = pc[q]
  BY GotoMoves, AddersAreNotReaders DEF MemoryInv, Statements, GetThread
<1>2. attempt \in [Adders -> 0 .. 2] /\ seen \in [Calls -> Thread] /\ a \in Calls
  BY AddersAreNotReaders DEF MemoryInv, TypeOK
<1>3. /\ attempt'[a] = attempt[a] + 1 /\ seen'[a] = thread
      /\ \A b \in Adders : b # a => attempt'[b] = attempt[b] /\ seen'[b] = seen[b]
      /\ UNCHANGED <<thread, turns, compactable>>
  BY <1>2, AddersAreNotReaders DEF GetThread
<1>4. Current(a)'
  BY <1>3 DEF Current
<1>5. /\ Newcomer(a) => Newcomer(a)'
      /\ WillCompact(a)'
      /\ pc'[a] # "update_summary"
  BY <1>1, <1>3, <1>4 DEF Newcomer, WillCompact
<1> QED BY <1>1, <1>2, <1>3, <1>5, AddersAreNotReaders, CatchUpMoves

LEMMA CatchUpListTurns ==
    ASSUME MemoryInv, CatchUpInv, faults = 0, NEW a \in Adders, ListTurns(a)
    PROVE  UpdatesSuffice' /\ SomeoneCompacts'
<1> DEFINE U == Unsummarized(a)
           C == OlderTurns(U)
<1>1. compactable \in [Adders -> SUBSET turns] /\ a \in Calls
  BY AddersAreNotReaders DEF MemoryInv, TypeOK
<1>2. /\ compactable'[a] = C /\ \A b \in Adders : b # a => compactable'[b] = compactable[b]
      /\ UNCHANGED <<thread, turns, attempt, seen>> /\ pc[a] = "list_turns"
  BY <1>1 DEF ListTurns
<1>3. /\ pc'[a] \in {"done", "update_summary"}
      /\ C # {} => pc'[a] = "update_summary"
      /\ \A q \in Calls : q # a => pc'[q] = pc[q]
  <2> DEFINE next == IF compactable'[a] = {} THEN "done" ELSE "update_summary"
  <2>1. next \in Statements /\ Goto(a, next)
    BY DEF Statements, ListTurns
  <2>2. C # {} => next = "update_summary"
    BY <1>2
  <2>3. next \in {"done", "update_summary"}
    OBVIOUS
  <2> HIDE DEF next
  <2> QED BY <2>1, <2>2, <2>3, GotoMoves, AddersAreNotReaders DEF MemoryInv
<1>4. /\ U = Above(turns, seen[a].through) /\ Unfolded \subseteq U
      /\ U \in SUBSET Nat /\ IsFiniteSet(U) /\ C = Log!Compactable(U)
  <2>1. /\ turns \in SUBSET Nat /\ IsFiniteSet(turns)
        /\ seen[a].through \in Nat /\ thread.through \in Nat
        /\ seen[a].through <= thread.through
    BY TurnsAreFinite, AddersAreNotReaders DEF MemoryInv, SeenIsOlder
  <2>2. U = Above(turns, seen[a].through)
    BY DEF Unsummarized, Above
  <2>3. ASSUME NEW u \in turns, u > thread.through PROVE u > seen[a].through
    BY <2>1, <2>3
  <2>4. U \in SUBSET Nat /\ IsFiniteSet(U)
    BY <2>1, <2>2, AboveIsPart
  <2>5. Unfolded \subseteq U
    BY <2>2, <2>3 DEF Unfolded, Above
  <2> QED BY <2>2, <2>4, <2>5 DEF OlderTurns
<1> HIDE DEF U, C
<1>5. /\ Current(a)' = Current(a)
      /\ Newcomer(a) => attempt[a] = 1 /\ Current(a)
      /\ WillCompact(a) => attempt[a] = 1 \/ Current(a)
  BY <1>2 DEF Newcomer, WillCompact, Current
<1>6. CASE C = {}
  <2>1. Cardinality(U) <= MaxTurns
    <3>1. ~(Cardinality(U) > MaxTurns)
      BY <1>4, <1>6, ManyTurnsAreCompactable
    <3> QED BY <1>4, <3>1, FS_CardinalityType, TurnsAreKept
  <2>2. Cardinality(Unfolded) <= MaxTurns
    <3>1. /\ Cardinality(Unfolded) <= Cardinality(U)
          /\ Cardinality(Unfolded) \in Nat /\ Cardinality(U) \in Nat
      BY <1>4, FewerInSubset
    <3> QED BY <2>1, <3>1, TurnsAreKept
  <2>3. Cardinality(Unfolded \ C) <= MaxTurns
    BY <1>6, <2>2
  <2> QED BY <1>1, <1>2, <1>3, <2>2, <2>3, AddersAreNotReaders, CatchUpMoves
<1>7. CASE C # {}
  <2>1. pc'[a] = "update_summary"
    BY <1>3, <1>7
  <2>2. /\ Newcomer(a) => Newcomer(a)'
        /\ WillCompact(a) => WillCompact(a)'
    BY <1>2, <1>5, <2>1 DEF Newcomer, WillCompact
  <2>3. Current(a) => Cardinality(Unfolded \ C) <= MaxTurns
    <3>1. Current(a) => Unfolded = U
      BY <1>4 DEF Current, Unfolded
    <3> QED BY <1>4, <3>1, AtMostMaxTurnsAreLeft
  <2> QED BY <1>1, <1>2, <1>3, <1>5, <2>2, <2>3, AddersAreNotReaders, CatchUpMoves
<1> QED BY <1>6, <1>7

\* An update that succeeds leaves the rest to a newcomer; one that fails for
\* the first time is tried again.
LEMMA CatchUpUpdate ==
    ASSUME MemoryInv, CatchUpInv, faults = 0, NEW a \in Adders, UpdateSummary(a)
    PROVE  UpdatesSuffice' /\ SomeoneCompacts'
<1>1. /\ pc[a] = "update_summary" /\ UNCHANGED <<turns, attempt, seen, compactable>>
      /\ attempt[a] \in 1 .. 2 /\ a \in Calls
  BY AddersAreNotReaders DEF UpdateSummary, MemoryInv, TypeOK, CallsInPhase
<1>2. PICK next \in {"done", "get_thread"} :
          /\ Goto(a, next)
          /\ ~SummaryIsCurrent(a) /\ attempt[a] = 1 => next = "get_thread"
  BY DEF UpdateSummary, MayRetry
<1>3. pc'[a] = next /\ \A q \in Calls : q # a => pc'[q] = pc[q]
  <2>1. next \in Statements
    BY DEF Statements
  <2> QED BY <1>2, <2>1, GotoMoves, AddersAreNotReaders DEF MemoryInv
<1>4. CASE SummaryIsCurrent(a)
  <2>1. /\ Unfolded' \in SUBSET (Unfolded \ compactable[a])
        /\ \A c \in Adders : ~Current(c)'
    BY <1>4, LeftByUpdate
  <2>2. UpdatesSuffice'
    BY <2>1 DEF UpdatesSuffice
  <2>3. SomeoneCompacts'
    <3> SUFFICES ASSUME Cardinality(Unfolded') > MaxTurns
                 PROVE  \E d \in Adders : WillCompact(d)'
      BY DEF SomeoneCompacts
    <3>1. IsFiniteSet(Unfolded \ compactable[a])
      BY UnfoldedIsFinite, FS_Difference
    <3>2. ~(Cardinality(Unfolded \ compactable[a]) <= MaxTurns)
      BY <2>1, <3>1, FewerInSubset, TurnsAreKept
    <3>3. PICK d \in Adders \ {a} : Newcomer(d)
      BY <1>1, <1>4, <3>2 DEF CatchUpInv, UpdatesSuffice, Current, SummaryIsCurrent
    <3>4. WillCompact(d)'
      BY <1>1, <1>3, <3>3, AddersAreNotReaders DEF Newcomer, WillCompact
    <3> QED BY <3>4
  <2> QED BY <2>2, <2>3
<1>5. CASE ~SummaryIsCurrent(a)
  <2>1. thread' = thread /\ ~Current(a)
    BY <1>5 DEF UpdateSummary, Current, SummaryIsCurrent
  <2>2. ~Newcomer(a)
    BY <1>1, <2>1 DEF Newcomer
  <2>3. WillCompact(a) => WillCompact(a)'
    BY <1>1, <1>2, <1>3, <1>5, <2>1 DEF WillCompact
  <2> QED BY <1>1, <1>3, <2>1, <2>2, <2>3, AddersAreNotReaders, CatchUpMoves
<1> QED BY <1>4, <1>5

LEMMA CatchUpStep == MemoryInv /\ CatchUpInv /\ [Next]_vars => CatchUpInv'
<1> SUFFICES ASSUME MemoryInv, CatchUpInv, [Next]_vars, faults' = 0
             PROVE  UpdatesSuffice' /\ SomeoneCompacts'
  BY DEF CatchUpInv
<1>1. ASSUME NEW a \in Adders, Add(a) PROVE UpdatesSuffice' /\ SomeoneCompacts'
  <2>1. faults = 0
    BY <1>1 DEF Add, EnsureThread, InsertTurn, CommitTurn, GetThread, ListTurns,
       UpdateSummary
  <2> QED
    BY <1>1, <2>1, CatchUpBefore, CatchUpCommit, CatchUpGetThread,
       CatchUpListTurns, CatchUpUpdate DEF Add
<1>2. ASSUME NEW r \in Readers, Get(r) PROVE UpdatesSuffice' /\ SomeoneCompacts'
  <2>1. /\ faults = 0 /\ r \in Calls /\ r \notin Adders
        /\ UNCHANGED <<thread, turns, attempt, compactable>>
    BY <1>2, AddersAreNotReaders DEF Get, ReadThread, ReadTurns
  <2>2. \A b \in Adders : seen'[b] = seen[b] /\ pc'[b] = pc[b]
    <3>1. seen \in [Calls -> Thread] /\ pc \in [Calls -> Statements]
      BY DEF MemoryInv, TypeOK, Statements
    <3>2. \A b \in Adders : b \in Calls /\ b # r
      BY <2>1, AddersAreNotReaders
    <3> QED BY <1>2, <3>1, <3>2 DEF Get, ReadThread, ReadTurns, Goto
  <2> QED BY <2>1, <2>2, CatchUpMoves
<1>3. ASSUME NEW p \in Calls, StatementFails(p)
      PROVE  UpdatesSuffice' /\ SomeoneCompacts'
  <2>1. faults \in Nat /\ faults' = faults + 1
    BY <1>3, FaultsAreBounded DEF StatementFails, MemoryInv, TypeOK
  <2> QED BY <2>1
<1>4. CASE UNCHANGED vars
  BY <1>4 DEF vars, CatchUpInv, UpdatesSuffice, SomeoneCompacts, Newcomer,
     WillCompact, Current, Unfolded
<1> QED BY <1>1, <1>2, <1>3, <1>4 DEF Next

(***************************************************************************)
(* Two attempts of _compact are enough for any number of concurrent calls: *)
(* when no add is under way, at most MaxTurns turns are unsummarized,      *)
(* unless a statement failed.                                              *)
(***************************************************************************)
THEOREM CompactionSuffices == Spec => []CompactionCatchesUp
<1>1. MemoryInv /\ CatchUpInv => CompactionCatchesUp
  <2> SUFFICES ASSUME MemoryInv, CatchUpInv, faults = 0,
                      \A a \in Adders : pc[a] = "done"
               PROVE  Cardinality(Unfolded) <= MaxTurns
    BY DEF CompactionCatchesUp, Unfolded, Above
  <2>1. \A a \in Adders : ~WillCompact(a)
    BY DEF WillCompact
  <2> QED BY <2>1, UnfoldedIsFinite, TurnsAreKept DEF CatchUpInv, SomeoneCompacts
<1> QED BY <1>1, MemoryInvariant, CatchUpInit, CatchUpStep, PTL DEF Spec
=============================================================================

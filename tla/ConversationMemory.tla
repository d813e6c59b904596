------------------------- MODULE ConversationMemory -------------------------
(***************************************************************************)
(* ConversationMemory over one thread: concurrent add calls store a turn   *)
(* and compact the thread with an optimistic update, while get calls read  *)
(* a history (app/services/conversation_memory.py and                      *)
(* app/memory/conversation_store.py).                                      *)
(*                                                                         *)
(* Every statement runs in a transaction of its own.  MySQL gives a turn   *)
(* its AUTO_INCREMENT sequence_id when the INSERT runs and shows it to     *)
(* others when the transaction commits, so the two are separate steps.     *)
(***************************************************************************)
EXTENDS Naturals, FiniteSets, Sequences, SequencesExt

CONSTANTS
    Adders,        \* calls of add, each with a turn of its own
    Readers,       \* calls of get
    MaxTurns,      \* ConversationMemory.max_turns
    MaxSummary,    \* max_summary_chars, counted in summary lines
    MaxFaults      \* bound: statements that may fail

ASSUME CallsAreDistinct == Adders \cap Readers = {}
ASSUME TurnsAreKept == MaxTurns \in Nat \ {0}
ASSUME SummaryHasRoom == MaxSummary \in Nat \ {0}
ASSUME FaultsAreBounded == MaxFaults \in Nat

VARIABLES
    ensured,       \* does the conversation_threads row exist?
    thread,        \* its summary_text (as turn ids) and summarized_through
    turns,         \* conversation_turns: the committed sequence ids
    lastId,        \* the table's AUTO_INCREMENT counter
    pc,            \* the statement each call executes next
    turn,          \* the sequence id of each adder's turn (0: none yet)
    attempt,       \* the loop counter of _compact
    seen,          \* the thread row each call read
    compactable,   \* the turns each adder is about to fold
    history,       \* what each get returned: [thread, turns]
    late,          \* history: turns committed after a turn of a higher id
    folded,        \* history: every turn ever written to the summary
    faults

vars == <<ensured, thread, turns, lastId, pc, turn, attempt, seen,
          compactable, history, late, folded, faults>>

Log == INSTANCE ConversationLog

Calls == Adders \cup Readers
NoHistory == [thread |-> Log!NoThread, turns |-> {}]

\* A definition whose name extends a following one's is that definition with
\* a plausible bug; only the mutation runs use it.
Goto(p, next) == pc' = [pc EXCEPT ![p] = next]

-----------------------------------------------------------------------------
(* ConversationMemoryStore, one statement each.                            *)

EnsureThread(a) ==
    /\ pc[a] = "ensure_thread"
    /\ ensured' = TRUE
    /\ Goto(a, "insert_turn")
    /\ UNCHANGED <<thread, turns, lastId, turn, attempt, seen, compactable,
                   history, late, folded, faults>>

InsertTurn(a) ==
    /\ pc[a] = "insert_turn"
    /\ lastId' = lastId + 1
    /\ turn' = [turn EXCEPT ![a] = lastId']
    /\ Goto(a, "commit_turn")
    /\ UNCHANGED <<ensured, thread, turns, attempt, seen, compactable,
                   history, late, folded, faults>>

CommitTurn(a) ==
    /\ pc[a] = "commit_turn"
    /\ turns' = turns \cup {turn[a]}
    /\ late' = IF \E t \in turns : t > turn[a] THEN late \cup {turn[a]} ELSE late
    /\ Goto(a, "get_thread")
    /\ UNCHANGED <<ensured, thread, lastId, turn, attempt, seen, compactable,
                   history, folded, faults>>

-----------------------------------------------------------------------------
(* ConversationMemory._compact.                                            *)

GetThread(a) ==
    /\ a \in Adders
    /\ pc[a] = "get_thread"
    /\ seen' = [seen EXCEPT ![a] = thread]
    /\ attempt' = [attempt EXCEPT ![a] = @ + 1]
    /\ Goto(a, "list_turns")
    /\ UNCHANGED <<ensured, thread, turns, lastId, turn, compactable,
                   history, late, folded, faults>>

\* list_turns(after_sequence), and all but the newest MaxTurns of them.
Unsummarized(a) == {t \in turns : t > seen[a].through}
OlderTurnsAndOneMore(S) == {t \in S : Cardinality({u \in S : u > t}) >= MaxTurns - 1}
OlderTurns(S) == Log!Compactable(S)

ListTurns(a) ==
    /\ a \in Adders
    /\ pc[a] = "list_turns"
    /\ compactable' = [compactable EXCEPT ![a] = OlderTurns(Unsummarized(a))]
    /\ Goto(a, IF compactable'[a] = {} THEN "done" ELSE "update_summary")
    /\ UNCHANGED <<ensured, thread, turns, lastId, turn, attempt, seen,
                   history, late, folded, faults>>

\* The WHERE clause of update_summary: nobody summarized in between.
SummaryAlwaysCurrent(a) == TRUE
SummaryIsCurrent(a) == thread.through = seen[a].through

\* range(2): an update that lost the race is tried once more.
OneAttempt(a) == FALSE
ThreeAttempts(a) == attempt[a] < 3
MayRetry(a) == attempt[a] < 2

\* What is written: the summary read before, extended by the turns to fold.
ExtendedPastAllTurns(a) ==
    [Log!Folded(seen[a], compactable[a]) EXCEPT
        !.through = CHOOSE last \in turns : \A t \in turns : t <= last]
Extended(a) == Log!Folded(seen[a], compactable[a])

UpdateSummary(a) ==
    /\ pc[a] = "update_summary"
    /\ IF SummaryIsCurrent(a)
       THEN /\ thread' = Extended(a)
            /\ folded' = folded \cup compactable[a]
            /\ Goto(a, "done")
       ELSE /\ Goto(a, IF MayRetry(a) THEN "get_thread" ELSE "done")
            /\ UNCHANGED <<thread, folded>>
    /\ UNCHANGED <<ensured, turns, lastId, turn, attempt, seen, compactable,
                   history, late, faults>>

Add(a) ==
    \/ EnsureThread(a) \/ InsertTurn(a) \/ CommitTurn(a)
    \/ GetThread(a) \/ ListTurns(a) \/ UpdateSummary(a)

-----------------------------------------------------------------------------
(* ConversationMemory.get: the thread first, then its newest turns.        *)

NewestAndOneMore(S) == {t \in S : Cardinality({u \in S : u > t}) <= MaxTurns}
Newest(S) == S \ Log!Compactable(S)

ReadThread(r) ==
    /\ r \in Readers
    /\ pc[r] = "get_thread"
    /\ seen' = [seen EXCEPT ![r] = thread]
    /\ Goto(r, IF ensured THEN "list_turns" ELSE "done")
    /\ UNCHANGED <<ensured, thread, turns, lastId, turn, attempt, compactable,
                   history, late, folded, faults>>

ReadTurns(r) ==
    /\ r \in Readers
    /\ pc[r] = "list_turns"
    /\ history' = [history EXCEPT ![r] =
           [thread |-> seen[r], turns |-> Newest(turns)]]
    /\ Goto(r, "done")
    /\ UNCHANGED <<ensured, thread, turns, lastId, turn, attempt, seen,
                   compactable, late, folded, faults>>

Get(r) == ReadThread(r) \/ ReadTurns(r)

-----------------------------------------------------------------------------

\* A statement that fails raises out of add or get; the turn may stay stored.
StatementFails(p) ==
    /\ faults < MaxFaults
    /\ pc[p] # "done"
    /\ faults' = faults + 1
    /\ Goto(p, "done")
    /\ UNCHANGED <<ensured, thread, turns, lastId, turn, attempt, seen,
                   compactable, history, late, folded>>

Init ==
    /\ ensured = FALSE /\ thread = Log!NoThread /\ turns = {} /\ lastId = 0
    /\ pc = [p \in Calls |-> IF p \in Adders THEN "ensure_thread" ELSE "get_thread"]
    /\ turn = [a \in Adders |-> 0] /\ attempt = [a \in Adders |-> 0]
    /\ seen = [p \in Calls |-> Log!NoThread]
    /\ compactable = [a \in Adders |-> {}]
    /\ history = [r \in Readers |-> NoHistory]
    /\ late = {} /\ folded = {} /\ faults = 0

Next ==
    \/ \E a \in Adders : Add(a)
    \/ \E r \in Readers : Get(r)
    \/ \E p \in Calls : StatementFails(p)

Spec == Init /\ [][Next]_vars

-----------------------------------------------------------------------------
(* Properties.                                                             *)

\* Types of the rows, the calls' locals and the history.
Thread == [summary : Seq(Nat), through : Nat]
TypeOK ==
    /\ ensured \in BOOLEAN /\ thread \in Thread
    /\ turns \subseteq 1..lastId /\ lastId \in Nat
    /\ pc \in [Calls -> {"ensure_thread", "insert_turn", "commit_turn",
                         "get_thread", "list_turns", "update_summary", "done"}]
    /\ turn \in [Adders -> 0..lastId] /\ attempt \in [Adders -> 0..2]
    /\ seen \in [Calls -> Thread]
    /\ compactable \in [Adders -> SUBSET turns]
    /\ history \in [Readers -> [thread : Thread, turns : SUBSET turns]]
    /\ late \subseteq turns /\ folded \subseteq turns
    /\ faults \in 0..MaxFaults

\* A prompt never shows a turn both summarized and verbatim, although get
\* reads the two in separate transactions.
HistoryNeverRepeats ==
    \A r \in Readers : \A t \in history[r].turns : t > history[r].thread.through

\* Two attempts are enough: when no add is under way at most MaxTurns turns
\* are left unsummarized, however many compactions collided, unless a
\* statement failed.
CompactionCatchesUp ==
    faults = 0 /\ (\A a \in Adders : pc[a] = "done") =>
        Cardinality({t \in turns : t > thread.through}) <= MaxTurns

\* Compaction passes over a turn only if that turn's insert committed after a
\* younger turn's (sequence ids are given before commit).
OnlyLateTurnsAreSkipped ==
    \A t \in turns : t <= thread.through => t \in folded \cup late

\* The statements of add and get, interleaved, only ever do what
\* ConversationLog allows.
ImplementsLog == Log!Spec

-----------------------------------------------------------------------------
(* What README.md says: "only the eight most recent turns plus a bounded   *)
(* rolling summary of older turns".                                        *)

\* Every stored turn is summarized or still to be summarized.
EveryTurnIsRemembered == \A t \in turns : t > thread.through \/ t \in folded
=============================================================================

-------------------------- MODULE ConversationLog --------------------------
(***************************************************************************)
(* What conversation memory promises of one thread: turns are only added,  *)
(* and now and then the oldest of them are folded, in order and once, into *)
(* the summary, always leaving the MaxTurns newest ones verbatim.          *)
(***************************************************************************)
EXTENDS Naturals, FiniteSets, Sequences, SequenceIds

CONSTANTS
    MaxTurns,      \* ConversationMemory.max_turns
    MaxSummary     \* max_summary_chars, counted in summary lines

VARIABLES
    turns,         \* conversation_turns: the committed sequence ids
    thread         \* conversation_threads: [summary, through]

NoThread == [summary |-> <<>>, through |-> 0]

\* The turns of S that the MaxTurns newest turns of S leave to the summary.
Compactable(S) == {t \in S : Cardinality({u \in S : u > t}) >= MaxTurns}

\* The rolling summary keeps its end.
Truncated(lines) ==
    SubSeq(lines, IF Len(lines) > MaxSummary
                  THEN Len(lines) - MaxSummary + 1 ELSE 1, Len(lines))

Folded(t, S) ==
    [summary |-> Truncated(t.summary \o InOrder(S)),
     through |-> CHOOSE last \in S : \A u \in S : u <= last]

Init == turns = {} /\ thread = NoThread

AddTurn ==
    /\ \E t \in turns' \ turns : turns' = turns \cup {t}
    /\ UNCHANGED thread

Fold ==
    /\ \E S \in (SUBSET Compactable(turns)) \ {{}} :
           /\ \A t \in S : t > thread.through
           /\ thread' = Folded(thread, S)
    /\ UNCHANGED turns

Next == AddTurn \/ Fold

Spec == Init /\ [][Next]_<<turns, thread>>
=============================================================================

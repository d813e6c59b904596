---------------------------- MODULE SequenceIds -----------------------------
(***************************************************************************)
(* Rows by their AUTO_INCREMENT sequence_id: what ORDER BY sequence_id     *)
(* makes of a set of rows (list_turns and list_events).  The places of a   *)
(* list are numbers too, so the same order tells what a filter keeps.      *)
(***************************************************************************)
EXTENDS Naturals, FiniteSets, Sequences

\* How many of the rows S come no later than row e.
Place(S, e) == Cardinality({f \in S : f <= e})

\* The rows of S, the oldest first.
InOrder(S) ==
    [i \in 1 .. Cardinality(S) |-> CHOOSE e \in S : Place(S, e) = i]

\* The members of the sequence s at the places P, in their order: what a loop
\* over s collects that skips the others.
MembersAt(s, P) == [n \in DOMAIN InOrder(P) |-> s[InOrder(P)[n]]]
=============================================================================

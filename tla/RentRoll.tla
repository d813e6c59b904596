------------------------------ MODULE RentRoll ------------------------------
(* A rent-roll load beside an occupancy investigation of the same property. *)
(* They share only the tables.  Parsing touches nothing an investigation    *)
(* reads, so it is taken first: a behaviour in which the two interleave     *)
(* differs from one here by the order of independent steps.                 *)
EXTENDS OccupancyBrief

vars == <<tableVars, fileVars, briefVars>>

Init == TablesInit /\ FileInit /\ BriefInit

Loader == (Parse \/ Load) /\ UNCHANGED briefVars

Reader == stage # "parsing" /\ Investigate /\ UNCHANGED <<tableVars, fileVars>>

Next == Loader \/ Reader

Spec == Init /\ [][Next]_vars
=============================================================================

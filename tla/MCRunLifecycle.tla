--------------------------- MODULE MCRunLifecycle ---------------------------
(* Instances of RunLifecycle for TLC: one caller per role, and symmetric    *)
(* requests where no liveness is checked.                                   *)
EXTENDS RunLifecycleClaims, TLC

MCRoleSets == {{"Viewer"}, {"Analyst"}, {"PropertyManager"}}

RequestSymmetry == Permutations(Approvers) \cup Permutations(Cancellers)
=============================================================================

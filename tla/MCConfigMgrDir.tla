--------------------------- MODULE MCConfigMgrDir ---------------------------
(* Two managers in two processes, a sub-group, three unique numbers.       *)
EXTENDS ConfigMgrDir, TLC

CONSTANTS m1, m2, v1, v2

\* Managers and values are interchangeable.
Managers == Permutations({m1, m2}) \cup Permutations({v1, v2})
=============================================================================

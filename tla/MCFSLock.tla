------------------------------ MODULE MCFSLock ------------------------------
(* Instances of FSLock for TLC.                                            *)
EXTENDS FSLock, TLC

CONSTANTS a, b, c, p1, p2, p3

\* Two objects of one process (two configuration managers, say) and a rival.
TwoInOne == (a :> p1) @@ (b :> p1) @@ (c :> p2)

\* One object in each process.
OneEach == (a :> p1) @@ (b :> p2)
=============================================================================

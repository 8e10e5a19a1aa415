------------------------------ MODULE MCCtFile ------------------------------
(* Two processes with a token each, one key file.                          *)
EXTENDS CtFile, TLC

CONSTANTS p1, p2

\* The processes are interchangeable.
Processes == Permutations({p1, p2})
=============================================================================

---------------------------- MODULE LockService ----------------------------
(***************************************************************************)
(* What an FSLOCK promises its users: at most one lock object is inside    *)
(* the section the lock protects, and once an owner has gone without       *)
(* releasing the lock it stays taken: nobody gets in by accident.          *)
(***************************************************************************)
CONSTANT Obj            \* the lock objects competing for one file

VARIABLES inside,       \* the objects that hold the lock
          orphan        \* TRUE when the lock file has outlived its owner

lsVars == <<inside, orphan>>

LSInit == inside = {} /\ orphan = FALSE

Enter(o) == inside = {} /\ ~orphan /\ inside' = {o} /\ UNCHANGED orphan

Leave(o) == o \in inside /\ inside' = inside \ {o} /\ UNCHANGED orphan

\* An owner (or an object about to become one) disappears without releasing.
Perish(gone) == /\ gone \subseteq inside
                /\ inside' = inside \ gone
                /\ orphan' = TRUE

LSNext == \/ \E o \in Obj : Enter(o) \/ Leave(o)
          \/ \E gone \in SUBSET inside : Perish(gone)

LSSpec == LSInit /\ [][LSNext]_lsVars
=============================================================================

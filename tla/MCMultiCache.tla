---------------------------- MODULE MCMultiCache ----------------------------
(* Instances of MultiCache for TLC.                                        *)
EXTENDS MultiCache, TLC

CONSTANTS t1, t2, d1, d2, d3

\* In a cache of four: two objects that fit, together and one of them
\* twice, and one that does not fit at all.
Sizes == (d1 :> 1) @@ (d2 :> 2) @@ (d3 :> 5)

\* Without is the selection of the elements that are not in a set.
ASSUME WithoutSelects ==
  \A n \in 0..4 : \A s \in [1..n -> {1, 2, 3}], es \in SUBSET {1, 2, 3} :
    Without(s, es) = SelectSeq(s, LAMBDA e : e \notin es)

TypeSymmetry == Permutations({t1, t2})
=============================================================================

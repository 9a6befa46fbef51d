------------------------------ MODULE MCBasket ------------------------------
(* Instances of Basket for TLC: c1 is for the cluster or one database, the *)
(* others for another one.                                                 *)
EXTENDS Basket, TLC

CONSTANTS c1, c2, c3, global, app

TwoDatabases == [c \in Change |-> IF c = c1 THEN global ELSE app]
Symmetry == Permutations(Instance) \cup Permutations({c2, c3} \cap Change)

(* Bound: a profile missing from the list, a run whose page is gone, a     *)
(* basket that sessionStorage does not have, a user who does not wait: one *)
(* of these at a time                                                      *)
Circumstances ==
    Cardinality({orphan} \ {None}) + Cardinality(unsaved \cup stale)
    + Cardinality({listed} \ {{}, Instance}) + Cardinality({rash} \ {FALSE})
OneAtATime == Circumstances <= 1
=============================================================================

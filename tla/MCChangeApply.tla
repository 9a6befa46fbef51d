---------------------------- MODULE MCChangeApply ----------------------------
(* Instances of ChangeApply for TLC: the plans requests may bring.         *)
EXTENDS ChangeApply, TLC

(* All plans of one or two statements, and the longer ones in which what   *)
(* fails is in the middle                                                  *)
RegularPlans ==
    UNION {[1..n -> {"ddl", "alone", "immediate"}] : n \in 1..2} \cup
    {<<"unsendable">>, <<"unsendable", "ddl">>, <<"ddl", "alone", "unsendable">>,
     <<"ddl", "immediate", "ddl">>, <<"immediate", "ddl", "alone">>}

UnsendablePlans == {<<"ddl", "unsendable">>, <<"ddl", "ddl">>}

OneOperator == [r \in Request |-> CHOOSE u \in User : TRUE]

Symmetry == Permutations(Request)
=============================================================================

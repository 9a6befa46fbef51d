------------------------------ MODULE MCMetrics ------------------------------
(* Instances of Metrics for TLC.  Without requests, anybody calls the pool *)
(* manager in any order, and one of two servers never answers.  With them, *)
(* on a server that does: three with each other; and on both metadata      *)
(* databases, two beside samples on demand, and one beside the sampler too.*)
EXTENDS Metrics, TLC

CONSTANTS d1, d2

HostDown == {<<1, d2>>}

Callers ==
    [postgres : {FALSE}, interval : {0}, requests : {0}, databases : {{}}, drops : {1}, rows : {0}]

Setups ==
    Callers
    \cup [postgres : {FALSE}, interval : {0}, requests : {3}, databases : {{d1}}, drops : {1}, rows : {0}]
    \cup [postgres : BOOLEAN, interval : {0}, requests : {2}, databases : {{d1}}, drops : {2}, rows : {1}]
    \cup [postgres : BOOLEAN, interval : {60}, requests : {1}, databases : {{d1}}, drops : {2}, rows : {2}]

(* Whoever they are, they edit nothing                                     *)
CallersNext ==
    /\ setup \in Callers
    /\ Next
    /\ \A f \in Profile : generation'[f] <= setup.drops
    /\ made' = [q \in PoolId |-> IF q \in open' THEN [settings |-> 1, late |-> FALSE] ELSE None]
    /\ UNCHANGED <<row, version, requests, setup, born, metrics>>

PoolsSpec ==
    /\ MetricsInit
    /\ [][CallersNext \/ (setup \notin Callers /\ MetricsNext)]_metricsVars
    /\ \A p \in Proc : WF_vars(Answered(p) /\ Continue(p))

(* A get queued for a server that answers is served, whatever the others   *)
(* wait for (connection.py:110-111).  Callers are interchangeable: one     *)
(* stands for all.                                                         *)
WaitingIsServed == Served(CHOOSE p \in Proc : TRUE)
=============================================================================

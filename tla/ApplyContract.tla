--------------------------- MODULE ApplyContract ---------------------------
(***************************************************************************)
(* What applying a plan promises (apply_plan and its docstring,            *)
(* pg/changes.py:837-841): a plan whose statements are all transactional   *)
(* takes effect at once or not at all, but for statements that PostgreSQL  *)
(* never takes back; any other takes effect statement by statement and     *)
(* stops at the first failure.  The answer says which.                     *)
(***************************************************************************)
EXTENDS Naturals, Sequences

CONSTANTS
    Request,
    Plans,      \* the plans that may be applied: sequences of statements
    Alone(_),   \* statements that cannot run inside a transaction
    Lasting(_), \* statements whose effect outlives a rollback
    Breaks,     \* a connection may break, so that an answer is lost
    None

VARIABLES
    plan,      \* plan of each request, None before it has one
    effects,   \* indices of the statements that have taken effect
    answer     \* [ok, executed] once apply_plan returned

vars == <<plan, effects, answer>>

Atomic(p) == \A i \in DOMAIN p : ~Alone(p[i])

All(r) == DOMAIN plan[r]

Init ==
    /\ plan = [r \in Request |-> None]
    /\ effects = [r \in Request |-> {}]
    /\ answer = [r \in Request |-> None]

Submit(r) ==
    /\ plan[r] = None
    /\ \E p \in Plans : plan' = [plan EXCEPT ![r] = p]
    /\ UNCHANGED <<effects, answer>>

(* The first n statements of a plan that is not atomic; all of an atomic   *)
(* one, or its lasting statements one after the other                      *)
LastingUpTo(r, n) == {i \in 1..n : Lasting(plan[r][i])}

TakeEffect(r) ==
    /\ plan[r] # None
    /\ answer[r] = None
    /\ \E n \in All(r) :
          IF Atomic(plan[r])
          THEN /\ effects[r] = LastingUpTo(r, n - 1)
               /\ effects' = [effects EXCEPT ![r] = @ \cup {n}]
               /\ Lasting(plan[r][n])
          ELSE effects[r] = 1..(n - 1) /\ effects' = [effects EXCEPT ![r] = 1..n]
    /\ UNCHANGED <<plan, answer>>

Commit(r) ==
    /\ plan[r] # None
    /\ answer[r] = None
    /\ Atomic(plan[r])
    /\ effects[r] = LastingUpTo(r, Len(plan[r]))
    /\ effects' = [effects EXCEPT ![r] = All(r)]
    /\ UNCHANGED <<plan, answer>>

(* The effects a failure may leave, when it says n statements were executed *)
AfterFailure(r, n) ==
    IF Atomic(plan[r])
    THEN {LastingUpTo(r, i) : i \in 0..Len(plan[r])} \cup IF Breaks THEN {All(r)} ELSE {}
    ELSE {1..n} \cup IF Breaks THEN {1..(n + 1)} ELSE {}

Succeed(r) ==
    /\ plan[r] # None
    /\ answer[r] = None
    /\ effects[r] = All(r)
    /\ answer' = [answer EXCEPT ![r] = [ok |-> TRUE, executed |-> Len(plan[r])]]
    /\ UNCHANGED <<plan, effects>>

Fail(r) ==
    /\ plan[r] # None
    /\ answer[r] = None
    /\ \E n \in 0..Len(plan[r]) :
          /\ Atomic(plan[r]) => n = 0
          /\ effects[r] \in AfterFailure(r, n)
          /\ answer' = [answer EXCEPT ![r] = [ok |-> FALSE, executed |-> n]]
    /\ UNCHANGED <<plan, effects>>

Next ==
    \E r \in Request :
        Submit(r) \/ TakeEffect(r) \/ Commit(r) \/ Succeed(r) \/ Fail(r)

Spec == Init /\ [][Next]_vars
=============================================================================

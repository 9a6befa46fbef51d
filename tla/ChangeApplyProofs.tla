-------------------------- MODULE ChangeApplyProofs -------------------------
(***************************************************************************)
(* Proofs about ChangeApply, for any number of requests and any plans: it  *)
(* implements ApplyContract, and the audit log holds what took effect.  A  *)
(* request's step touches no other request, so the invariant is a property *)
(* of each request by itself (Local), kept by its own steps and by a kill. *)
(***************************************************************************)
EXTENDS ChangeApply, TLAPS

(* In a plan that runs in one transaction, nothing a rollback would undo   *)
(* comes before a statement the driver refuses to send.  Without it the    *)
(* transaction is committed half done: RollsEverythingBack is violated.    *)
SendableFirst ==
    \A p \in Plans : Atomic(p) =>
        \A i \in DOMAIN p : p[i] = "unsendable" => \A j \in 1..(i - 1) : p[j] = "immediate"

-----------------------------------------------------------------------------
(* The inductive invariant                                                 *)

Phase == {"new", "planned", "running", "closed", "answered", "done", "killed"}
Answer == [ok : BOOLEAN, executed : Nat]

VarType ==
    /\ profile \in {"writable", "readonly", "gone"}
    /\ users \subseteq User
    /\ pc \in [Request -> Phase]
    /\ plan \in [Request -> Plans \cup {None}]
    /\ server \in [Request -> {"none", "open", "aborted"}]
    /\ pending \in [Request -> SUBSET Nat]
    /\ effects \in [Request -> SUBSET Nat]
    /\ executed \in [Request -> Nat]
    /\ failed \in [Request -> Nat \cup {None}]
    /\ answer \in [Request -> Answer \cup {None}]
    /\ audit \subseteq [request : Request, ok : BOOLEAN, executed : Nat]
    /\ broke \subseteq Request

(* Of the first n statements, those that last and those a rollback undoes  *)
Lasted(r, n) == {i \in 1..n : plan[r][i] = "immediate"}
Undone(r, n) == {i \in 1..n : plan[r][i] # "immediate"}

(* What took effect when n statements have run and nothing is committed    *)
Reached(r, n) == IF Atomic(plan[r]) THEN Lasted(r, n) ELSE 1..n

(* Nothing happens before there is a plan, and a connection                *)
StartInv(r) ==
    /\ pc[r] \in {"new", "planned", "running", "closed"} => answer[r] = None
    /\ pc[r] = "new" => plan[r] = None
    /\ pc[r] \in {"planned", "running", "closed", "answered"} => plan[r] # None
    /\ plan[r] = None \/ pc[r] = "planned" =>
          /\ executed[r] = 0 /\ failed[r] = None
          /\ pending[r] = {} /\ effects[r] = {} /\ server[r] = "none"

(* The statement that failed is the one after the executed ones            *)
CountInv(r) ==
    plan[r] # None =>
        /\ executed[r] <= Len(plan[r])
        /\ failed[r] # None => failed[r] = executed[r] + 1 /\ executed[r] < Len(plan[r])

(* The transaction of an atomic plan                                       *)
ServerInv(r) ==
    /\ pc[r] = "closed" => Atomic(plan[r])
    /\ pc[r] # "running" => server[r] = "none" /\ pending[r] = {}
    /\ pc[r] = "running" =>
          IF Atomic(plan[r])
          THEN /\ pending[r] = Undone(r, executed[r])
               /\ server[r] # "none"
               /\ failed[r] = None => server[r] = "open"
               /\ failed[r] # None /\ server[r] = "open" => plan[r][failed[r]] = "unsendable"
          ELSE server[r] = "none" /\ pending[r] = {}

(* What took effect is what was executed, or all of a committed plan       *)
EffectsInv(r) ==
    /\ pc[r] = "running" /\ failed[r] = None => effects[r] = Reached(r, executed[r])
    /\ pc[r] = "closed" /\ failed[r] = None =>
          executed[r] = Len(plan[r]) /\ effects[r] = 1..Len(plan[r])
    /\ SendableFirst /\ pc[r] \in {"running", "closed"} /\ failed[r] # None =>
          \/ effects[r] = Reached(r, executed[r])
          \/ r \in broke /\ effects[r] = Reached(r, executed[r] + 1)
    /\ effects[r] \subseteq 1..(executed[r] + 1)

(* An answer counts what took effect                                       *)
Right(r, ok, n) ==
    SendableFirst /\ r \notin broke =>
        effects[r] \ (IF Atomic(plan[r]) /\ ~ok THEN {i \in DOMAIN plan[r] : Lasting(plan[r][i])} ELSE {})
            = 1..n

AnswerInv(r) ==
    pc[r] = "answered" => answer[r] \in Answer /\ Right(r, answer[r].ok, answer[r].executed)

AuditInv == \A a \in audit : pc[a.request] = "done" /\ Right(a.request, a.ok, a.executed)

BrokeInv == broke # {} => Breaks

Local(r) == StartInv(r) /\ CountInv(r) /\ ServerInv(r) /\ EffectsInv(r) /\ AnswerInv(r)

IInv ==
    /\ VarType
    /\ \A r \in Request : Local(r)
    /\ AuditInv
    /\ BrokeInv
    /\ AppliedIsAudited

-----------------------------------------------------------------------------
(* Facts about plans                                                       *)

LEMMA PlanFacts ==
    ASSUME NEW p \in Plans
    PROVE  /\ Len(p) \in Nat /\ Len(p) > 0 /\ DOMAIN p = 1..Len(p)
           /\ \A i \in 1..Len(p) : p[i] \in Kind
           /\ p # None
    BY PlansAreStatements

(* Every step keeps every variable in its range                            *)
LEMMA TypeStep ==
    ASSUME VarType, [Next]_vars,
           \A r \in Request : Local(r)
    PROVE  VarType'
    <1>1. CASE UNCHANGED vars
      BY <1>1 DEF vars, VarType
    <1>2. CASE ChangeProfile \/ DeleteUser
      BY <1>2 DEF ChangeProfile, DeleteUser, VarType
    <1>3. CASE Kill
      BY <1>3 DEF Kill, VarType, Phase
    <1>4. ASSUME NEW r \in Request, Proceed(r)
          PROVE  VarType'
      <2>1. CASE Plan(r)
        BY <2>1, PlansAreStatements DEF Plan, VarType, Phase, Goto
      <2>2. CASE Refuse(r)
        BY <2>2, PlansAreStatements DEF Refuse, VarType, Phase, Goto
      <2>3. CASE Connect(r)
        BY <2>3, PlansAreStatements DEF Connect, VarType, Phase, Goto
      <2>4. CASE NoConnection(r)
        BY <2>4, PlansAreStatements DEF NoConnection, VarType, Phase, Goto
      <2>5. CASE Execute(r)
        <3>1. executed[r] \in Nat /\ effects[r] \in SUBSET Nat /\ pending[r] \in SUBSET Nat
          BY DEF VarType
        <3>2. executed[r] + 1 \in Nat
          BY <3>1
        <3>3. effects[r] \cup {executed[r] + 1} \in SUBSET Nat /\ pending[r] \cup {executed[r] + 1} \in SUBSET Nat
          BY <3>1, <3>2
        <3>4. effects' \in [Request -> SUBSET Nat] /\ pending' \in [Request -> SUBSET Nat]
          BY <2>5, <3>3 DEF Execute, VarType, Current
        <3>5. executed' \in [Request -> Nat]
          BY <2>5, <3>2 DEF Execute, VarType
        <3> QED BY <2>5, <3>4, <3>5 DEF Execute, VarType
      <2>6. CASE Reject(r)
        BY <2>6, PlansAreStatements DEF Reject, VarType, Phase, Goto, FailAt, Current, Running, AtOnce
      <2>7. CASE Unsent(r)
        BY <2>7, PlansAreStatements DEF Unsent, VarType, Phase, Goto, FailAt, Current, Running, AtOnce
      <2>8. CASE Break(r)
        <3>1. executed[r] + 1 \in Nat /\ effects[r] \in SUBSET Nat
          BY DEF VarType
        <3>2. effects[r] \cup {executed[r] + 1} \in SUBSET Nat
          BY <3>1
        <3>3. effects' \in [Request -> SUBSET Nat]
          BY <2>8, <3>2 DEF Break, VarType, Current
        <3>4. failed' \in [Request -> Nat \cup {None}]
          BY <2>8, <3>1 DEF Break, VarType, FailAt, Current
        <3>5. server' \in [Request -> {"none", "open", "aborted"}]
          BY <2>8 DEF Break, VarType
        <3> QED BY <2>8, <3>3, <3>4, <3>5 DEF Break, VarType
      <2>9. CASE Close(r)
        BY <2>9, PlansAreStatements DEF Close, VarType, Phase, Goto
      <2>10. CASE CommitLost(r)
        <3>1. [ok |-> FALSE, executed |-> 0] \in Answer
          BY DEF Answer
        <3>2. answer' \in [Request -> Answer \cup {None}]
          BY <2>10, <3>1 DEF CommitLost, VarType
        <3> QED BY <2>10, <3>2 DEF CommitLost, VarType, Phase, Goto
      <2>11. CASE Return(r)
        <3>1. Result(r) \in Answer
          BY DEF Result, Answer, VarType
        <3>2. answer' \in [Request -> Answer \cup {None}]
          BY <2>11, <3>1 DEF Return, VarType
        <3> QED BY <2>11, <3>2 DEF Return, VarType, Phase, Goto
      <2>12. CASE ReturnLost(r)
        <3>1. [ok |-> FALSE, executed |-> 0] \in Answer
          BY DEF Answer
        <3>2. answer' \in [Request -> Answer \cup {None}]
          BY <2>12, <3>1 DEF ReturnLost, VarType
        <3> QED BY <2>12, <3>2 DEF ReturnLost, VarType, Phase, Goto
      <2>13. CASE Audit(r)
        <3>1. answer[r] \in Answer
          BY <2>13 DEF Local, AnswerInv, Audit
        <3>2. Entry(r) \in [request : Request, ok : BOOLEAN, executed : Nat]
          BY <3>1 DEF Entry, Answer
        <3> QED BY <2>13, <3>2 DEF Audit, VarType, Phase, Goto
      <2>14. CASE AuditRefused(r)
        BY <2>14, PlansAreStatements DEF AuditRefused, VarType, Phase, Goto
      <2> QED BY <1>4, <2>1, <2>2, <2>3, <2>4, <2>5, <2>6, <2>7, <2>8, <2>9, <2>10, <2>11, <2>12, <2>13, <2>14 DEF Proceed
    <1> QED BY <1>1, <1>2, <1>3, <1>4 DEF Next

(* A request's step changes nothing of another request                     *)
Same(s) ==
    /\ pc'[s] = pc[s] /\ plan'[s] = plan[s] /\ server'[s] = server[s] /\ pending'[s] = pending[s]
    /\ effects'[s] = effects[s] /\ executed'[s] = executed[s] /\ failed'[s] = failed[s]
    /\ answer'[s] = answer[s] /\ (s \in broke' <=> s \in broke)

LEMMA OthersSame ==
    ASSUME VarType, NEW r \in Request, NEW s \in Request, s # r, Proceed(r)
    PROVE  Same(s)
    <1>1. CASE Plan(r)
      BY <1>1 DEF Plan, VarType, Same, Goto
    <1>2. CASE Refuse(r)
      BY <1>2 DEF Refuse, VarType, Same, Goto
    <1>3. CASE Connect(r)
      BY <1>3 DEF Connect, VarType, Same, Goto
    <1>4. CASE NoConnection(r)
      BY <1>4 DEF NoConnection, VarType, Same, Goto
    <1>5. CASE Execute(r)
      BY <1>5 DEF Execute, VarType, Same, Goto
    <1>6. CASE Reject(r)
      BY <1>6 DEF Reject, VarType, Same, Goto, FailAt
    <1>7. CASE Unsent(r)
      BY <1>7 DEF Unsent, VarType, Same, Goto, FailAt
    <1>8. CASE Break(r)
      BY <1>8 DEF Break, VarType, Same, Goto, FailAt
    <1>9. CASE Close(r)
      BY <1>9 DEF Close, VarType, Same, Goto
    <1>10. CASE CommitLost(r)
      BY <1>10 DEF CommitLost, VarType, Same, Goto
    <1>11. CASE Return(r)
      BY <1>11 DEF Return, VarType, Same, Goto
    <1>12. CASE ReturnLost(r)
      BY <1>12 DEF ReturnLost, VarType, Same, Goto
    <1>13. CASE Audit(r)
      BY <1>13 DEF Audit, VarType, Same, Goto
    <1>14. CASE AuditRefused(r)
      BY <1>14 DEF AuditRefused, VarType, Same, Goto
    <1> QED BY <1>1, <1>2, <1>3, <1>4, <1>5, <1>6, <1>7, <1>8, <1>9, <1>10, <1>11, <1>12, <1>13, <1>14 DEF Proceed

(* What did not change keeps its part of the invariant                     *)
LEMMA SameKeeps ==
    ASSUME NEW s \in Request, Same(s), Local(s)
    PROVE  Local(s)'
    <1>1. (Atomic(plan[s]))' <=> Atomic(plan[s])
      BY DEF Same, Atomic
    <1>2. \A n : (Reached(s, n))' = Reached(s, n) /\ (Undone(s, n))' = Undone(s, n)
      BY <1>1 DEF Same, Reached, Undone, Lasted
    <1>3. (StartInv(s) /\ CountInv(s))'
      BY DEF Same, Local, StartInv, CountInv
    <1>4. ServerInv(s)'
      BY <1>1, <1>2 DEF Same, Local, ServerInv
    <1>5. EffectsInv(s)'
      BY <1>2 DEF Same, Local, EffectsInv
    <1>6. \A ok, n : (Right(s, ok, n))' <=> Right(s, ok, n)
      BY <1>1 DEF Same, Right
    <1>7. AnswerInv(s)'
      BY <1>6 DEF Same, Local, AnswerInv
    <1> QED BY <1>3, <1>4, <1>5, <1>7 DEF Local

-----------------------------------------------------------------------------
(* What a request's step makes of its own part of the invariant            *)

LEMMA PlanLength ==
    ASSUME VarType, NEW r \in Request, plan[r] # None
    PROVE  plan[r] \in Plans /\ Len(plan[r]) \in Nat /\ Len(plan[r]) > 0 /\ DOMAIN plan[r] = 1..Len(plan[r])
    BY PlanFacts DEF VarType

(* The steps that run no statement                                         *)
LEMMA PlanLocal ==
    ASSUME VarType, NEW r \in Request, Local(r), Plan(r)
    PROVE  Local(r)'
    BY PlanFacts DEF Plan, VarType, Goto, Local, StartInv, CountInv, ServerInv, EffectsInv, AnswerInv,
                     Reached, Undone, Lasted, Atomic, Right

LEMMA RefuseLocal ==
    ASSUME VarType, NEW r \in Request, Local(r), Refuse(r)
    PROVE  Local(r)'
    BY PlanFacts DEF Refuse, VarType, Goto, Local, StartInv, CountInv, ServerInv, EffectsInv, AnswerInv,
                     Reached, Undone, Lasted, Atomic, Right

LEMMA ConnectLocal ==
    ASSUME VarType, NEW r \in Request, Local(r), Connect(r)
    PROVE  Local(r)'
    BY PlanFacts DEF Connect, VarType, Goto, Local, StartInv, CountInv, ServerInv, EffectsInv, AnswerInv,
                     Reached, Undone, Lasted, Atomic, Right

LEMMA NoConnectionLocal ==
    ASSUME VarType, NEW r \in Request, Local(r), NoConnection(r)
    PROVE  Local(r)'
    BY PlanFacts DEF NoConnection, VarType, Goto, Local, StartInv, CountInv, ServerInv, EffectsInv, AnswerInv,
                     Reached, Undone, Lasted, Atomic, Right

LEMMA AuditLocal ==
    ASSUME VarType, NEW r \in Request, Local(r), Audit(r)
    PROVE  Local(r)'
    BY PlanFacts DEF Audit, VarType, Goto, Local, StartInv, CountInv, ServerInv, EffectsInv, AnswerInv,
                     Reached, Undone, Lasted, Atomic, Right

LEMMA AuditRefusedLocal ==
    ASSUME VarType, NEW r \in Request, Local(r), AuditRefused(r)
    PROVE  Local(r)'
    BY PlanFacts DEF AuditRefused, VarType, Goto, Local, StartInv, CountInv, ServerInv, EffectsInv, AnswerInv,
                     Reached, Undone, Lasted, Atomic, Right

(* Running one statement more                                              *)
LEMMA OneMore ==
    ASSUME VarType, NEW r \in Request, Local(r), Running(r)
    PROVE  /\ executed[r] \in Nat /\ executed[r] < Len(plan[r]) /\ plan[r] # None
           /\ Lasted(r, executed[r] + 1) =
                Lasted(r, executed[r]) \cup (IF plan[r][executed[r] + 1] = "immediate" THEN {executed[r] + 1} ELSE {})
           /\ Undone(r, executed[r] + 1) =
                Undone(r, executed[r]) \cup (IF plan[r][executed[r] + 1] = "immediate" THEN {} ELSE {executed[r] + 1})
           /\ 1..(executed[r] + 1) = (1..executed[r]) \cup {executed[r] + 1}
           /\ Atomic(plan[r]) => server[r] = "open"
           /\ ~Atomic(plan[r]) => server[r] = "none"
           /\ effects[r] = Reached(r, executed[r])
           /\ Reached(r, executed[r] + 1) =
                Reached(r, executed[r]) \cup (IF AtOnce(r) THEN {executed[r] + 1} ELSE {})
    <1>1. executed[r] \in Nat /\ executed[r] < Len(plan[r]) /\ plan[r] # None /\ pc[r] = "running" /\ failed[r] = None
      BY DEF VarType, Running, Local, StartInv
    <1>2. 1..(executed[r] + 1) = (1..executed[r]) \cup {executed[r] + 1}
      BY <1>1
    <1>3. Lasted(r, executed[r] + 1) =
            Lasted(r, executed[r]) \cup (IF plan[r][executed[r] + 1] = "immediate" THEN {executed[r] + 1} ELSE {})
      BY <1>2 DEF Lasted
    <1>4. Undone(r, executed[r] + 1) =
            Undone(r, executed[r]) \cup (IF plan[r][executed[r] + 1] = "immediate" THEN {} ELSE {executed[r] + 1})
      BY <1>2 DEF Undone
    <1>5. (Atomic(plan[r]) => server[r] = "open") /\ (~Atomic(plan[r]) => server[r] = "none")
      BY <1>1 DEF Local, ServerInv
    <1>6. effects[r] = Reached(r, executed[r])
      BY <1>1 DEF Local, EffectsInv
    <1>7. Reached(r, executed[r] + 1) =
            Reached(r, executed[r]) \cup (IF AtOnce(r) THEN {executed[r] + 1} ELSE {})
      BY <1>2, <1>3, <1>5 DEF Reached, AtOnce, Current
    <1> QED BY <1>1, <1>2, <1>3, <1>4, <1>5, <1>6, <1>7

LEMMA ExecuteLocal ==
    ASSUME VarType, NEW r \in Request, Local(r), Execute(r)
    PROVE  Local(r)'
    <1> DEFINE n == executed[r]
    <1>1. Running(r) /\ pc[r] = "running" /\ failed[r] = None
      BY DEF Execute, Running
    <1>2. /\ pc'[r] = "running" /\ plan' = plan /\ server'[r] = server[r] /\ failed'[r] = None
          /\ answer'[r] = answer[r] /\ broke' = broke /\ executed'[r] = n + 1
          /\ effects'[r] = effects[r] \cup (IF AtOnce(r) THEN {n + 1} ELSE {})
          /\ pending'[r] = pending[r] \cup (IF AtOnce(r) THEN {} ELSE {n + 1})
      BY <1>1 DEF Execute, VarType, Current
    <1>3. (Atomic(plan[r]))' <=> Atomic(plan[r])
      BY <1>2 DEF Atomic
    <1>4. effects'[r] = Reached(r, n + 1)
      BY <1>1, <1>2, OneMore
    <1>5. (Reached(r, executed[r]))' = Reached(r, n + 1)
      BY <1>2, <1>3 DEF Reached, Lasted
    <1>6. (StartInv(r) /\ CountInv(r) /\ AnswerInv(r))'
      BY <1>1, <1>2, OneMore, PlanLength DEF Local, StartInv, CountInv, AnswerInv
    <1>7. ServerInv(r)'
      <2>1. CASE Atomic(plan[r])
        <3>1. pending[r] = Undone(r, n) /\ server[r] = "open"
          BY <2>1, <1>1 DEF Local, ServerInv
        <3>2. pending'[r] = Undone(r, n + 1)
          BY <3>1, <1>1, <1>2, OneMore DEF AtOnce, Current
        <3>3. (Undone(r, executed[r]))' = Undone(r, n + 1)
          BY <1>2 DEF Undone
        <3> QED BY <2>1, <3>1, <3>2, <3>3, <1>2, <1>3 DEF ServerInv
      <2>2. CASE ~Atomic(plan[r])
        <3>1. server[r] = "none" /\ pending[r] = {}
          BY <2>2, <1>1 DEF Local, ServerInv
        <3> QED BY <2>2, <3>1, <1>2, <1>3 DEF ServerInv, AtOnce
      <2> QED BY <2>1, <2>2
    <1>8. EffectsInv(r)'
      <2>1. (Reached(r, n + 1)) \subseteq 1..(n + 1)
        BY DEF Reached, Lasted
      <2>2. 1..(n + 1) \subseteq 1..(n + 2)
        BY <1>1, OneMore
      <2>3. n + 1 + 1 = n + 2
        BY <1>1, OneMore
      <2>4. (effects[r] \subseteq 1..(executed[r] + 1))'
        BY <2>1, <2>2, <2>3, <1>2, <1>4
      <2> QED BY <2>4, <1>2, <1>4, <1>5 DEF EffectsInv
    <1> QED BY <1>6, <1>7, <1>8 DEF Local

(* A statement failed: nothing is executed, and what took effect is what   *)
(* had been reached, or one statement more where the connection broke      *)
LEMMA FailedLocal ==
    ASSUME VarType, NEW r \in Request, Local(r), Running(r), FailAt(r),
           pc' = pc, plan' = plan, pending' = pending, executed' = executed, answer' = answer,
           broke \subseteq broke',
           \/ effects'[r] = effects[r]
           \/ r \in broke' /\ effects'[r] = Reached(r, executed[r] + 1),
           server[r] = "open" /\ plan[r][Current(r)] # "unsendable" => server'[r] = "aborted",
           server'[r] \in {server[r], "aborted"},
           server[r] = "none" => server'[r] = "none"
    PROVE  Local(r)'
    <1> DEFINE n == executed[r]
    <1>1. /\ n \in Nat /\ n < Len(plan[r]) /\ plan[r] # None /\ pc[r] = "running"
          /\ failed[r] = None /\ effects[r] = Reached(r, n)
      BY OneMore DEF Running
    <1>2. failed'[r] = n + 1 /\ failed'[r] # None
      BY <1>1, PlansAreStatements DEF FailAt, Current, VarType
    <1>3. (Atomic(plan[r]))' <=> Atomic(plan[r])
      BY DEF Atomic
    <1>4. \A k : (Reached(r, k))' = Reached(r, k) /\ (Undone(r, k))' = Undone(r, k)
      BY <1>3 DEF Reached, Lasted, Undone
    <1>5. (StartInv(r) /\ CountInv(r) /\ AnswerInv(r))'
      BY <1>1, <1>2 DEF Local, StartInv, CountInv, AnswerInv
    <1>6. ServerInv(r)'
      BY <1>1, <1>2, <1>3, <1>4 DEF Local, ServerInv, Current
    <1>7. effects'[r] \subseteq 1..(n + 1)
      BY <1>1 DEF Local, EffectsInv, Reached, Lasted
    <1>8. EffectsInv(r)'
      BY <1>1, <1>2, <1>4, <1>7 DEF EffectsInv
    <1> QED BY <1>5, <1>6, <1>8 DEF Local

(* What makes a statement fail: PostgreSQL, the driver, the connection     *)
LEMMA RejectLocal ==
    ASSUME VarType, NEW r \in Request, Local(r), Reject(r)
    PROVE  Local(r)'
    <1>1. server'[r] = IF server[r] = "open" THEN "aborted" ELSE server[r]
      BY DEF Reject, VarType
    <1> QED BY <1>1, FailedLocal DEF Reject

LEMMA UnsentLocal ==
    ASSUME VarType, NEW r \in Request, Local(r), Unsent(r)
    PROVE  Local(r)'
    BY FailedLocal DEF Unsent

LEMMA BreakLocal ==
    ASSUME VarType, NEW r \in Request, Local(r), Break(r)
    PROVE  Local(r)'
    <1>1. server'[r] = IF server[r] = "open" THEN "aborted" ELSE server[r]
      BY DEF Break, VarType
    <1>2. \/ effects'[r] = effects[r]
          \/ AtOnce(r) /\ effects'[r] = effects[r] \cup {executed[r] + 1}
      BY DEF Break, VarType, Current
    <1>3. \/ effects'[r] = effects[r]
          \/ effects'[r] = Reached(r, executed[r] + 1)
      BY <1>2, OneMore DEF Break
    <1>4. r \in broke' /\ broke \subseteq broke'
      BY DEF Break
    <1> QED BY <1>1, <1>3, <1>4, FailedLocal DEF Break

(* The transaction block ends: all statements ran, and committing adds what *)
(* a rollback would have undone; or one failed, and there is nothing to add *)
LEMMA AtCommit ==
    ASSUME VarType, NEW r \in Request, Local(r), Finished(r), Atomic(plan[r])
    PROVE  /\ plan[r] # None /\ pc[r] = "running" /\ executed[r] \in Nat
           /\ failed[r] = None =>
                /\ executed[r] = Len(plan[r])
                /\ server[r] = "open"
                /\ effects[r] = Lasted(r, Len(plan[r]))
                /\ effects[r] \cup pending[r] = 1..Len(plan[r])
           /\ pending[r] \subseteq 1..(executed[r] + 1)
           /\ SendableFirst /\ failed[r] # None =>
                /\ server[r] = "open" => pending[r] = {}
                /\ \/ effects[r] = Reached(r, executed[r])
                   \/ r \in broke /\ effects[r] = Reached(r, executed[r] + 1)
    <1>1. pc[r] = "running" /\ plan[r] # None /\ executed[r] \in Nat
      BY DEF Finished, Local, StartInv, VarType
    <1>2. plan[r] \in Plans /\ DOMAIN plan[r] = 1..Len(plan[r]) /\ Len(plan[r]) \in Nat
      BY <1>1, PlanLength
    <1>3. pending[r] = Undone(r, executed[r])
      BY <1>1 DEF Local, ServerInv
    <1>4. ASSUME failed[r] = None
          PROVE  /\ executed[r] = Len(plan[r])
                 /\ server[r] = "open"
                 /\ effects[r] = Lasted(r, Len(plan[r]))
                 /\ effects[r] \cup pending[r] = 1..Len(plan[r])
      <2>1. executed[r] = Len(plan[r]) /\ server[r] = "open"
        BY <1>1, <1>4 DEF Finished, Local, ServerInv
      <2>2. effects[r] = Lasted(r, Len(plan[r]))
        BY <1>1, <1>4, <2>1 DEF Local, EffectsInv, Reached
      <2> QED BY <1>3, <2>1, <2>2 DEF Lasted, Undone
    <1>5. ASSUME SendableFirst, failed[r] # None, server[r] = "open"
          PROVE  pending[r] = {}
      <2>1. plan[r][executed[r] + 1] = "unsendable" /\ executed[r] + 1 \in DOMAIN plan[r]
        BY <1>1, <1>2, <1>5 DEF Local, ServerInv, CountInv
      <2>2. \A j \in 1..executed[r] : plan[r][j] = "immediate"
        BY <1>1, <1>2, <1>5, <2>1 DEF SendableFirst
      <2> QED BY <1>3, <2>2 DEF Undone
    <1>6. SendableFirst /\ failed[r] # None =>
            \/ effects[r] = Reached(r, executed[r])
            \/ r \in broke /\ effects[r] = Reached(r, executed[r] + 1)
      BY <1>1 DEF Local, EffectsInv
    <1>7. pending[r] \subseteq 1..(executed[r] + 1)
      BY <1>1, <1>3 DEF Undone
    <1> QED BY <1>1, <1>4, <1>5, <1>6, <1>7

(* The transaction block has ended                                         *)
LEMMA CloseLocal ==
    ASSUME VarType, NEW r \in Request, Local(r), Close(r)
    PROVE  Local(r)'
    <1>1. Finished(r) /\ Atomic(plan[r])
      BY DEF Close
    <1>2. /\ pc'[r] = "closed" /\ plan' = plan /\ server'[r] = "none" /\ pending'[r] = {}
          /\ executed' = executed /\ failed' = failed /\ answer' = answer /\ broke' = broke
          /\ effects'[r] = IF server[r] = "open" THEN effects[r] \cup pending[r] ELSE effects[r]
      BY DEF Close, VarType, Goto
    <1>3. (Atomic(plan[r]))' /\ \A n : (Reached(r, n))' = Reached(r, n)
      BY <1>1, <1>2 DEF Atomic, Reached, Lasted
    <1>4. (StartInv(r) /\ CountInv(r) /\ AnswerInv(r))'
      BY <1>1, <1>2, AtCommit DEF Local, StartInv, CountInv, AnswerInv
    <1>5. ServerInv(r)'
      BY <1>2, <1>3 DEF ServerInv
    <1>6. EffectsInv(r)'
      <2>1. CASE failed[r] = None
        <3>1. effects'[r] = 1..Len(plan[r]) /\ executed[r] = Len(plan[r]) /\ Len(plan[r]) \in Nat
          BY <1>1, <1>2, <2>1, AtCommit, PlanLength
        <3>2. 1..Len(plan[r]) \subseteq 1..(Len(plan[r]) + 1)
          BY <3>1
        <3> QED BY <1>2, <2>1, <3>1, <3>2 DEF EffectsInv
      <2>2. CASE failed[r] # None
        <3>1. SendableFirst => effects'[r] = effects[r]
          BY <1>1, <1>2, <2>2, AtCommit
        <3>2. effects'[r] \subseteq 1..(executed[r] + 1)
          BY <1>1, <1>2, AtCommit DEF Local, EffectsInv
        <3>3. SendableFirst =>
                \/ effects[r] = Reached(r, executed[r])
                \/ r \in broke /\ effects[r] = Reached(r, executed[r] + 1)
          BY <1>1, <2>2, AtCommit
        <3> QED BY <1>2, <1>3, <2>2, <3>1, <3>2, <3>3 DEF EffectsInv
      <2> QED BY <2>1, <2>2
    <1> QED BY <1>4, <1>5, <1>6 DEF Local

(* What the answer of a request says                                       *)
LEMMA AnsweredLocal ==
    ASSUME VarType, NEW r \in Request, Local(r), pc[r] \in {"running", "closed"},
           pc'[r] = "answered", plan' = plan, server'[r] = "none", pending'[r] = {},
           effects' = effects, executed' = executed, failed' = failed,
           answer'[r] \in Answer,
           (Right(r, answer[r].ok, answer[r].executed))'
    PROVE  Local(r)'
    <1>1. plan[r] # None
      BY DEF Local, StartInv
    <1>2. (StartInv(r) /\ CountInv(r) /\ ServerInv(r) /\ EffectsInv(r))'
      BY <1>1 DEF Local, StartInv, CountInv, ServerInv, EffectsInv
    <1>3. AnswerInv(r)'
      BY DEF AnswerInv
    <1> QED BY <1>2, <1>3 DEF Local

(* The three ways an answer is made                                        *)
LEMMA CommitLostLocal ==
    ASSUME VarType, NEW r \in Request, Local(r), CommitLost(r)
    PROVE  Local(r)'
    <1>1. [ok |-> FALSE, executed |-> 0] \in Answer
      BY DEF Answer
    <1>2. answer'[r] = [ok |-> FALSE, executed |-> 0] /\ server'[r] = "none" /\ pending'[r] = {}
          /\ pc'[r] = "answered" /\ r \in broke'
      BY DEF CommitLost, VarType, Goto
    <1>3. (Right(r, answer[r].ok, answer[r].executed))'
      BY <1>2 DEF Right
    <1> QED BY <1>1, <1>2, <1>3, AnsweredLocal DEF CommitLost, Finished

LEMMA ReturnLostLocal ==
    ASSUME VarType, NEW r \in Request, Local(r), ReturnLost(r)
    PROVE  Local(r)'
    <1>1. [ok |-> FALSE, executed |-> 0] \in Answer
      BY DEF Answer
    <1>2. answer'[r] = [ok |-> FALSE, executed |-> 0] /\ pc'[r] = "answered" /\ r \in broke'
          /\ server'[r] = server[r] /\ pending'[r] = pending[r]
      BY DEF ReturnLost, VarType, Goto
    <1>3. (Right(r, answer[r].ok, answer[r].executed))'
      BY <1>2 DEF Right
    <1>4. server[r] = "none" /\ pending[r] = {}
      BY DEF ReturnLost, Local, ServerInv
    <1> QED BY <1>1, <1>2, <1>3, <1>4, AnsweredLocal DEF ReturnLost

LEMMA ReturnLocal ==
    ASSUME VarType, NEW r \in Request, Local(r), Return(r)
    PROVE  Local(r)'
    <1>1. /\ answer'[r] = Result(r) /\ pc'[r] = "answered" /\ server'[r] = server[r] /\ pending'[r] = pending[r]
          /\ plan' = plan /\ effects' = effects /\ executed' = executed /\ failed' = failed /\ broke' = broke
      BY DEF Return, VarType, Goto
    <1>2. Result(r) \in Answer
      BY DEF Result, Answer, VarType
    <1>3. pc[r] \in {"running", "closed"} /\ server[r] = "none" /\ pending[r] = {}
      BY DEF Return, Finished, Local, ServerInv
    <1>4. plan[r] # None /\ DOMAIN plan[r] = 1..Len(plan[r]) /\ Len(plan[r]) \in Nat /\ executed[r] \in Nat
      BY <1>3, PlanLength DEF Local, StartInv, VarType
    <1>5. Right(r, Result(r).ok, Result(r).executed)
      <2> SUFFICES ASSUME SendableFirst, r \notin broke
                   PROVE  effects[r] \ (IF Atomic(plan[r]) /\ ~Result(r).ok
                                        THEN {i \in DOMAIN plan[r] : Lasting(plan[r][i])} ELSE {})
                            = 1..Result(r).executed
        BY DEF Right
      <2>1. CASE failed[r] = None
        <3>1. executed[r] = Len(plan[r]) /\ effects[r] = 1..Len(plan[r])
          BY <2>1, <1>3, <1>4 DEF Return, Finished, Local, EffectsInv, ServerInv, Reached
        <3>2. Result(r).ok = TRUE /\ Result(r).executed = executed[r]
          BY <2>1 DEF Result
        <3> QED BY <3>1, <3>2
      <2>2. CASE failed[r] # None
        <3>1. effects[r] = Reached(r, executed[r]) /\ executed[r] < Len(plan[r])
          BY <2>2, <1>3, <1>4 DEF Local, EffectsInv, CountInv
        <3>2. Result(r).ok = FALSE /\ Result(r).executed = IF Atomic(plan[r]) THEN 0 ELSE executed[r]
          BY <2>2 DEF Result
        <3> QED BY <3>1, <3>2, <1>4 DEF Reached, Lasted, Lasting
      <2> QED BY <2>1, <2>2
    <1>6. (Right(r, answer[r].ok, answer[r].executed))'
      BY <1>1, <1>5 DEF Right, Atomic
    <1> QED BY <1>1, <1>2, <1>3, <1>6, AnsweredLocal

-----------------------------------------------------------------------------
(* Every step keeps every request's part of the invariant                  *)
LEMMA ProceedLocal ==
    ASSUME VarType, NEW r \in Request, Local(r), Proceed(r)
    PROVE  Local(r)'
    BY PlanLocal, RefuseLocal, ConnectLocal, NoConnectionLocal, ExecuteLocal, RejectLocal, UnsentLocal,
       BreakLocal, CloseLocal, CommitLostLocal, ReturnLocal, ReturnLostLocal, AuditLocal, AuditRefusedLocal
       DEF Proceed

(* A killed process answers nothing, and PostgreSQL rolled back            *)
LEMMA KillLocal ==
    ASSUME VarType, NEW s \in Request, Local(s), Kill
    PROVE  Local(s)'
    <1>1. /\ plan' = plan /\ effects' = effects /\ executed' = executed /\ failed' = failed
          /\ answer' = answer /\ broke' = broke /\ server'[s] = "none" /\ pending'[s] = {}
          /\ pc'[s] = IF pc[s] \in {"new", "done"} THEN pc[s] ELSE "killed"
      BY DEF Kill
    <1>2. (StartInv(s) /\ CountInv(s) /\ ServerInv(s) /\ AnswerInv(s))'
      BY <1>1 DEF Local, StartInv, CountInv, ServerInv, AnswerInv
    <1>3. EffectsInv(s)'
      BY <1>1 DEF Local, EffectsInv
    <1> QED BY <1>2, <1>3 DEF Local

(* No step breaks any request's part, its own or another's                 *)
LEMMA LocalStep ==
    ASSUME VarType, \A r \in Request : Local(r), [Next]_vars, NEW s \in Request
    PROVE  Local(s)'
    <1>1. CASE UNCHANGED vars
      BY <1>1, SameKeeps DEF vars, Same
    <1>2. CASE ChangeProfile \/ DeleteUser
      BY <1>2, SameKeeps DEF ChangeProfile, DeleteUser, Same
    <1>3. CASE Kill
      BY <1>3, KillLocal
    <1>4. ASSUME NEW r \in Request, Proceed(r)
          PROVE  Local(s)'
      <2>1. CASE s = r
        BY <1>4, <2>1, ProceedLocal
      <2>2. CASE s # r
        BY <1>4, <2>2, OthersSame, SameKeeps
      <2> QED BY <2>1, <2>2
    <1> QED BY <1>1, <1>2, <1>3, <1>4 DEF Next

-----------------------------------------------------------------------------
(* A step that ends a request, and what the audit log says afterwards      *)
LEMMA RightKept ==
    ASSUME NEW s \in Request, plan'[s] = plan[s], effects'[s] = effects[s],
           s \in broke => s \in broke', NEW ok, NEW n, Right(s, ok, n)
    PROVE  (Right(s, ok, n))'
    <1>1. (Atomic(plan[s]))' <=> Atomic(plan[s])
      BY DEF Atomic
    <1> QED BY <1>1 DEF Right

(* A request that is over never changes again                              *)
LEMMA DoneStays ==
    ASSUME VarType, [Next]_vars, NEW s \in Request, pc[s] = "done"
    PROVE  /\ pc'[s] = "done" /\ plan'[s] = plan[s] /\ effects'[s] = effects[s]
           /\ s \in broke => s \in broke'
    <1>1. CASE UNCHANGED vars
      BY <1>1 DEF vars
    <1>2. CASE ChangeProfile \/ DeleteUser
      BY <1>2 DEF ChangeProfile, DeleteUser
    <1>3. CASE Kill
      BY <1>3 DEF Kill
    <1>4. ASSUME NEW r \in Request, Proceed(r)
          PROVE  /\ pc'[s] = "done" /\ plan'[s] = plan[s] /\ effects'[s] = effects[s]
                 /\ s \in broke => s \in broke'
      <2>1. s # r
        BY <1>4 DEF Proceed, Plan, Refuse, Connect, NoConnection, Execute, Reject, Unsent, Break,
                    Close, CommitLost, Return, ReturnLost, Audit, AuditRefused, Running, Finished
      <2> QED BY <1>4, <2>1, OthersSame DEF Same
    <1> QED BY <1>1, <1>2, <1>3, <1>4 DEF Next

(* Only Audit writes to the audit log                                      *)
LEMMA AuditWrites ==
    ASSUME [Next]_vars
    PROVE  \/ audit' = audit
           \/ \E r \in Request : Audit(r)
    BY DEF Next, vars, ChangeProfile, DeleteUser, Kill, Proceed, Plan, Refuse, Connect, NoConnection, Execute,
           Reject, Unsent, Break, Close, CommitLost, Return, ReturnLost, AuditRefused

(* The rows of the audit log stay right                                    *)
LEMMA AuditStep ==
    ASSUME VarType, \A r \in Request : Local(r), AuditInv, [Next]_vars
    PROVE  AuditInv'
    <1>1. \A a \in audit : (pc[a.request] = "done" /\ Right(a.request, a.ok, a.executed))'
      <2> SUFFICES ASSUME NEW a \in audit
                   PROVE  (pc[a.request] = "done")' /\ (Right(a.request, a.ok, a.executed))'
        OBVIOUS
      <2>1. a.request \in Request /\ pc[a.request] = "done" /\ Right(a.request, a.ok, a.executed)
        BY DEF VarType, AuditInv
      <2> QED BY <2>1, DoneStays, RightKept
    <1>2. CASE audit' = audit
      BY <1>1, <1>2 DEF AuditInv
    <1>3. ASSUME NEW r \in Request, Audit(r)
          PROVE  AuditInv'
      <2>1. audit' = audit \cup {Entry(r)} /\ pc'[r] = "done" /\ plan' = plan /\ effects' = effects /\ broke' = broke
        BY <1>3 DEF Audit, Goto, VarType
      <2>2. Right(r, answer[r].ok, answer[r].executed)
        BY <1>3 DEF Audit, Local, AnswerInv
      <2>3. Entry(r).request = r /\ Entry(r).ok = answer[r].ok /\ Entry(r).executed = answer[r].executed
        BY DEF Entry
      <2>4. ASSUME NEW a \in audit'
            PROVE  pc'[a.request] = "done" /\ (Right(a.request, a.ok, a.executed))'
        <3>1. CASE a \in audit
          BY <1>1, <3>1
        <3>2. CASE a = Entry(r)
          <4>1. Right(a.request, a.ok, a.executed) /\ a.request = r
            BY <2>2, <2>3, <3>2
          <4> QED BY <4>1, <2>1, RightKept
        <3> QED BY <2>1, <3>1, <3>2
      <2> QED BY <2>4 DEF AuditInv
    <1> QED BY <1>2, <1>3, AuditWrites

(* Connections break only where they may                                   *)
LEMMA BrokeStep ==
    ASSUME BrokeInv, [Next]_vars
    PROVE  BrokeInv'
    BY DEF BrokeInv, Next, vars, ChangeProfile, DeleteUser, Kill, Proceed, Plan, Refuse, Connect, NoConnection, Execute,
           Reject, Unsent, Break, Close, CommitLost, Return, ReturnLost, Audit, AuditRefused

(* A request ends with nothing done, with its row, or with the row refused *)
LEMMA EndsAudited ==
    ASSUME VarType, \A r \in Request : Local(r), [Next]_vars,
           NEW s \in Request, pc[s] # "done", pc'[s] = "done", effects'[s] # {}
    PROVE  \/ \E a \in audit' : a.request = s
           \/ Postgres /\ Orphan(s)'
    <1>1. ~ UNCHANGED vars /\ ~ ChangeProfile /\ ~ DeleteUser /\ ~ Kill
      BY DEF vars, ChangeProfile, DeleteUser, Kill
    <1>2. PICK r \in Request : Proceed(r)
      BY <1>1 DEF Next
    <1>3. s = r
      BY <1>2, OthersSame DEF Same
    <1>4. Refuse(s) \/ NoConnection(s) \/ Audit(s) \/ AuditRefused(s)
      BY <1>2, <1>3 DEF Proceed, Plan, Connect, Execute, Reject, Unsent, Break, Close, CommitLost, Return,
                        ReturnLost, Goto, VarType
    <1>5. effects[s] = effects'[s] /\ (pc[s] \in {"new", "planned"} => effects[s] = {})
      BY <1>4 DEF Refuse, NoConnection, Audit, AuditRefused, Local, StartInv
    <1>6. CASE Audit(s)
      <2>1. Entry(s) \in audit' /\ Entry(s).request = s
        BY <1>6 DEF Audit, Entry
      <2> QED BY <2>1
    <1>7. CASE AuditRefused(s)
      BY <1>7 DEF AuditRefused, Orphan
    <1> QED BY <1>4, <1>5, <1>6, <1>7 DEF Refuse, NoConnection

(* What took effect stays audited                                          *)
LEMMA AppliedStep ==
    ASSUME VarType, \A r \in Request : Local(r), AppliedIsAudited, [Next]_vars
    PROVE  AppliedIsAudited'
    <1> SUFFICES ASSUME NEW s \in Request, pc'[s] = "done", effects'[s] # {}
                 PROVE  \/ \E a \in audit' : a.request = s
                        \/ Postgres /\ Orphan(s)'
      BY DEF AppliedIsAudited
    <1>1. CASE pc[s] # "done"
      BY <1>1, EndsAudited
    <1>2. CASE pc[s] = "done"
      <2>1. effects[s] # {}
        BY <1>2, DoneStays
      <2>2. \/ \E a \in audit : a.request = s
            \/ Postgres /\ Orphan(s)
        BY <1>2, <2>1 DEF AppliedIsAudited
      <2>3. audit \subseteq audit'
        BY AuditWrites DEF Audit
      <2>4. Orphan(s) => Orphan(s)'
        BY DEF Orphan, Next, vars, ChangeProfile, DeleteUser, Kill, Proceed, Plan, Refuse,
               Connect, NoConnection, Execute,
           Reject, Unsent, Break, Close, CommitLost, Return, ReturnLost, Audit, AuditRefused
      <2> QED BY <2>2, <2>3, <2>4
    <1> QED BY <1>1, <1>2

-----------------------------------------------------------------------------
(* The invariant holds at first, and every step keeps it                   *)
LEMMA InitInv ==
    ASSUME Init
    PROVE  IInv
    <1>1. VarType
      BY DEF Init, VarType, Phase
    <1>2. ASSUME NEW r \in Request
          PROVE  Local(r)
      BY DEF Init, Local, StartInv, CountInv, ServerInv, EffectsInv, AnswerInv
    <1> QED BY <1>1, <1>2 DEF Init, IInv, AuditInv, BrokeInv, AppliedIsAudited

LEMMA IInvStep ==
    ASSUME IInv, [Next]_vars
    PROVE  IInv'
    <1>1. VarType /\ (\A r \in Request : Local(r)) /\ AuditInv /\ BrokeInv /\ AppliedIsAudited
      BY DEF IInv
    <1>2. VarType'
      BY <1>1, TypeStep
    <1>3. \A s \in Request : Local(s)'
      BY <1>1, LocalStep
    <1>4. AuditInv' /\ BrokeInv' /\ AppliedIsAudited'
      BY <1>1, AuditStep, BrokeStep, AppliedStep
    <1> QED BY <1>2, <1>3, <1>4 DEF IInv

(* What the state can be, and that the audit log has a row for every       *)
(* request that took effect: for any plans, the unsendable ones included   *)
THEOREM Invariance == Spec => []IInv
    <1>1. Init => IInv
      BY InitInv
    <1>2. IInv /\ [Next]_vars => IInv'
      BY IInvStep
    <1> QED BY <1>1, <1>2, PTL DEF Spec

(* The counters and effects of a request stay within its plan, and nothing *)
(* waits to be committed outside a transaction (pg/changes.py:842-871)     *)
THEOREM TypeCorrect == Spec => []TypeOK
    <1>1. IInv => TypeOK
      <2> SUFFICES ASSUME IInv PROVE TypeOK
        OBVIOUS
      <2>1. VarType
        BY DEF IInv
      <2>2. ASSUME NEW r \in Request
            PROVE  /\ plan[r] = None => executed[r] = 0 /\ effects[r] = {}
                   /\ plan[r] # None =>
                        /\ executed[r] \in 0..Len(plan[r])
                        /\ failed[r] \in {None, executed[r] + 1}
                        /\ pending[r] \cup effects[r] \subseteq 1..(executed[r] + 1)
                        /\ pending[r] # {} => server[r] # "none"
        <3>1. Local(r)
          BY DEF IInv
        <3>2. plan[r] = None => executed[r] = 0 /\ effects[r] = {}
          BY <3>1 DEF Local, StartInv
        <3>3. ASSUME plan[r] # None
              PROVE  executed[r] \in 0..Len(plan[r]) /\ failed[r] \in {None, executed[r] + 1}
          BY <2>1, <3>1, <3>3, PlanLength DEF Local, CountInv, VarType
        <3>4. pending[r] \subseteq 1..(executed[r] + 1) /\ (pending[r] # {} => server[r] # "none")
          BY <2>1, <3>1 DEF Local, ServerInv, VarType, Undone
        <3> QED BY <3>1, <3>2, <3>3, <3>4 DEF Local, EffectsInv
      <2> QED BY <2>1, <2>2 DEF TypeOK, VarType, Phase
    <1> QED BY <1>1, Invariance, PTL

(* A request that is over and took effect, in whole or in part, has its    *)
(* row in the audit log, or the profile or the account that the row names  *)
(* was deleted and PostgreSQL refused the row (api/changes.py:45-61,       *)
(* db/models.py:74-75)                                                     *)
THEOREM AppliedAudited == Spec => []AppliedIsAudited
    <1>1. IInv => AppliedIsAudited
      BY DEF IInv
    <1> QED BY <1>1, Invariance, PTL

(* Where nothing undoable precedes an unsendable statement, the count of   *)
(* an audit row is that of the statements that took effect (pg/changes.py: *)
(* 867-871)                                                                *)
THEOREM AuditCounts ==
    ASSUME SendableFirst
    PROVE  Spec => []AuditCountsEffects
    <1>1. IInv => AuditCountsEffects
      BY DEF IInv, AuditInv, Right, AuditCountsEffects
    <1> QED BY <1>1, Invariance, PTL

-----------------------------------------------------------------------------
(* A step of a request is a step of the contract, or changes nothing there *)

LEMMA TakesEffect ==
    ASSUME VarType, NEW r \in Request, Local(r), Running(r), AtOnce(r),
           plan' = plan, answer' = answer,
           effects' = [effects EXCEPT ![r] = @ \cup {Current(r)}]
    PROVE  Contract!TakeEffect(r)
    <1> DEFINE n == executed[r] + 1
    <1>1. plan[r] # None /\ answer[r] = None /\ n - 1 = executed[r] /\ n \in DOMAIN plan[r]
      BY OneMore, PlanLength DEF Running, Local, StartInv
    <1>2. effects[r] = Reached(r, n - 1) /\ effects' = [effects EXCEPT ![r] = @ \cup {n}]
      BY <1>1, OneMore DEF Current
    <1>3. CASE Atomic(plan[r])
      <2>1. Lasting(plan[r][n])
        BY <1>3, OneMore DEF AtOnce, Lasting, Current
      <2>2. effects[r] = Contract!LastingUpTo(r, n - 1)
        BY <1>2, <1>3 DEF Reached, Lasted, Contract!LastingUpTo, Lasting
      <2>3. Contract!Atomic(plan[r])
        BY <1>3 DEF Atomic, Contract!Atomic
      <2> QED BY <1>1, <1>2, <2>1, <2>2, <2>3 DEF Contract!TakeEffect, Contract!All
    <1>4. CASE ~Atomic(plan[r])
      <2>1. ~Contract!Atomic(plan[r])
        BY <1>4 DEF Atomic, Contract!Atomic
      <2>2. effects[r] = 1..(n - 1) /\ 1..n = (1..(n - 1)) \cup {n}
        BY <1>1, <1>2, <1>4, OneMore DEF Reached
      <2>3. effects' = [effects EXCEPT ![r] = 1..n]
        BY <1>2, <2>2
      <2> QED BY <1>1, <2>1, <2>2, <2>3 DEF Contract!TakeEffect, Contract!All
    <1> QED BY <1>3, <1>4

(* The end of the transaction block commits all of the plan or nothing new *)
LEMMA Commits ==
    ASSUME SendableFirst, VarType, NEW r \in Request, Local(r), Close(r)
    PROVE  Contract!Commit(r) \/ UNCHANGED <<plan, effects, answer>>
    <1>1. Finished(r) /\ Atomic(plan[r]) /\ plan' = plan /\ answer' = answer
      BY DEF Close
    <1>2. plan[r] # None /\ answer[r] = None /\ DOMAIN plan[r] = 1..Len(plan[r])
      BY <1>1, PlanLength DEF Finished, Local, StartInv
    <1>3. CASE failed[r] = None
      <2>1. effects[r] = Lasted(r, Len(plan[r])) /\ effects[r] \cup pending[r] = 1..Len(plan[r]) /\ server[r] = "open"
        BY <1>1, <1>3, AtCommit
      <2>2. effects' = [effects EXCEPT ![r] = 1..Len(plan[r])]
        BY <2>1 DEF Close
      <2>3. effects[r] = Contract!LastingUpTo(r, Len(plan[r]))
        BY <2>1 DEF Lasted, Contract!LastingUpTo, Lasting
      <2> QED BY <1>1, <1>2, <2>2, <2>3 DEF Contract!Commit, Contract!Atomic, Contract!All, Atomic
    <1>4. CASE failed[r] # None
      <2>1. effects'[r] = effects[r]
        BY <1>1, <1>4, AtCommit DEF Close, VarType
      <2> QED BY <1>1, <2>1 DEF Close, VarType
    <1> QED BY <1>3, <1>4

(* The effects that a request whose statements are over can have           *)
LEMMA AfterFailures ==
    ASSUME SendableFirst, VarType, BrokeInv, NEW r \in Request, Local(r),
           pc[r] = "closed" \/ Finished(r)
    PROVE  /\ plan[r] # None /\ answer[r] = None /\ DOMAIN plan[r] = 1..Len(plan[r]) /\ Len(plan[r]) \in Nat
           /\ executed[r] \in 0..Len(plan[r])
           /\ Atomic(plan[r]) /\ failed[r] # None => effects[r] \in Contract!AfterFailure(r, 0)
           /\ Atomic(plan[r]) /\ Breaks => effects[r] \in Contract!AfterFailure(r, 0)
           /\ ~Atomic(plan[r]) /\ failed[r] # None => effects[r] \in Contract!AfterFailure(r, executed[r])
           /\ (pc[r] = "closed" \/ ~Atomic(plan[r])) /\ failed[r] = None =>
                executed[r] = Len(plan[r]) /\ effects[r] = 1..Len(plan[r])
    <1>1. pc[r] \in {"running", "closed"}
      BY DEF Finished
    <1>2. plan[r] # None /\ answer[r] = None /\ DOMAIN plan[r] = 1..Len(plan[r]) /\ Len(plan[r]) \in Nat
      BY <1>1, PlanLength DEF Local, StartInv
    <1>3. executed[r] \in 0..Len(plan[r]) /\ (failed[r] # None => executed[r] + 1 \in 0..Len(plan[r]))
      BY <1>2 DEF Local, CountInv, VarType
    <1>4. failed[r] # None =>
            \/ effects[r] = Reached(r, executed[r])
            \/ Breaks /\ effects[r] = Reached(r, executed[r] + 1)
      BY <1>1 DEF Local, EffectsInv, BrokeInv
    <1>5. \A n : Contract!LastingUpTo(r, n) = Lasted(r, n)
      BY DEF Contract!LastingUpTo, Lasted, Lasting
    <1>6. Contract!Atomic(plan[r]) <=> Atomic(plan[r])
      BY DEF Contract!Atomic, Atomic
    <1>7. failed[r] = None =>
            \/ pc[r] = "closed" /\ executed[r] = Len(plan[r]) /\ effects[r] = 1..Len(plan[r])
            \/ pc[r] = "running" /\ executed[r] = Len(plan[r]) /\ effects[r] = Reached(r, Len(plan[r]))
      BY <1>1 DEF Finished, Local, EffectsInv
    <1>8. ASSUME Atomic(plan[r])
          PROVE  Contract!AfterFailure(r, 0) =
                   {Lasted(r, i) : i \in 0..Len(plan[r])} \cup (IF Breaks THEN {1..Len(plan[r])} ELSE {})
      BY <1>2, <1>5, <1>6, <1>8 DEF Contract!AfterFailure, Contract!All
    <1>9. Atomic(plan[r]) => \A n : Reached(r, n) = Lasted(r, n)
      BY DEF Reached
    <1>10. Atomic(plan[r]) /\ failed[r] # None => effects[r] \in Contract!AfterFailure(r, 0)
      BY <1>3, <1>4, <1>8, <1>9
    <1>11. Len(plan[r]) \in 0..Len(plan[r])
      BY <1>2
    <1>12. Atomic(plan[r]) /\ Breaks => effects[r] \in Contract!AfterFailure(r, 0)
      BY <1>7, <1>8, <1>9, <1>10, <1>11
    <1>13. ASSUME ~Atomic(plan[r]), failed[r] # None
           PROVE  effects[r] \in Contract!AfterFailure(r, executed[r])
      BY <1>4, <1>6, <1>13 DEF Contract!AfterFailure, Reached
    <1>14. ~Atomic(plan[r]) => Reached(r, Len(plan[r])) = 1..Len(plan[r])
      BY DEF Reached
    <1> QED BY <1>2, <1>3, <1>7, <1>10, <1>12, <1>13, <1>14

(* The answers: what each says is what the contract allows                 *)
LEMMA Fails ==
    ASSUME NEW r \in Request, NEW n, plan[r] # None, answer[r] = None, n \in 0..Len(plan[r]),
           Atomic(plan[r]) => n = 0, effects[r] \in Contract!AfterFailure(r, n),
           answer' = [answer EXCEPT ![r] = [ok |-> FALSE, executed |-> n]],
           plan' = plan, effects' = effects
    PROVE  Contract!Fail(r)
    BY DEF Contract!Fail, Contract!Atomic, Atomic

LEMMA Returns ==
    ASSUME SendableFirst, VarType, BrokeInv, NEW r \in Request, Local(r), Return(r)
    PROVE  Contract!Succeed(r) \/ Contract!Fail(r)
    <1>1. /\ pc[r] = "closed" \/ Finished(r)
          /\ pc[r] = "closed" \/ ~Atomic(plan[r])
          /\ answer' = [answer EXCEPT ![r] = Result(r)]
          /\ plan' = plan /\ effects' = effects
      BY DEF Return
    <1>2. plan[r] # None /\ answer[r] = None /\ DOMAIN plan[r] = 1..Len(plan[r]) /\ 0 \in 0..Len(plan[r])
      BY <1>1, AfterFailures
    <1>3. CASE failed[r] = None
      <2>1. effects[r] = 1..Len(plan[r]) /\ Result(r) = [ok |-> TRUE, executed |-> Len(plan[r])]
        BY <1>1, <1>3, AfterFailures DEF Result
      <2> QED BY <1>1, <1>2, <2>1 DEF Contract!Succeed, Contract!All
    <1>4. CASE failed[r] # None
      <2>1. CASE Atomic(plan[r])
        <3>1. effects[r] \in Contract!AfterFailure(r, 0) /\ Result(r) = [ok |-> FALSE, executed |-> 0]
          BY <1>1, <1>4, <2>1, AfterFailures DEF Result
        <3> QED BY <1>1, <1>2, <3>1, Fails
      <2>2. CASE ~Atomic(plan[r])
        <3>1. /\ effects[r] \in Contract!AfterFailure(r, executed[r])
              /\ Result(r) = [ok |-> FALSE, executed |-> executed[r]]
              /\ executed[r] \in 0..Len(plan[r])
          BY <1>1, <1>4, <2>2, AfterFailures DEF Result
        <3> QED BY <1>1, <1>2, <2>2, <3>1, Fails
      <2> QED BY <2>1, <2>2
    <1> QED BY <1>3, <1>4

LEMMA Losses ==
    ASSUME SendableFirst, VarType, BrokeInv, NEW r \in Request, Local(r), CommitLost(r) \/ ReturnLost(r)
    PROVE  Contract!Fail(r)
    <1>1. /\ pc[r] = "closed" \/ Finished(r)
          /\ Atomic(plan[r]) /\ Breaks
          /\ answer' = [answer EXCEPT ![r] = [ok |-> FALSE, executed |-> 0]]
          /\ plan' = plan /\ effects' = effects
      BY DEF CommitLost, ReturnLost, Local, ServerInv
    <1>2. plan[r] # None /\ answer[r] = None /\ 0 \in 0..Len(plan[r]) /\ effects[r] \in Contract!AfterFailure(r, 0)
      BY <1>1, AfterFailures
    <1> QED BY <1>1, <1>2, Fails

LEMMA BreakMaps ==
    ASSUME VarType, NEW r \in Request, Local(r), Break(r)
    PROVE  Contract!TakeEffect(r) \/ UNCHANGED <<plan, effects, answer>>
    <1>1. Running(r) /\ plan' = plan /\ answer' = answer
      BY DEF Break
    <1>2. CASE UNCHANGED effects
      BY <1>1, <1>2
    <1>3. CASE AtOnce(r) /\ effects' = [effects EXCEPT ![r] = @ \cup {Current(r)}]
      BY <1>1, <1>3, TakesEffect
    <1> QED BY <1>2, <1>3 DEF Break

LEMMA ProceedMaps ==
    ASSUME SendableFirst, VarType, BrokeInv, NEW r \in Request, Local(r), Proceed(r)
    PROVE  [Contract!Next]_<<plan, effects, answer>>
    <1>1. CASE Plan(r)
      <2>1. Contract!Submit(r)
        BY <1>1 DEF Plan, Local, StartInv, Contract!Submit
      <2> QED BY <2>1 DEF Contract!Next
    <1>2. CASE Execute(r)
      <2>1. CASE AtOnce(r)
        BY <1>2, <2>1, TakesEffect DEF Execute, Contract!Next
      <2>2. CASE ~AtOnce(r)
        BY <1>2, <2>2 DEF Execute
      <2> QED BY <2>1, <2>2
    <1>3. CASE Break(r)
      BY <1>3, BreakMaps DEF Contract!Next
    <1>4. CASE Close(r)
      BY <1>4, Commits DEF Contract!Next
    <1>5. CASE CommitLost(r) \/ ReturnLost(r)
      BY <1>5, Losses DEF Contract!Next
    <1>6. CASE Return(r)
      BY <1>6, Returns DEF Contract!Next
    <1>7. CASE Refuse(r) \/ Connect(r) \/ NoConnection(r) \/ Reject(r) \/ Unsent(r) \/ Audit(r) \/ AuditRefused(r)
      BY <1>7 DEF Refuse, Connect, NoConnection, Reject, Unsent, Audit, AuditRefused
    <1> QED BY <1>1, <1>2, <1>3, <1>4, <1>5, <1>6, <1>7 DEF Proceed

(* Every request goes through apply_plan as its docstring promises: all of *)
(* an atomic plan or only what a rollback cannot take back, otherwise      *)
(* statement by statement, and an answer that says which, whatever fails,  *)
(* breaks or is killed (pg/changes.py:837-871).  The hypothesis is needed: *)
(* the run apply_unsendable shows a plan outside it that is committed half *)
(* done.                                                                   *)
THEOREM Implements ==
    ASSUME SendableFirst
    PROVE  Spec => AllOrNothing
    <1>1. Init => Contract!Init
      BY DEF Init, Contract!Init
    <1>2. IInv /\ [Next]_vars => [Contract!Next]_<<plan, effects, answer>>
      <2> SUFFICES ASSUME IInv, [Next]_vars
                   PROVE  [Contract!Next]_<<plan, effects, answer>>
        OBVIOUS
      <2>1. VarType /\ BrokeInv /\ \A r \in Request : Local(r)
        BY DEF IInv
      <2>2. CASE UNCHANGED vars
        BY <2>2 DEF vars
      <2>3. CASE ChangeProfile \/ DeleteUser \/ Kill
        BY <2>3 DEF ChangeProfile, DeleteUser, Kill
      <2>4. ASSUME NEW r \in Request, Proceed(r)
            PROVE  [Contract!Next]_<<plan, effects, answer>>
        BY <2>1, <2>4, ProceedMaps
      <2> QED BY <2>2, <2>3, <2>4 DEF Next
    <1>3. Contract!vars = <<plan, effects, answer>>
      BY DEF Contract!vars
    <1> QED BY <1>1, <1>2, <1>3, Invariance, PTL DEF Spec, AllOrNothing, Contract!Spec, Contract!vars

=============================================================================

--------------------------- MODULE PatroniProofs ---------------------------
(* The safety properties of Patroni, for any number of requests, members,    *)
(* elections and operations.  A step of a request, or of Patroni for its     *)
(* call, touches nothing of another request: the invariant is one of each    *)
(* request by itself (Local).                                                *)
EXTENDS Patroni, TLAPS

\* What the variables hold.  A request that was made has all its fields.
Asked == [pc : {"look", "run", "wait", "audit", "over"}, op : Op, read_only : BOOLEAN,
          seen : Member \cup {None}, failed : BOOLEAN]
Call == [at : {"none", "sent", "done", "refused"}, leader : Member \cup {None}]
Hit == [from : Member \cup {None}]

VarType ==
  /\ leader \in Member \cup {None} /\ restarts \subseteq Member /\ paused \in BOOLEAN
  /\ scheduled = None \/ scheduled \in [from : Member, to : Member \cup {None}]
  /\ profile \in {"writable", "read_only", "deleted"} /\ users \subseteq User /\ cut \subseteq Req
  /\ audit \subseteq [by : Req, from : Member \cup {None}, ok : BOOLEAN]
  /\ rq \in [Req -> [pc : {"idle"}] \cup Asked]
  /\ wire \in [Req -> Call]
  /\ hit \in [Req -> {None} \cup Hit]

\* A call is sent by a request that got past its lookup, and is what decides
\* whether the cluster changed.
CallInv(r) ==
  /\ rq[r].pc \in {"idle", "look", "run"} => wire[r].at = "none"
  /\ rq[r].pc \in {"wait", "audit"} => wire[r].at # "none"
  /\ rq[r].pc = "audit" /\ ~rq[r].failed => wire[r].at = "done"
  /\ hit[r] # None <=> wire[r].at = "done"

\* What is sent has been looked up, and says so.
Passed(r) == rq[r].pc \in {"run", "wait", "audit"} \/ wire[r].at # "none"
SeenInv(r) ==
  /\ wire[r].at # "none" => wire[r].leader = rq[r].seen
  /\ Passed(r) =>
       /\ rq[r].op.kind = "switchover" => rq[r].seen \in Member
       /\ rq[r].op.kind \in {"restart", "cancel_restart", "reinitialize", "reload"} =>
            rq[r].op.name \in Member

\* A switchover that took place took the leadership of the leader it named.
HitInv(r) ==
  hit[r] # None /\ rq[r].op.kind = "switchover" /\ ~rq[r].op.later => hit[r].from = rq[r].seen

\* A row is written at the end, of the request as it was, and none is missing.
RowInv(r) ==
  /\ \A a \in Row(r) : rq[r].pc = "over" /\ a.from = rq[r].seen /\ (a.ok => wire[r].at = "done")
  /\ rq[r].pc = "over" /\ wire[r].at # "none" /\ r \notin cut =>
       Row(r) # {} \/ (Postgres /\ Orphan(r))

Local(r) == CallInv(r) /\ SeenInv(r) /\ HitInv(r) /\ RowInv(r)

IInv == VarType /\ \A r \in Req : Local(r)

-----------------------------------------------------------------------------
(* What an asked operation is                                                *)
LEMMA OpIsAsked == ASSUME NEW op \in Ops PROVE op \in Op
  BY OpsAssumption

(* What the fields of an operation range over                              *)
LEMMA OpFields ==
  ASSUME NEW op \in Op
  PROVE  /\ op.name \in Name \cup {None} /\ op.later \in BOOLEAN
         /\ op.kind \in {"switchover", "failover", "restart", "cancel_restart", "reinitialize", "reload",
                         "cancel_switchover", "pause", "resume"}
  BY DEF Op

(* A request that is past "idle" has all its fields                          *)
LEMMA AskedFields ==
  ASSUME VarType, NEW r \in Req, rq[r].pc # "idle"
  PROVE  rq[r] \in Asked
  BY DEF VarType

-----------------------------------------------------------------------------
(* The types                                                                 *)
LEMMA SubmitType ==
  ASSUME VarType, NEW r \in Req, NEW op \in Ops, Submit(r, op)
  PROVE  VarType'
  <1>1. [pc |-> IF Needs(op) THEN "look" ELSE "run", op |-> op,
         read_only |-> profile = "read_only", seen |-> None, failed |-> FALSE] \in Asked
    BY OpIsAsked DEF Asked
  <1>2. rq' \in [Req -> [pc : {"idle"}] \cup Asked]
    BY <1>1 DEF Submit, VarType
  <1> QED BY <1>2 DEF Submit, VarType, cluster

(* No step of a handler leaves the types                                   *)
LEMMA HandlerType ==
  ASSUME VarType, NEW r \in Req, Local(r), Handler(r)
  PROVE  VarType'
  <1>1. rq[r].pc # "idle"
    BY DEF Handler, LookSwitchover, LookMember, LookFails, Send, Receive, Timeout, Audit
  <1>2. rq[r] \in Asked
    BY <1>1, AskedFields
  <1>3. rq'[r] \in Asked /\ rq' = [rq EXCEPT ![r] = rq'[r]]
    <2>1. \A p \in {"look", "run", "wait", "audit", "over"} : [rq[r] EXCEPT !.pc = p] \in Asked
      BY <1>2 DEF Asked
    <2>2. [rq[r] EXCEPT !.pc = "run", !.seen = leader] \in Asked
      BY <1>2 DEF Asked, VarType
    <2>3. \A f \in BOOLEAN : [rq[r] EXCEPT !.pc = "audit", !.failed = f] \in Asked
      BY <1>2 DEF Asked
    <2>4. (wire[r].at = "refused") \in BOOLEAN
      OBVIOUS
    <2> QED BY <2>1, <2>2, <2>3, <2>4 DEF Handler, LookSwitchover, LookMember, LookFails, Send, Receive,
                                         Timeout, Audit, Over, VarType
  <1>4. rq' \in [Req -> [pc : {"idle"}] \cup Asked]
    BY <1>3 DEF VarType
  <1>5. wire' \in [Req -> Call]
    <2>1. [at |-> "sent", leader |-> rq[r].seen] \in Call
      BY <1>2 DEF Asked, Call
    <2> QED BY <2>1 DEF Handler, LookSwitchover, LookMember, LookFails, Send, Receive, Timeout, Audit,
                        VarType, Body
  <1>6. audit' \subseteq [by : Req, from : Member \cup {None}, ok : BOOLEAN] /\ cut' \subseteq Req
    <2>1. [by |-> r, from |-> rq[r].seen, ok |-> ~rq[r].failed] \in [by : Req, from : Member \cup {None}, ok : BOOLEAN]
      BY <1>2 DEF Asked
    <2> QED BY <2>1 DEF Handler, LookSwitchover, LookMember, LookFails, Send, Receive, Timeout, Audit, VarType
  <1> QED BY <1>4, <1>5, <1>6 DEF Handler, LookSwitchover, LookMember, LookFails, Send, Receive, Timeout, Audit,
                                 VarType, cluster

(* What Patroni does for a call: it is written down as a change of the call  *)
LEMMA EffectType ==
  ASSUME VarType, NEW r \in Req, Local(r), wire[r].at = "sent", Effect(r)
  PROVE  /\ leader' \in Member \cup {None} /\ restarts' \subseteq Member /\ paused' \in BOOLEAN
         /\ scheduled' = None \/ scheduled' \in [from : Member, to : Member \cup {None}]
         /\ \E f \in Member \cup {None} :
               /\ hit' = [hit EXCEPT ![r] = [from |-> f]]
               /\ rq[r].op.kind = "switchover" /\ ~rq[r].op.later => f = rq[r].seen
  <1>1. rq[r] \in Asked /\ rq[r].op \in Op
    BY AskedFields DEF Local, CallInv, Asked
  <1>2. wire[r].leader = rq[r].seen /\ (rq[r].op.kind = "switchover" => rq[r].seen \in Member)
    BY DEF Local, SeenInv, Passed
  <1>3. rq[r].op.kind = "restart" => rq[r].op.name \in Member
    BY DEF Local, SeenInv, Passed
  <1>4. rq[r].op.kind \in {"switchover", "failover", "restart", "cancel_restart", "reinitialize", "reload",
                           "cancel_switchover", "pause", "resume"}
    BY <1>1, OpFields
  <1>5. None \notin Member
    BY MemberAssumption
  <1>6. CASE rq[r].op.kind = "switchover" /\ ~rq[r].op.later
    BY <1>2, <1>5, <1>6 DEF Effect, Demote, VarType
  <1>7. CASE rq[r].op.kind = "switchover" /\ rq[r].op.later
    <2>1. /\ leader \in Member /\ rq[r].op.name \in Member \cup {None}
          /\ scheduled' = [from |-> leader, to |-> rq[r].op.name]
          /\ Set(r) /\ UNCHANGED <<restarts, paused>>
      BY <1>7 DEF Effect, VarType
    <2> QED BY <1>7, <2>1 DEF Set, VarType
  <1>8. CASE rq[r].op.kind = "failover"
    BY <1>8 DEF Effect, Demote, VarType
  <1>9. CASE rq[r].op.kind = "cancel_switchover"
    BY <1>9 DEF Effect, Set, VarType
  <1>10. CASE rq[r].op.kind \in {"pause", "resume"}
    BY <1>10 DEF Effect, Set, VarType
  <1>11. CASE rq[r].op.kind = "restart"
    BY <1>3, <1>11 DEF Effect, Set, VarType
  <1>12. CASE rq[r].op.kind = "cancel_restart"
    BY <1>12 DEF Effect, Set, VarType
  <1>13. CASE rq[r].op.kind \in {"reinitialize", "reload"}
    BY <1>13 DEF Effect, Set, VarType
  <1> QED BY <1>4, <1>6, <1>7, <1>8, <1>9, <1>10, <1>11, <1>12, <1>13

(* Nor does a step of Patroni for a call                                   *)
LEMMA HandleType ==
  ASSUME VarType, NEW r \in Req, Local(r), Handle(r)
  PROVE  VarType'
  <1>1. wire[r].at = "sent" /\ Effect(r)
    BY DEF Handle
  <1>2. PICK f \in Member \cup {None} : hit' = [hit EXCEPT ![r] = [from |-> f]]
    BY <1>1, EffectType
  <1>3. hit' \in [Req -> {None} \cup Hit]
    BY <1>2 DEF VarType, Hit
  <1>4. [wire[r] EXCEPT !.at = "done"] \in Call
    BY DEF VarType, Call
  <1>5. wire' \in [Req -> Call]
    BY <1>4 DEF Handle, VarType
  <1> QED BY <1>1, <1>3, <1>5, EffectType DEF Handle, VarType

(* a refusal,                                                              *)
LEMMA RefuseType ==
  ASSUME VarType, NEW r \in Req, Refuse(r)
  PROVE  VarType'
  <1>1. [wire[r] EXCEPT !.at = "refused"] \in Call
    BY DEF VarType, Call
  <1>2. wire' \in [Req -> Call]
    BY <1>1 DEF Refuse, VarType
  <1> QED BY <1>2 DEF Refuse, VarType, cluster

(* the end of the process,                                                 *)
LEMMA KillType ==
  ASSUME VarType, Kill
  PROVE  VarType'
  <1>1. \A r \in Req : rq[r].pc # "idle" => [rq[r] EXCEPT !.pc = "over"] \in Asked
    BY AskedFields DEF Asked
  <1>2. rq' \in [Req -> [pc : {"idle"}] \cup Asked]
    BY <1>1 DEF Kill, VarType
  <1>3. cut' \subseteq Req
    BY DEF Kill, VarType
  <1> QED BY <1>2, <1>3 DEF Kill, VarType, cluster

(* or what others do to the cluster, the profile and the accounts.         *)
LEMMA ClusterType ==
  ASSUME VarType, Elect \/ RunScheduled \/ EditProfile \/ DeleteUser
  PROVE  VarType'
  <1>1. CASE Elect
    BY <1>1 DEF Elect, VarType
  <1>2. CASE RunScheduled
    BY <1>2 DEF RunScheduled, VarType
  <1>3. CASE EditProfile
    BY <1>3 DEF EditProfile, VarType, cluster
  <1>4. CASE DeleteUser
    BY <1>4 DEF DeleteUser, VarType, cluster
  <1> QED BY <1>1, <1>2, <1>3, <1>4

-----------------------------------------------------------------------------
(* What a step may leave as it is                                            *)
Same(s) ==
  /\ rq'[s] = rq[s] /\ wire'[s] = wire[s] /\ hit'[s] = hit[s] /\ Row(s)' = Row(s)
  /\ s \in cut' <=> s \in cut
  /\ Orphan(s) => Orphan(s)'

(* A request that is left as it is keeps its part of the invariant         *)
LEMMA SameKeeps ==
  ASSUME NEW s \in Req, Same(s), Local(s)
  PROVE  Local(s)'
  BY DEF Same, Local, CallInv, SeenInv, Passed, HitInv, RowInv

(* A step of one request, or for its call, leaves every other as it is     *)
LEMMA OthersSame ==
  ASSUME VarType, NEW r \in Req, NEW s \in Req, s # r,
         Handler(r) \/ Handle(r) \/ Refuse(r) \/ \E op \in Ops : Submit(r, op),
         Local(r)
  PROVE  Same(s)
  <1>1. CASE Handler(r)
    <2>1. rq'[s] = rq[s] /\ wire'[s] = wire[s] /\ hit' = hit /\ (s \in cut' <=> s \in cut)
      BY <1>1 DEF Handler, LookSwitchover, LookMember, LookFails, Send, Receive, Timeout, Audit, Over, VarType
    <2>2. audit' = audit \/ audit' = audit \cup {[by |-> r, from |-> rq[r].seen, ok |-> ~rq[r].failed]}
      BY <1>1 DEF Handler, LookSwitchover, LookMember, LookFails, Send, Receive, Timeout, Audit
    <2>3. Row(s)' = Row(s)
      BY <2>2 DEF Row
    <2>4. profile' = profile /\ users' = users
      BY <1>1 DEF Handler, LookSwitchover, LookMember, LookFails, Send, Receive, Timeout, Audit
    <2> QED BY <2>1, <2>3, <2>4 DEF Same, Orphan
  <1>2. CASE Handle(r)
    <2>1. wire[r].at = "sent" /\ Effect(r)
      BY <1>2 DEF Handle
    <2>2. PICK f \in Member \cup {None} : hit' = [hit EXCEPT ![r] = [from |-> f]]
      BY <2>1, EffectType
    <2> QED BY <1>2, <2>2 DEF Handle, Same, Row, Orphan, VarType
  <1>3. CASE Refuse(r)
    BY <1>3 DEF Refuse, Same, Row, Orphan, VarType
  <1>4. CASE \E op \in Ops : Submit(r, op)
    BY <1>4 DEF Submit, Same, Row, Orphan, VarType
  <1> QED BY <1>1, <1>2, <1>3, <1>4

-----------------------------------------------------------------------------
(* What a step makes of its own request                                      *)
LEMMA SubmitLocal ==
  ASSUME VarType, NEW r \in Req, Local(r), NEW op \in Ops, Submit(r, op)
  PROVE  Local(r)'
  <1>1. /\ rq'[r] = [pc |-> IF Needs(op) THEN "look" ELSE "run", op |-> op,
                     read_only |-> profile = "read_only", seen |-> None, failed |-> FALSE]
        /\ wire' = wire /\ hit' = hit /\ audit' = audit /\ cut' = cut
    BY DEF Submit, VarType
  <1>2. wire[r].at = "none" /\ hit[r] = None
    BY DEF Submit, Local, CallInv
  <1>3. Row(r)' = Row(r) /\ Row(r) = {}
    BY <1>1 DEF Row, Submit, Local, RowInv
  <1>4. (CallInv(r) /\ HitInv(r) /\ RowInv(r))'
    BY <1>1, <1>2, <1>3 DEF CallInv, HitInv, RowInv
  <1>5. SeenInv(r)'
    BY <1>1, <1>2 DEF SeenInv, Passed, Needs
  <1> QED BY <1>4, <1>5 DEF Local

(* A lookup that ends the request, or lets it pass                           *)
LEMMA LookLocal ==
  ASSUME VarType, NEW r \in Req, Local(r), LookSwitchover(r) \/ LookMember(r) \/ LookFails(r)
  PROVE  Local(r)'
  <1>1. rq[r].pc = "look" /\ wire[r].at = "none" /\ hit[r] = None /\ rq[r] \in Asked
    BY AskedFields DEF LookSwitchover, LookMember, LookFails, Local, CallInv
  <1>2. wire' = wire /\ hit' = hit /\ Row(r)' = Row(r) /\ cut' = cut
    BY DEF LookSwitchover, LookMember, LookFails, Row
  <1>3. Row(r) = {}
    BY <1>1 DEF Local, RowInv
  <1>4. \/ rq'[r] = [rq[r] EXCEPT !.pc = "over"]
        \/ /\ rq[r].op.kind = "switchover" /\ leader \in Member
           /\ rq'[r] = [rq[r] EXCEPT !.pc = "run", !.seen = leader]
        \/ /\ rq[r].op.kind # "switchover" /\ rq[r].op.name \in Member
           /\ rq'[r] = [rq[r] EXCEPT !.pc = "run"]
    BY DEF LookSwitchover, LookMember, LookFails, Over, VarType
  <1>5. /\ rq'[r].pc \in {"over", "run"} /\ rq'[r].op = rq[r].op
        /\ rq'[r].pc = "run" =>
             \/ rq[r].op.kind = "switchover" /\ rq'[r].seen \in Member
             \/ rq[r].op.kind # "switchover" /\ rq[r].op.name \in Member
    BY <1>1, <1>4 DEF Asked
  <1>6. (CallInv(r) /\ HitInv(r) /\ RowInv(r))'
    BY <1>1, <1>2, <1>3, <1>5 DEF CallInv, HitInv, RowInv
  <1>7. SeenInv(r)'
    BY <1>1, <1>2, <1>5 DEF SeenInv, Passed
  <1> QED BY <1>6, <1>7 DEF Local

(* The call is sent with what was looked up, or not at all                 *)
LEMMA SendLocal ==
  ASSUME VarType, NEW r \in Req, Local(r), Send(r)
  PROVE  Local(r)'
  <1>1. rq[r].pc = "run" /\ wire[r].at = "none" /\ hit[r] = None /\ rq[r] \in Asked
    BY AskedFields DEF Send, Local, CallInv
  <1>2. hit' = hit /\ Row(r)' = Row(r) /\ Row(r) = {} /\ cut' = cut
    BY <1>1 DEF Send, Row, Local, RowInv
  <1>3. \/ rq'[r] = [rq[r] EXCEPT !.pc = "over"] /\ wire' = wire
        \/ rq'[r] = [rq[r] EXCEPT !.pc = "wait"] /\ wire'[r] = [at |-> "sent", leader |-> rq[r].seen]
    BY DEF Send, Over, Body, VarType
  <1>4. /\ rq'[r].op = rq[r].op /\ rq'[r].seen = rq[r].seen
        /\ \/ rq'[r].pc = "over" /\ wire'[r].at = "none"
           \/ rq'[r].pc = "wait" /\ wire'[r].at = "sent" /\ wire'[r].leader = rq[r].seen
    BY <1>1, <1>3 DEF Asked
  <1>5. (CallInv(r) /\ HitInv(r) /\ RowInv(r))'
    BY <1>1, <1>2, <1>4 DEF CallInv, HitInv, RowInv
  <1>6. SeenInv(r)'
    BY <1>1, <1>4 DEF Local, SeenInv, Passed
  <1> QED BY <1>5, <1>6 DEF Local

(* The answer, or none in time                                               *)
LEMMA AnsweredLocal ==
  ASSUME VarType, NEW r \in Req, Local(r), Receive(r) \/ Timeout(r)
  PROVE  Local(r)'
  <1>1. rq[r].pc = "wait" /\ wire[r].at # "none" /\ rq[r] \in Asked
    BY AskedFields DEF Receive, Timeout, Local, CallInv
  <1>2. hit' = hit /\ wire' = wire /\ Row(r)' = Row(r) /\ Row(r) = {} /\ cut' = cut
    BY <1>1 DEF Receive, Timeout, Row, Local, RowInv
  <1>3. \/ rq'[r] = [rq[r] EXCEPT !.pc = "audit", !.failed = wire[r].at = "refused"] /\ wire[r].at \in {"done", "refused"}
        \/ rq'[r] = [rq[r] EXCEPT !.pc = "audit", !.failed = TRUE]
    BY DEF Receive, Timeout, VarType
  <1>4. /\ rq'[r].op = rq[r].op /\ rq'[r].seen = rq[r].seen /\ rq'[r].pc = "audit"
        /\ ~rq'[r].failed => wire[r].at = "done"
    BY <1>1, <1>3 DEF Asked
  <1>5. (CallInv(r) /\ HitInv(r) /\ RowInv(r))'
    BY <1>1, <1>2, <1>4 DEF Local, CallInv, HitInv, RowInv
  <1>6. SeenInv(r)'
    BY <1>1, <1>2, <1>4 DEF Local, SeenInv, Passed
  <1> QED BY <1>5, <1>6 DEF Local

(* The row is written, or refused                                          *)
LEMMA AuditLocal ==
  ASSUME VarType, NEW r \in Req, Local(r), Audit(r)
  PROVE  Local(r)'
  <1> DEFINE row == [by |-> r, from |-> rq[r].seen, ok |-> ~rq[r].failed]
  <1>1. rq[r].pc = "audit" /\ wire[r].at # "none" /\ rq[r] \in Asked /\ (~rq[r].failed => wire[r].at = "done")
    BY AskedFields DEF Audit, Local, CallInv
  <1>2. hit' = hit /\ wire' = wire /\ Row(r) = {}
    BY <1>1 DEF Audit, Local, RowInv
  <1>3. rq'[r] = [rq[r] EXCEPT !.pc = "over"]
    BY DEF Audit, Over, VarType
  <1>4. rq'[r].op = rq[r].op /\ rq'[r].seen = rq[r].seen /\ rq'[r].pc = "over"
    BY <1>1, <1>3 DEF Asked
  <1>5. \/ Row(r)' = {row}
        \/ Row(r)' = {} /\ Postgres /\ Orphan(r)'
    BY <1>2 DEF Audit, Row, Orphan
  <1>6. (CallInv(r) /\ HitInv(r))'
    BY <1>1, <1>2, <1>4 DEF Local, CallInv, HitInv
  <1>7. RowInv(r)'
    <2>1. row.from = rq[r].seen /\ (row.ok => wire[r].at = "done")
      BY <1>1
    <2> HIDE DEF row
    <2> QED BY <1>2, <1>4, <1>5, <2>1 DEF RowInv
  <1>8. SeenInv(r)'
    BY <1>1, <1>2, <1>4 DEF Local, SeenInv, Passed
  <1> QED BY <1>6, <1>7, <1>8 DEF Local

(* Patroni carries the call out, or refuses it                               *)
LEMMA CallLocal ==
  ASSUME VarType, NEW r \in Req, Local(r), Handle(r) \/ Refuse(r)
  PROVE  Local(r)'
  <1>1. /\ wire[r].at = "sent" /\ wire[r] \in Call /\ hit[r] = None
        /\ rq' = rq /\ cut' = cut /\ audit' = audit
    BY DEF Handle, Refuse, Local, CallInv, VarType
  <1>2. Row(r)' = Row(r)
    BY <1>1 DEF Row
  <1>3. wire'[r].leader = wire[r].leader
    BY <1>1 DEF Handle, Refuse, VarType, Call
  <1>4. SeenInv(r)'
    BY <1>1, <1>3 DEF Local, SeenInv, Passed
  <1>7. Orphan(r) => Orphan(r)'
    BY DEF Handle, Refuse, Orphan
  <1>5. CASE Handle(r)
    <2>1. PICK f \in Member \cup {None} :
             /\ hit' = [hit EXCEPT ![r] = [from |-> f]]
             /\ rq[r].op.kind = "switchover" /\ ~rq[r].op.later => f = rq[r].seen
      BY <1>1, <1>5, EffectType DEF Handle
    <2>2. hit'[r] = [from |-> f] /\ hit'[r] # None
      <3>1. [from |-> f] \in [from : Member \cup {None}]
        OBVIOUS
      <3> QED BY <2>1, <3>1, MemberAssumption DEF VarType
    <2>3. wire'[r].at = "done"
      BY <1>1, <1>5 DEF Handle, VarType, Call
    <2>4. rq[r].pc \notin {"idle", "look", "run"}
      BY <1>1 DEF Local, CallInv
    <2>5. CallInv(r)' /\ HitInv(r)'
      BY <1>1, <2>1, <2>2, <2>3, <2>4 DEF Local, CallInv, HitInv
    <2>6. RowInv(r)'
      BY <1>1, <1>2, <1>7, <2>3 DEF Local, RowInv
    <2> QED BY <1>4, <2>5, <2>6 DEF Local
  <1>6. CASE Refuse(r)
    <2>1. wire'[r].at = "refused" /\ hit' = hit /\ rq[r].pc = "wait"
      BY <1>1, <1>6 DEF Refuse, VarType, Call
    <2>2. CallInv(r)' /\ HitInv(r)' /\ RowInv(r)'
      BY <1>1, <1>2, <1>7, <2>1 DEF Local, CallInv, HitInv, RowInv
    <2> QED BY <1>4, <2>2 DEF Local
  <1> QED BY <1>5, <1>6

(* A killed request is cut, and owes no row                                *)
LEMMA KillLocal ==
  ASSUME VarType, NEW s \in Req, Local(s), Kill
  PROVE  Local(s)'
  <1>1. CASE rq[s].pc \in {"idle", "over"}
    <2>1. Same(s)
      BY <1>1 DEF Kill, Same, Row, Orphan
    <2> QED BY <2>1, SameKeeps
  <1>2. CASE rq[s].pc \notin {"idle", "over"}
    <2>1. rq'[s] = [rq[s] EXCEPT !.pc = "over"] /\ s \in cut' /\ wire' = wire /\ hit' = hit /\ Row(s)' = Row(s)
      BY <1>2 DEF Kill, Row
    <2>2. rq[s] \in Asked
      BY <1>2, AskedFields
    <2>3. rq'[s].op = rq[s].op /\ rq'[s].seen = rq[s].seen /\ rq'[s].pc = "over"
      BY <2>1, <2>2 DEF Asked
    <2>4. (CallInv(s) /\ HitInv(s))' /\ RowInv(s)' /\ SeenInv(s)'
      BY <1>2, <2>1, <2>3 DEF Local, CallInv, HitInv, RowInv, SeenInv, Passed
    <2> QED BY <2>4 DEF Local
  <1> QED BY <1>1, <1>2

-----------------------------------------------------------------------------
(* The invariant                                                             *)
LEMMA InitInv ==
  ASSUME Init
  PROVE  IInv
  <1>1. VarType
    <2>1. [at |-> "none", leader |-> None] \in Call
      BY DEF Call
    <2> QED BY <2>1 DEF Init, VarType
  <1>2. ASSUME NEW r \in Req
        PROVE  Local(r)
    <2>1. rq[r].pc = "idle" /\ wire[r].at = "none" /\ hit[r] = None /\ Row(r) = {}
      BY DEF Init, Row
    <2> QED BY <2>1 DEF Local, CallInv, SeenInv, Passed, HitInv, RowInv
  <1> QED BY <1>1, <1>2 DEF IInv

(* and every step keeps it                                                 *)
LEMMA IInvStep ==
  ASSUME IInv, [Next]_vars
  PROVE  IInv'
  <1> USE DEF IInv
  <1>1. CASE UNCHANGED vars
    <2>1. \A s \in Req : Same(s)
      BY <1>1 DEF vars, Same, Row, Orphan
    <2> QED BY <1>1, <2>1, SameKeeps DEF vars, cluster, VarType
  <1>2. CASE Elect \/ RunScheduled \/ EditProfile \/ DeleteUser
    <2>1. \A s \in Req : Same(s)
      BY <1>2 DEF Elect, RunScheduled, EditProfile, DeleteUser, Same, Row, Orphan
    <2> QED BY <1>2, <2>1, SameKeeps, ClusterType
  <1>3. CASE Kill
    BY <1>3, KillType, KillLocal
  <1>4. ASSUME NEW r \in Req, Handler(r) \/ Handle(r) \/ Refuse(r) \/ \E op \in Ops : Submit(r, op)
        PROVE  IInv'
    <2>1. VarType'
      BY <1>4, HandlerType, HandleType, RefuseType, SubmitType
    <2>2. Local(r)'
      BY <1>4, SubmitLocal, LookLocal, SendLocal, AnsweredLocal, AuditLocal, CallLocal DEF Handler
    <2>3. \A s \in Req \ {r} : Local(s)'
      BY <1>4, OthersSame, SameKeeps
    <2> QED BY <2>1, <2>2, <2>3
  <1> QED BY <1>1, <1>2, <1>3, <1>4 DEF Next

(* The invariant holds of every state the system reaches                    *)
THEOREM Invariance == Spec => []IInv
  <1>1. Init => IInv
    BY InitInv
  <1>2. IInv /\ [Next]_vars => IInv'
    BY IInvStep
  <1> QED BY <1>1, <1>2, PTL DEF Spec

(* Every switchover that is sent names a leader of the cluster, and every    *)
(* operation on a member one of its members (api/patroni.py, _member and      *)
(* switchover), for any number of requests, members and names.               *)
THEOREM TypeCorrect == Spec => []TypeOK
  <1>1. IInv => TypeOK
    BY DEF IInv, VarType, Local, SeenInv, Passed, TypeOK
  <1> QED BY <1>1, Invariance, PTL

(* Whatever Patroni did for a request that is over is in the audit log, if   *)
(* the process lived and neither the profile nor the account that the row    *)
(* names was deleted under PostgreSQL, and "patroni" is written only of what *)
(* was done (api/patroni.py:3-5, 113-121, db/models.py:74-75).               *)
THEOREM Audited == Spec => []EffectsAreAudited
  <1>1. IInv => EffectsAreAudited
    BY DEF IInv, Local, CallInv, RowInv, EffectsAreAudited
  <1> QED BY <1>1, Invariance, PTL

(* A switchover ends the leadership of the member its description names,     *)
(* whatever the cluster elects meanwhile (api/patroni.py:140-154).           *)
THEOREM FromDescribed == Spec => []SwitchoverFromDescribed
  <1>1. IInv => SwitchoverFromDescribed
    BY DEF IInv, Local, HitInv, RowInv, SwitchoverFromDescribed
  <1> QED BY <1>1, Invariance, PTL
=============================================================================

------------------------------ MODULE Patroni ------------------------------
(* Operations on a Patroni cluster: api/patroni.py and patroni.py.           *)
(*                                                                           *)
(* A request looks at the cluster, sends one call to Patroni and writes what *)
(* became of it to the audit log.  Patroni (external) moves on between the   *)
(* steps: it elects leaders, it runs what was scheduled, it handles a call   *)
(* late, even after the request that sent it gave up waiting.                *)
EXTENDS Naturals, FiniteSets

CONSTANTS
  Req,           \* requests of operators
  User,          \* accounts
  UserOf,        \* the account each request is signed in as
  Member,        \* the members of the cluster
  Name,          \* names a request may use; a stale page offers one no member has
  Ops,           \* what the requests of a run may ask for
  MaxElections,  \* bound: leader changes no request made
  Postgres,      \* the metadata database checks foreign keys
  None

ASSUME MemberAssumption ==
  /\ Member \subseteq Name /\ None \notin Name
  /\ None \notin [from : Member \cup {None}]
ASSUME ElectionsAssumption == MaxElections \in Nat /\ Postgres \in BOOLEAN
ASSUME RequestsAreOfUsers == UserOf \in [Req -> User]

\* What a request may ask for; "later" is a date, a member may be None.
Op ==
  [kind : {"switchover"}, name : Name \cup {None}, later : BOOLEAN]
    \cup [kind : {"restart"}, name : Name, later : BOOLEAN]
    \cup [kind : {"failover", "cancel_restart", "reinitialize", "reload"},
          name : Name, later : {FALSE}]
    \cup [kind : {"cancel_switchover", "pause", "resume"}, name : {None}, later : {FALSE}]

ASSUME OpsAssumption == Ops \subseteq Op

VARIABLES
  leader,     \* the cluster: its leader, or None
  scheduled,  \* the switchover that is scheduled, or None
  restarts,   \* members with a scheduled restart
  paused,
  elections,
  rq,         \* the requests
  wire,       \* the call each request sent, and what became of it
  audit,      \* rows of the audit log
  profile,    \* "writable", "read_only" or "deleted"
  users,      \* accounts that exist
  hit,        \* history: what the call of each request changed, or None
  cut         \* history: requests that were killed

cluster == <<leader, scheduled, restarts, paused, elections>>
vars == <<cluster, rq, wire, audit, profile, users, hit, cut>>

Needs(op) == op.kind \in {"switchover", "restart", "cancel_restart", "reinitialize", "reload"}

Over(r) == rq' = [rq EXCEPT ![r].pc = "over"]

-----------------------------------------------------------------------------
(* The handlers                                                              *)

\* The account and the profile are loaded with the request; read_only is that of
\* the row then.
Submit(r, op) ==
  /\ rq[r].pc = "idle" /\ profile # "deleted" /\ UserOf[r] \in users
  /\ rq' = [rq EXCEPT ![r] = [pc |-> IF Needs(op) THEN "look" ELSE "run", op |-> op,
              read_only |-> profile = "read_only", seen |-> None, failed |-> FALSE]]
  /\ UNCHANGED <<cluster, wire, audit, profile, users, hit, cut>>

LookSwitchover_NoLeader(r) ==
  /\ rq[r].pc = "look" /\ rq[r].op.kind = "switchover"
  /\ IF rq[r].op.name # None /\ rq[r].op.name = leader
     THEN Over(r)
     ELSE rq' = [rq EXCEPT ![r].pc = "run", ![r].seen = leader]
  /\ UNCHANGED <<cluster, wire, audit, profile, users, hit, cut>>

\* switchover reads the leader from the status and keeps its name.
LookSwitchover(r) ==
  /\ rq[r].pc = "look" /\ rq[r].op.kind = "switchover"
  /\ IF leader = None \/ rq[r].op.name = leader
     THEN Over(r)
     ELSE rq' = [rq EXCEPT ![r].pc = "run", ![r].seen = leader]
  /\ UNCHANGED <<cluster, wire, audit, profile, users, hit, cut>>

\* The member operations look the member up; the leader is not reinitialized.
LookMember(r) ==
  /\ rq[r].pc = "look" /\ rq[r].op.kind # "switchover"
  /\ IF \/ rq[r].op.name \notin Member
        \/ rq[r].op.kind = "reinitialize" /\ rq[r].op.name = leader
     THEN Over(r)
     ELSE rq' = [rq EXCEPT ![r].pc = "run"]
  /\ UNCHANGED <<cluster, wire, audit, profile, users, hit, cut>>

\* Patroni does not answer the lookup: a 502, or the status it gave.
LookFails(r) ==
  /\ rq[r].pc = "look"
  /\ Over(r)
  /\ UNCHANGED <<cluster, wire, audit, profile, users, hit, cut>>

\* The leader the body of a switchover names: Patroni refuses another one's.
Body_NoLeader(r) == None
Body(r) == rq[r].seen

Send(r) ==
  /\ rq[r].pc = "run"
  /\ IF rq[r].read_only
     THEN Over(r) /\ UNCHANGED wire
     ELSE /\ rq' = [rq EXCEPT ![r].pc = "wait"]
          /\ wire' = [wire EXCEPT ![r] = [at |-> "sent", leader |-> Body(r)]]
  /\ UNCHANGED <<cluster, audit, profile, users, hit, cut>>

Receive(r) ==
  /\ rq[r].pc = "wait" /\ wire[r].at \in {"done", "refused"}
  /\ rq' = [rq EXCEPT ![r].pc = "audit", ![r].failed = wire[r].at = "refused"]
  /\ UNCHANGED <<cluster, wire, audit, profile, users, hit, cut>>

\* No answer within 15 s, or the connection breaks: a PatroniError like a refusal.
Timeout_Raised(r) ==
  /\ rq[r].pc = "wait"
  /\ Over(r)
  /\ UNCHANGED <<cluster, wire, audit, profile, users, hit, cut>>
Timeout_Never(r) == FALSE /\ UNCHANGED vars
Timeout(r) ==
  /\ rq[r].pc = "wait"
  /\ rq' = [rq EXCEPT ![r].pc = "audit", ![r].failed = TRUE]
  /\ UNCHANGED <<cluster, wire, audit, profile, users, hit, cut>>

\* The row names the request, the leader its description gives, and the outcome.
\* Its account and its profile are foreign keys: PostgreSQL refuses the row when
\* either is gone, SQLite does not look.
Orphan(r) == profile = "deleted" \/ UserOf[r] \notin users

Audit(r) ==
  /\ rq[r].pc = "audit"
  /\ Over(r)
  /\ audit' = IF Postgres /\ Orphan(r) THEN audit
              ELSE audit \cup {[by |-> r, from |-> rq[r].seen, ok |-> ~rq[r].failed]}
  /\ UNCHANGED <<cluster, wire, profile, users, hit, cut>>

-----------------------------------------------------------------------------
(* Patroni                                                                   *)

Demote(r, l) ==
  /\ leader' = l
  /\ hit' = [hit EXCEPT ![r] = [from |-> leader]]
  /\ UNCHANGED <<scheduled, restarts, paused>>

Set(r) ==
  /\ hit' = [hit EXCEPT ![r] = [from |-> None]]
  /\ UNCHANGED leader

\* What the call of r asks for, when Patroni grants it.
Effect(r) ==
  LET op == rq[r].op
      named == wire[r].leader \in {leader, None}
  IN CASE op.kind = "switchover" /\ ~op.later ->
            /\ leader # None /\ named
            /\ \E l \in Member \ {leader} : op.name \in {l, None} /\ Demote(r, l)
       [] op.kind = "switchover" /\ op.later ->
            /\ leader # None /\ named /\ op.name \in (Member \ {leader}) \cup {None}
            /\ scheduled' = [from |-> leader, to |-> op.name]
            /\ Set(r) /\ UNCHANGED <<restarts, paused>>
       [] op.kind = "failover" ->
            op.name \in Member \ {leader} /\ Demote(r, op.name)
       [] op.kind = "cancel_switchover" ->
            /\ scheduled # None /\ scheduled' = None
            /\ Set(r) /\ UNCHANGED <<restarts, paused>>
       [] op.kind \in {"pause", "resume"} ->
            /\ paused' = (op.kind = "pause")
            /\ Set(r) /\ UNCHANGED <<scheduled, restarts>>
       [] op.kind = "restart" ->
            /\ restarts' = IF op.later THEN restarts \cup {op.name} ELSE restarts
            /\ Set(r) /\ UNCHANGED <<scheduled, paused>>
       [] op.kind = "cancel_restart" ->
            /\ op.name \in restarts /\ restarts' = restarts \ {op.name}
            /\ Set(r) /\ UNCHANGED <<scheduled, paused>>
       [] op.kind \in {"reinitialize", "reload"} ->
            /\ op.kind = "reinitialize" => op.name # leader
            /\ Set(r) /\ UNCHANGED <<scheduled, restarts, paused>>

Handle(r) ==
  /\ wire[r].at = "sent"
  /\ wire' = [wire EXCEPT ![r].at = "done"]
  /\ Effect(r)
  /\ UNCHANGED <<elections, rq, audit, profile, users, cut>>

\* Patroni refuses the call, for a reason of its own or because of its state.  A
\* call that is lost is one that is never handled.
Refuse(r) ==
  /\ wire[r].at = "sent" /\ rq[r].pc = "wait"
  /\ wire' = [wire EXCEPT ![r].at = "refused"]
  /\ UNCHANGED <<cluster, rq, audit, profile, users, hit, cut>>

Elect ==
  /\ elections < MaxElections
  /\ elections' = elections + 1
  /\ leader' \in (Member \cup {None}) \ {leader}
  /\ UNCHANGED <<scheduled, restarts, paused, rq, wire, audit, profile, users, hit, cut>>

\* A scheduled switchover is run, or dropped when the leader is another by now.
RunScheduled ==
  /\ scheduled # None
  /\ scheduled' = None
  /\ IF scheduled.from = leader
     THEN leader' \in {l \in Member \ {leader} : scheduled.to \in {l, None}}
     ELSE UNCHANGED leader
  /\ UNCHANGED <<restarts, paused, elections, rq, wire, audit, profile, users, hit, cut>>

-----------------------------------------------------------------------------
(* The profile and the process                                               *)

EditProfile ==
  /\ profile = "writable" /\ profile' \in {"read_only", "deleted"}
  /\ UNCHANGED <<cluster, rq, wire, audit, users, hit, cut>>

\* delete_user by an admin.
DeleteUser ==
  /\ \E u \in users : users' = users \ {u}
  /\ UNCHANGED <<cluster, rq, wire, audit, profile, hit, cut>>

\* The process is killed: its requests end where they are.
Kill ==
  LET open == {r \in Req : rq[r].pc \notin {"idle", "over"}}
  IN /\ open # {}
     /\ rq' = [r \in Req |-> IF r \in open THEN [rq[r] EXCEPT !.pc = "over"] ELSE rq[r]]
     /\ cut' = cut \cup open
  /\ UNCHANGED <<cluster, wire, audit, profile, users, hit>>

Handler(r) ==
  \/ LookSwitchover(r) \/ LookMember(r) \/ LookFails(r)
  \/ Send(r) \/ Receive(r) \/ Timeout(r) \/ Audit(r)

Next ==
  \/ \E r \in Req : Handler(r) \/ Handle(r) \/ Refuse(r)
  \/ \E r \in Req, op \in Ops : Submit(r, op)
  \/ Elect \/ RunScheduled \/ EditProfile \/ DeleteUser \/ Kill

Init ==
  /\ leader \in Member
  /\ scheduled = None /\ restarts = {} /\ paused = FALSE /\ elections = 0
  /\ rq = [r \in Req |-> [pc |-> "idle"]]
  /\ wire = [r \in Req |-> [at |-> "none", leader |-> None]]
  /\ audit = {} /\ profile = "writable" /\ users = User
  /\ hit = [r \in Req |-> None] /\ cut = {}

Spec == Init /\ [][Next]_vars

\* The event loop runs every handler on; the HTTP client's timeout always comes.
FairSpec == Spec /\ \A r \in Req : WF_vars(Handler(r))

-----------------------------------------------------------------------------
(* Properties                                                                *)

\* Every switchover that is sent names a leader, every member operation a member.
TypeOK ==
  /\ leader \in Member \cup {None} /\ restarts \subseteq Member /\ paused \in BOOLEAN
  /\ scheduled = None \/ scheduled \in [from : Member, to : Member \cup {None}]
  /\ profile \in {"writable", "read_only", "deleted"} /\ users \subseteq User /\ cut \subseteq Req
  /\ audit \subseteq [by : Req, from : Member \cup {None}, ok : BOOLEAN]
  /\ \A r \in Req : rq[r].pc \in {"run", "wait", "audit"} =>
       /\ rq[r].op.kind = "switchover" => rq[r].seen \in Member
       /\ rq[r].op.kind \in {"restart", "cancel_restart", "reinitialize", "reload"} =>
            rq[r].op.name \in Member

Row(r) == {a \in audit : a.by = r}

\* api/patroni.py:3-5: an operation is "executed immediately and written to
\* audit_log".  Whatever Patroni did for a request that is over is in the log, if
\* the process lived, unless the profile or the user's own account was deleted
\* before the row was written and the metadata database is PostgreSQL; "patroni"
\* is written only of what was done, so "patroni_failed" covers what was done, or
\* will be, after no answer came in time.
EffectsAreAudited ==
  \A r \in Req :
    /\ rq[r].pc = "over" /\ hit[r] # None /\ r \notin cut =>
         Row(r) # {} \/ (Postgres /\ Orphan(r))
    /\ \A a \in Row(r) : a.ok => hit[r] # None

\* "Switchover from A to ...": a switchover ends the leadership of the member its
\* description names, however often the cluster elected others between the lookup
\* and the call (api/patroni.py:140-154).
SwitchoverFromDescribed ==
  \A r \in Req :
    hit[r] # None /\ rq[r].op.kind = "switchover" /\ ~rq[r].op.later =>
      hit[r].from = rq[r].seen /\ \A a \in Row(r) : a.from = hit[r].from

\* A request ends, whether or not Patroni answers (patroni.py:179: timeout=15.0).
RequestsEnd(r) == rq[r].pc # "idle" ~> rq[r].pc = "over"
=============================================================================

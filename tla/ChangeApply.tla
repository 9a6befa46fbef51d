---------------------------- MODULE ChangeApply ----------------------------
(***************************************************************************)
(* POST /api/profiles/{id}/apply: the profile is loaded, the change set is *)
(* planned again, the plan runs on a connection of the instance (autocommit *)
(* or one transaction), and a row goes to the audit log, which is another  *)
(* database (api/changes.py, pg/changes.py).  Any step may fail.           *)
(***************************************************************************)
EXTENDS Integers, Sequences, FiniteSets

CONSTANTS
    Request,     \* concurrent apply requests
    User,        \* accounts
    UserOf,      \* the account each request is signed in as
    Plans,       \* what their change sets render to: sequences of Kind
    Breaks,      \* connections to the instance may break
    Kills,       \* the PgControl process may be killed
    Deletes,     \* others may delete the profile or an account, or mark the
                 \* profile read-only, meanwhile
    Postgres,    \* the metadata database checks foreign keys
    None

(* ddl: undone by a rollback.  alone: Statement.transactional = False.     *)
(* immediate: pg_reload_conf, cancel, terminate, reset of statistics, drop *)
(* of a slot: takes effect when executed, whatever the transaction does.   *)
(* unsendable: psycopg refuses it (a NUL in a role's password, which the   *)
(* redacted preview did not show).                                         *)
Kind == {"ddl", "alone", "immediate", "unsendable"}

ASSUME PlansAreStatements ==
    /\ Plans \subseteq Seq(Kind) \ {<<>>}
    /\ {Breaks, Kills, Deletes, Postgres} \subseteq BOOLEAN
    /\ None \notin Plans /\ None \notin Nat

ASSUME RequestsAreOfUsers == UserOf \in [Request -> User]

VARIABLES
    profile,   \* "writable", "readonly", "gone"
    users,     \* accounts that exist
    pc,        \* progress of each request
    plan,      \* its plan
    server,    \* its transaction: "none", "open", "aborted"
    pending,   \* statements the open transaction would commit
    effects,   \* statements that have taken effect
    executed,  \* apply_plan: statements executed, index of the failed one
    failed,
    answer,    \* ApplyResult
    audit,     \* audit_log: [request, ok, executed]
    broke      \* history: requests whose connection broke

vars == <<profile, users, pc, plan, server, pending, effects, executed, failed, answer, audit, broke>>

Alone(kind) == kind = "alone"
Lasting(kind) == kind = "immediate"
Atomic(p) == \A i \in DOMAIN p : ~Alone(p[i])

Init ==
    /\ profile = "writable"
    /\ users = User
    /\ pc = [r \in Request |-> "new"]
    /\ plan = [r \in Request |-> None]
    /\ server = [r \in Request |-> "none"]
    /\ pending = [r \in Request |-> {}]
    /\ effects = [r \in Request |-> {}]
    /\ executed = [r \in Request |-> 0]
    /\ failed = [r \in Request |-> None]
    /\ answer = [r \in Request |-> None]
    /\ audit = {}
    /\ broke = {}

Goto(r, label) == pc' = [pc EXCEPT ![r] = label]

-----------------------------------------------------------------------------
(* current_user (401), get_profile (404), read_only (403), _plan (400):    *)
(* else there is a plan                                                    *)
Plan(r) ==
    /\ pc[r] = "new"
    /\ UserOf[r] \in users
    /\ profile = "writable"
    /\ \E p \in Plans : plan' = [plan EXCEPT ![r] = p]
    /\ Goto(r, "planned")
    /\ UNCHANGED <<profile, users, server, pending, effects, executed, failed, answer, audit, broke>>

Refuse(r) ==
    /\ pc[r] = "new"
    /\ Goto(r, "done")
    /\ UNCHANGED <<profile, users, plan, server, pending, effects, executed, failed, answer, audit, broke>>

(* Mutant: autocommit instead of a transaction                             *)
Connect_NoTransaction(r) ==
    /\ pc[r] = "planned"
    /\ Goto(r, "running")
    /\ UNCHANGED <<profile, users, plan, server, pending, effects, executed, failed, answer, audit, broke>>

(* pool.connection(), and BEGIN for an atomic plan                         *)
Connect(r) ==
    /\ pc[r] = "planned"
    /\ Goto(r, "running")
    /\ server' = [server EXCEPT ![r] = IF Atomic(plan[r]) THEN "open" ELSE "none"]
    /\ UNCHANGED <<profile, users, plan, pending, effects, executed, failed, answer, audit, broke>>

(* PoolTimeout, or the pool was closed by a drop: nothing ran, no audit row *)
NoConnection(r) ==
    /\ pc[r] = "planned"
    /\ Goto(r, "done")
    /\ UNCHANGED <<profile, users, plan, server, pending, effects, executed, failed, answer, audit, broke>>

-----------------------------------------------------------------------------
(* run(): the statement conn.execute is called with                        *)
Current(r) == executed[r] + 1

Running(r) == pc[r] = "running" /\ failed[r] = None /\ executed[r] < Len(plan[r])

AtOnce(r) == server[r] = "none" \/ plan[r][Current(r)] = "immediate"

Execute(r) ==
    /\ Running(r)
    /\ plan[r][Current(r)] # "unsendable"
    /\ executed' = [executed EXCEPT ![r] = @ + 1]
    /\ IF AtOnce(r)
       THEN effects' = [effects EXCEPT ![r] = @ \cup {Current(r)}] /\ UNCHANGED pending
       ELSE pending' = [pending EXCEPT ![r] = @ \cup {Current(r)}] /\ UNCHANGED effects
    /\ UNCHANGED <<profile, users, pc, plan, server, failed, answer, audit, broke>>

FailAt(r) == failed' = [failed EXCEPT ![r] = Current(r)]

(* Mutant: a statement is counted before it has run                        *)
Reject_Counted(r) ==
    /\ Running(r)
    /\ plan[r][Current(r)] # "unsendable"
    /\ FailAt(r)
    /\ executed' = [executed EXCEPT ![r] = @ + 1]
    /\ server' = [server EXCEPT ![r] = IF @ = "open" THEN "aborted" ELSE @]
    /\ UNCHANGED <<profile, users, pc, plan, pending, effects, answer, audit, broke>>

(* PostgreSQL reports an error: an open transaction is aborted             *)
Reject(r) ==
    /\ Running(r)
    /\ plan[r][Current(r)] # "unsendable"
    /\ FailAt(r)
    /\ server' = [server EXCEPT ![r] = IF @ = "open" THEN "aborted" ELSE @]
    /\ UNCHANGED <<profile, users, pc, plan, pending, effects, executed, answer, audit, broke>>

(* psycopg raises before anything is sent: the transaction stays open      *)
Unsent(r) ==
    /\ Running(r)
    /\ plan[r][Current(r)] = "unsendable"
    /\ FailAt(r)
    /\ UNCHANGED <<profile, users, pc, plan, server, pending, effects, executed, answer, audit, broke>>

(* The connection breaks, before or after PostgreSQL ran the statement     *)
Break(r) ==
    /\ Breaks
    /\ Running(r)
    /\ FailAt(r)
    /\ server' = [server EXCEPT ![r] = IF @ = "open" THEN "aborted" ELSE @]
    /\ \/ UNCHANGED effects
       \/ /\ plan[r][Current(r)] # "unsendable"
          /\ AtOnce(r)
          /\ effects' = [effects EXCEPT ![r] = @ \cup {Current(r)}]
    /\ broke' = broke \cup {r}
    /\ UNCHANGED <<profile, users, pc, plan, pending, executed, answer, audit>>

Finished(r) == pc[r] = "running" /\ (failed[r] # None \/ executed[r] = Len(plan[r]))

(* run() returned, so the transaction block ends without an exception:     *)
(* COMMIT, which PostgreSQL turns into a rollback where it was aborted     *)
Close(r) ==
    /\ Finished(r)
    /\ Atomic(plan[r])
    /\ effects' = [effects EXCEPT ![r] = IF server[r] = "open" THEN @ \cup pending[r] ELSE @]
    /\ server' = [server EXCEPT ![r] = "none"]
    /\ pending' = [pending EXCEPT ![r] = {}]
    /\ Goto(r, "closed")
    /\ UNCHANGED <<profile, users, plan, executed, failed, answer, audit, broke>>

(* The connection breaks before the COMMIT arrives                         *)
CommitLost(r) ==
    /\ Breaks
    /\ Finished(r)
    /\ Atomic(plan[r])
    /\ server' = [server EXCEPT ![r] = "none"]
    /\ pending' = [pending EXCEPT ![r] = {}]
    /\ answer' = [answer EXCEPT ![r] = [ok |-> FALSE, executed |-> 0]]
    /\ Goto(r, "answered")
    /\ broke' = broke \cup {r}
    /\ UNCHANGED <<profile, users, plan, effects, executed, failed, audit>>

(* A failed atomic plan answers executed = 0                               *)
Result(r) ==
    IF failed[r] = None THEN [ok |-> TRUE, executed |-> executed[r]]
    ELSE [ok |-> FALSE, executed |-> IF Atomic(plan[r]) THEN 0 ELSE executed[r]]

(* Mutant: the count of a transaction that was rolled back is kept         *)
Return_KeepsCount(r) ==
    /\ pc[r] = "closed" \/ (Finished(r) /\ ~Atomic(plan[r]))
    /\ answer' = [answer EXCEPT ![r] = [ok |-> failed[r] = None, executed |-> executed[r]]]
    /\ Goto(r, "answered")
    /\ UNCHANGED <<profile, users, plan, server, pending, effects, executed, failed, audit, broke>>

Return(r) ==
    /\ pc[r] = "closed" \/ (Finished(r) /\ ~Atomic(plan[r]))
    /\ answer' = [answer EXCEPT ![r] = Result(r)]
    /\ Goto(r, "answered")
    /\ UNCHANGED <<profile, users, plan, server, pending, effects, executed, failed, audit, broke>>

(* The answer to the COMMIT is lost                                        *)
ReturnLost(r) ==
    /\ Breaks
    /\ pc[r] = "closed"
    /\ answer' = [answer EXCEPT ![r] = [ok |-> FALSE, executed |-> 0]]
    /\ Goto(r, "answered")
    /\ broke' = broke \cup {r}
    /\ UNCHANGED <<profile, users, plan, server, pending, effects, executed, failed, audit>>

-----------------------------------------------------------------------------
Entry(r) == [request |-> r, ok |-> answer[r].ok, executed |-> answer[r].executed]

(* Mutant: only what succeeded is audited                                  *)
Audit_OnlySuccess(r) ==
    /\ pc[r] = "answered"
    /\ audit' = IF answer[r].ok THEN audit \cup {Entry(r)} ELSE audit
    /\ Goto(r, "done")
    /\ UNCHANGED <<profile, users, plan, server, pending, effects, executed, failed, answer, broke>>

(* The row names the profile and the account, foreign keys both; SQLite    *)
(* does not check them                                                     *)
Orphan(r) == profile = "gone" \/ UserOf[r] \notin users

Audit(r) ==
    /\ pc[r] = "answered"
    /\ Postgres => ~Orphan(r)
    /\ audit' = audit \cup {Entry(r)}
    /\ Goto(r, "done")
    /\ UNCHANGED <<profile, users, plan, server, pending, effects, executed, failed, answer, broke>>

(* PostgreSQL refuses the row: a 500                                       *)
AuditRefused(r) ==
    /\ pc[r] = "answered"
    /\ Postgres /\ Orphan(r)
    /\ Goto(r, "done")
    /\ UNCHANGED <<profile, users, plan, server, pending, effects, executed, failed, answer, audit, broke>>

(* update_profile and delete_profile by another user                       *)
ChangeProfile ==
    /\ Deletes
    /\ \/ profile' = "gone" /\ profile # "gone"
       \/ profile' \in {"readonly", "writable"} \ {profile} /\ profile # "gone"
    /\ UNCHANGED <<users, pc, plan, server, pending, effects, executed, failed, answer, audit, broke>>

(* delete_user by an admin                                                 *)
DeleteUser ==
    /\ Deletes
    /\ \E u \in users : users' = users \ {u}
    /\ UNCHANGED <<profile, pc, plan, server, pending, effects, executed, failed, answer, audit, broke>>

(* The process is killed: PostgreSQL rolls open transactions back          *)
Kill ==
    /\ Kills
    /\ \E r \in Request : pc[r] \notin {"new", "done", "killed"}
    /\ pc' = [r \in Request |-> IF pc[r] \in {"new", "done"} THEN pc[r] ELSE "killed"]
    /\ server' = [r \in Request |-> "none"]
    /\ pending' = [r \in Request |-> {}]
    /\ UNCHANGED <<profile, users, plan, effects, executed, failed, answer, audit, broke>>

Proceed(r) ==
    \/ Plan(r) \/ Refuse(r) \/ Connect(r) \/ NoConnection(r)
    \/ Execute(r) \/ Reject(r) \/ Unsent(r) \/ Break(r)
    \/ Close(r) \/ CommitLost(r) \/ Return(r) \/ ReturnLost(r)
    \/ Audit(r) \/ AuditRefused(r)

Next == (\E r \in Request : Proceed(r)) \/ ChangeProfile \/ DeleteUser \/ Kill

Spec == Init /\ [][Next]_vars

-----------------------------------------------------------------------------
TypeOK ==
    /\ profile \in {"writable", "readonly", "gone"}
    /\ users \subseteq User
    /\ pc \in [Request -> {"new", "planned", "running", "closed", "answered", "done", "killed"}]
    /\ plan \in [Request -> Plans \cup {None}]
    /\ server \in [Request -> {"none", "open", "aborted"}]
    /\ \A r \in Request :
          /\ plan[r] = None => executed[r] = 0 /\ effects[r] = {}
          /\ plan[r] # None =>
                /\ executed[r] \in 0..Len(plan[r])
                /\ failed[r] \in {None, executed[r] + 1}
                /\ pending[r] \cup effects[r] \subseteq 1..(executed[r] + 1)
                /\ pending[r] # {} => server[r] # "none"
    /\ audit \subseteq [request: Request, ok: BOOLEAN, executed: Nat]

(* A plan without non-transactional statements takes effect as a whole or  *)
(* not at all, reloads and the like excepted, others statement by          *)
(* statement, and what the answer says about it is right but for the last  *)
(* statement when the connection broke (pg/changes.py:837-841).            *)
Contract == INSTANCE ApplyContract WITH
    Request <- Request, Plans <- Plans, Alone <- Alone, Lasting <- Lasting, Breaks <- Breaks,
    None <- None, plan <- plan, effects <- effects, answer <- answer
AllOrNothing == Contract!Spec

(* Whatever took effect is in the audit log when the request is over, a    *)
(* failure that left part of its statements behind included, unless the    *)
(* profile or the user's own account was deleted before the row was        *)
(* written, and the metadata database is PostgreSQL, which refuses the row *)
(* then (api/changes.py:54-61, db/models.py:74-75, "applied on             *)
(* confirmation and audited", README.md:15).                               *)
AppliedIsAudited ==
    \A r \in Request :
        pc[r] = "done" /\ effects[r] # {} =>
            \/ \E a \in audit : a.request = r
            \/ Postgres /\ Orphan(r)

(* While the connection holds, the audit log counts exactly the statements *)
(* that took effect, those a rollback cannot take back excepted            *)
(* (changes.py:867-871, api/changes.py:45-52).                             *)
AuditCountsEffects ==
    \A a \in audit :
        LET p == plan[a.request]
            lasting == IF Atomic(p) /\ ~a.ok THEN {i \in DOMAIN p : Lasting(p[i])} ELSE {}
        IN  a.request \notin broke => effects[a.request] \ lasting = 1..a.executed

(* "Execute all statements in one transaction; any failure rolls           *)
(* everything back" (pg/changes.py:838): an atomic plan that failed has    *)
(* changed nothing.                                                        *)
RollsEverythingBack ==
    \A r \in Request :
        answer[r] # None /\ Atomic(plan[r]) /\ ~answer[r].ok => effects[r] = {}
=============================================================================

------------------------------ MODULE Accounts ------------------------------
(***************************************************************************)
(* PgControl accounts and their sessions: api/users.py, the password login *)
(* and OIDC callback of api/auth.py, and `pgcontrol create-user`.          *)
(* Demoting or deleting an admin is check-then-act under _admin_change, an *)
(* asyncio.Lock per server process, and SELECT ... FOR UPDATE on the admin *)
(* rows where the metadata database is PostgreSQL.                         *)
(***************************************************************************)
EXTENDS Naturals, FiniteSets

CONSTANTS
    Account,     \* user ids
    Request,     \* concurrent HTTP requests
    Worker,      \* server processes
    Deployment,  \* the ways PgControl is installed, and what is tried on each
    None

Role == {"viewer", "operator", "admin"}

Serialised(d) == \A r, q \in DOMAIN d.workerOf : d.workerOf[r] = d.workerOf[q]

ASSUME DeploymentsAreTyped ==
    /\ None \notin Request \cup Role
    /\ \A d \in Deployment :
        /\ d.sso \subseteq Account /\ d.signIns \subseteq Account
        /\ d.workerOf \in UNION {[R -> Worker] : R \in SUBSET Request}
        /\ {d.postgres, d.resets} \subseteq BOOLEAN
        /\ d.idpRoles \cup d.cliRoles \cup d.newRoles \cup d.firstRoles \subseteq Role

(* A SQLite file is served by one process                                  *)
ASSUME SqliteIsOneProcess == \A d \in Deployment : d.postgres \/ Serialised(d)

VARIABLES
    deployment,
    role,      \* users.role, None where there is no such user
    withPw,    \* accounts with a password_hash
    sessions,  \* the sessions table
    mutex,     \* holder of _admin_change in each process
    rows,      \* the transaction that holds a user's row FOR UPDATE
    scan,      \* the rows a request has still to lock
    pc, body,  \* what each request is doing, and its parameters
    sees,      \* the target's role as the request read it
    spent,     \* ids that are not given again
    lapsed,    \* history: accounts whose password overtook a reset or deletion
    outside,   \* history: the identity provider or the command line wrote a role
    late       \* history: a role was taken from an admin read as none

users == <<role, withPw, sessions, spent, lapsed, outside, late>>
vars == <<deployment, users, mutex, rows, scan, pc, body, sees>>

Sso == deployment.sso              \* accounts with auth_provider "oidc"
WorkerOf == deployment.workerOf    \* the process that serves each request
Postgres == deployment.postgres    \* metadata database: row locks and foreign keys, or SQLite
IdpRoles == deployment.idpRoles    \* roles the identity provider may map a user to at login
CliRoles == deployment.cliRoles    \* roles `pgcontrol create-user` is run with
SignIns == deployment.signIns      \* bound: accounts that sign in with a password
NewRoles == deployment.newRoles    \* bound: roles requests give to an account
FirstRoles == deployment.firstRoles    \* bound: roles accounts have at first
Resets == deployment.resets        \* bound: passwords are changed

(* self: the admin who asks is the target.  Create takes the id of a free   *)
(* row; of the admin who asks, only being somebody else matters.  void:    *)
(* the password that the request rests on was reset by an admin, or its    *)
(* account spent, since it was verified.                                 *)
Body(ops, targets, selves, given, resets) ==
    [op: ops, target: targets, self: selves, role: given, reset: resets, void: {FALSE}]
Change ==
    {b \in Body({"update"}, Account, BOOLEAN, NewRoles \cup {None}, {FALSE, Resets}) :
        b.role # None \/ b.reset}
    \cup Body({"delete"}, Account, {FALSE}, {None}, {FALSE})
    \cup Body({"create"}, Account \ Sso, {FALSE}, NewRoles, {FALSE})

SessionRow == [user: Account, void: BOOLEAN, raced: BOOLEAN]

Admins == {a \in Account : role[a] = "admin"}

Init ==
    /\ deployment \in Deployment
    /\ role \in {r \in [Account -> FirstRoles \cup {None}] : \E a \in Account : r[a] = "admin"}
    /\ withPw = Account \ Sso
    /\ sessions = {}
    /\ mutex = [w \in Worker |-> None]
    /\ rows = [a \in Account |-> None]
    /\ scan = [r \in Request |-> {}]
    /\ pc = [r \in Request |-> "idle"]
    /\ body = [r \in Request |-> None]
    /\ sees = [r \in Request |-> None]
    /\ spent = {} /\ lapsed = {}
    /\ outside = FALSE /\ late = FALSE

-----------------------------------------------------------------------------
(* The request ends: its transaction is over and the locks are left        *)
LeaveLocks(r) ==
    /\ pc' = [pc EXCEPT ![r] = "idle"]
    /\ sees' = [sees EXCEPT ![r] = None]
    /\ mutex' = [w \in Worker |-> IF mutex[w] = r THEN None ELSE mutex[w]]
    /\ rows' = [a \in Account |-> IF rows[a] = r THEN None ELSE rows[a]]
    /\ scan' = [scan EXCEPT ![r] = {}]

Leave(r) == LeaveLocks(r) /\ body' = [body EXCEPT ![r] = None]

NoEffect == UNCHANGED users

(* The AdminUser dependency, evaluated before the lock is asked for; an    *)
(* admin cannot delete the own account                                     *)
Authorise(r, b) ==
    /\ pc[r] = "idle"
    /\ IF b.self THEN b.target \in Admins ELSE Admins \ {b.target} # {}
    /\ pc' = [pc EXCEPT ![r] = "queued"]
    /\ body' = [body EXCEPT ![r] = b]
    /\ UNCHANGED <<users, mutex, rows, scan, sees>>

(* Mutant: no lock, so that the last two admins may demote each other      *)
Acquire_NoLock(r) ==
    /\ pc[r] = "queued"
    /\ body[r].op # "create"
    /\ pc' = [pc EXCEPT ![r] = "locked"]
    /\ UNCHANGED <<users, mutex, rows, scan, body, sees>>

Acquire(r) ==
    /\ pc[r] = "queued"
    /\ body[r].op # "create"
    /\ mutex[WorkerOf[r]] = None
    /\ mutex' = [mutex EXCEPT ![WorkerOf[r]] = r]
    /\ pc' = [pc EXCEPT ![r] = "locked"]
    /\ UNCHANGED <<users, rows, scan, body, sees>>

(* db.get(User, user_id): the own account is already in the session's      *)
(* identity map, as the AdminUser dependency read it                       *)
RoleRead(b) == IF b.self THEN "admin" ELSE role[b.target]

Load(r) ==
    /\ pc[r] = "locked"
    /\ RoleRead(body[r]) # None
    /\ sees' = [sees EXCEPT ![r] = RoleRead(body[r])]
    /\ pc' = [pc EXCEPT ![r] = "loaded"]
    /\ UNCHANGED <<users, mutex, rows, scan, body>>

NotFound(r) ==
    /\ pc[r] = "locked"
    /\ RoleRead(body[r]) = None
    /\ Leave(r)
    /\ NoEffect

(* The change takes an admin's role away, as far as the request can see    *)
Demotes(r) ==
    /\ sees[r] = "admin"
    /\ body[r].op = "delete" \/ body[r].role \notin {None, "admin", sees[r]}

(* _admins_left on PostgreSQL: the rows of the admins that the query found *)
(* are locked one by one, in any order (there is no ORDER BY) ...          *)
StartScan(r) ==
    /\ pc[r] = "loaded"
    /\ Postgres /\ Demotes(r)
    /\ scan' = [scan EXCEPT ![r] = Admins]
    /\ pc' = [pc EXCEPT ![r] = "scanning"]
    /\ UNCHANGED <<users, mutex, rows, body, sees>>

(* ... each when nobody else holds it, and as it is then                   *)
LockRow(r) ==
    /\ pc[r] = "scanning"
    /\ \E a \in scan[r] :
          /\ rows[a] = None
          /\ rows' = IF role[a] = None THEN rows ELSE [rows EXCEPT ![a] = r]
          /\ scan' = [scan EXCEPT ![r] = @ \ {a}]
    /\ UNCHANGED <<users, mutex, pc, body, sees>>

(* PostgreSQL ends one transaction of a circle of waiting ones: a 500      *)
Wanted(r) ==
    IF pc[r] = "scanning" THEN scan[r]
    ELSE IF pc[r] = "checked" THEN {body[r].target} ELSE {}
WaitsFor(r, q) == q # r /\ \E a \in Wanted(r) : rows[a] = q
InCircle(r) ==
    \E R \in SUBSET Request : r \in R /\
        \E next \in [R -> R] : {next[q] : q \in R} = R /\ \A q \in R : WaitsFor(q, next[q])

Deadlock(r) ==
    /\ pc[r] \in {"scanning", "checked"}
    /\ InCircle(r)
    /\ Leave(r)
    /\ NoEffect

(* The other admins, counted: on SQLite FOR UPDATE means nothing           *)
Counts(r) ==
    IF Postgres THEN pc[r] = "scanning" /\ scan[r] = {} ELSE pc[r] = "loaded" /\ Demotes(r)

Others(r) == {a \in Admins \ {body[r].target} : Postgres => rows[a] = r}

Count(r) ==
    /\ Counts(r)
    /\ Others(r) # {}
    /\ pc' = [pc EXCEPT ![r] = "checked"]
    /\ UNCHANGED <<users, mutex, rows, scan, body, sees>>

(* Mutant: instead of answering 400, wait until there is another admin     *)
LastAdmin_Retries(r) ==
    /\ Counts(r)
    /\ Others(r) = {}
    /\ pc' = [pc EXCEPT ![r] = "locked"]
    /\ NoEffect
    /\ UNCHANGED <<mutex, rows, scan, body, sees>>

LastAdmin(r) ==
    /\ Counts(r)
    /\ Others(r) = {}
    /\ Leave(r)
    /\ NoEffect

Checked(r) == pc[r] = "checked" \/ (pc[r] = "loaded" /\ ~Demotes(r))

(* 400 after the role was assigned: the session closes without a commit    *)
SsoPassword(r) == body[r].op = "update" /\ body[r].reset /\ body[r].target \in Sso

RefusePassword(r) ==
    /\ Checked(r)
    /\ SsoPassword(r)
    /\ Leave(r)
    /\ NoEffect

(* A row another transaction holds FOR UPDATE is not written               *)
CanWrite(a, r) == rows[a] \in {None, r}

(* An admin's reset of a password, or the end of the account, voids the    *)
(* sessions and what was verified before and is not over yet               *)
RestsOn(b, a) ==
    b # None /\ b.target = a /\ (b.op \in {"login", "own"} \/ (b.self /\ b.reset))

LeaveVoiding(r, a) ==
    /\ LeaveLocks(r)
    /\ body' = [q \in Request |->
                  IF q = r THEN None
                  ELSE IF RestsOn(body[q], a) THEN [body[q] EXCEPT !.void = TRUE] ELSE body[q]]

Voided(a) == {IF s.user = a THEN [s EXCEPT !.void = TRUE] ELSE s : s \in sessions}

(* Mutant: the sessions of the account are left alone                      *)
EndSessionsOf_KeepsThem(a) == sessions' = Voided(a)

(* ... and the sessions are deleted                                        *)
EndSessionsOf(a) == sessions' = {s \in Voided(a) : s.user # a}

(* What the role of a becomes, and whether an admin unseen loses it        *)
WriteRole(r, a, given) ==
    /\ role' = [role EXCEPT ![a] = given]
    /\ late' = (late \/ (role[a] = "admin" /\ given # "admin" /\ sees[r] # "admin"))

(* update_user: only a role that differs from the one read is written      *)
UpdateRole(r) ==
    IF body[r].role \in {None, sees[r]}
    THEN UNCHANGED <<role, late>>
    ELSE WriteRole(r, body[r].target, body[r].role)

CommitReset(r) ==
    LET a == body[r].target
    IN  /\ lapsed' = lapsed \ {a}
        /\ LeaveVoiding(r, a)
        /\ EndSessionsOf(a)

(* Of the own password: the sessions stay                                  *)
WriteOwnPassword(r) ==
    /\ lapsed' = IF body[r].void THEN lapsed \cup {body[r].target} ELSE lapsed \ {body[r].target}
    /\ Leave(r)
    /\ UNCHANGED sessions

CommitUpdate(r) ==
    LET b == body[r]
    IN  /\ Checked(r)
        /\ b.op = "update"
        /\ ~SsoPassword(r)
        /\ CanWrite(b.target, r)
        /\ role[b.target] # None
        /\ UpdateRole(r)
        /\ IF ~b.reset THEN Leave(r) /\ UNCHANGED <<sessions, lapsed>>
           ELSE IF b.self THEN WriteOwnPassword(r)
           ELSE CommitReset(r)
        /\ UNCHANGED <<withPw, spent, outside>>

CommitDelete(r) ==
    LET a == body[r].target
    IN  /\ Checked(r)
        /\ body[r].op = "delete"
        /\ CanWrite(a, r)
        /\ WriteRole(r, a, None)
        /\ EndSessionsOf(a)
        /\ LeaveVoiding(r, a)
        /\ lapsed' = lapsed \ {a}
        /\ spent' = IF Postgres THEN spent \cup {a} ELSE spent
        /\ UNCHANGED <<withPw, outside>>

(* The row went away after it was read: the flush fails and rolls back     *)
CommitFails(r) ==
    /\ \/ Checked(r) /\ body[r].op = "update"
       \/ pc[r] = "own"
    /\ role[body[r].target] = None
    /\ Leave(r)
    /\ NoEffect

(* PostgreSQL gives no id again                                            *)
Free(a) == role[a] = None /\ a \notin spent

(* create_user takes no lock; an existing name is a 409                    *)
CreateUser(r) ==
    LET b == body[r]
    IN  /\ pc[r] = "queued"
        /\ b.op = "create"
        /\ IF Free(b.target)
           THEN /\ role' = [role EXCEPT ![b.target] = b.role]
                /\ withPw' = withPw \cup {b.target}
           ELSE UNCHANGED <<role, withPw>>
        /\ UNCHANGED <<sessions, spent, lapsed, outside, late>>
        /\ Leave(r)

-----------------------------------------------------------------------------
(* A password of a is verified: login, and the start of change_own_password *)
Begin(r, op, a) ==
    /\ pc[r] = "idle"
    /\ role[a] # None
    /\ a \in withPw
    /\ body' = [body EXCEPT ![r] = [op |-> op, target |-> a, self |-> TRUE, role |-> None,
                                    reset |-> FALSE, void |-> a \in lapsed]]
    /\ UNCHANGED <<users, mutex, rows, scan, sees>>

(* login: the password is verified ...                                     *)
Verify(r, a) ==
    /\ a \in SignIns
    /\ Begin(r, "login", a)
    /\ pc' = [pc EXCEPT ![r] = "verified"]

(* ... and after purge_expired_sessions the session row is inserted; a     *)
(* foreign key refuses one without a user, and waits for the row of one    *)
CreateSession(r) ==
    /\ pc[r] = "verified"
    /\ Postgres => CanWrite(body[r].target, r)
    /\ LET a == body[r].target
           s == [user |-> a, void |-> body[r].void, raced |-> body[r].void]
       IN  sessions' = IF role[a] = None /\ Postgres THEN sessions ELSE sessions \cup {s}
    /\ UNCHANGED <<role, withPw, spent, lapsed, outside, late>>
    /\ Leave(r)

(* logout, expiry and purge_expired_sessions                               *)
DeleteSession(s) ==
    /\ sessions' = sessions \ {s}
    /\ UNCHANGED <<role, withPw, spent, lapsed, outside, late, mutex, rows, scan, pc, body, sees>>

(* change_own_password: the current password is checked against the row    *)
(* that the session's query read ...                                       *)
VerifyOwn(r, s) ==
    /\ Resets
    /\ Begin(r, "own", s.user)
    /\ pc' = [pc EXCEPT ![r] = "own"]

(* ... and the new one is written, whatever became of the old one          *)
CommitOwn(r) ==
    /\ pc[r] = "own"
    /\ role[body[r].target] # None
    /\ CanWrite(body[r].target, r)
    /\ WriteOwnPassword(r)
    /\ UNCHANGED <<role, withPw, spent, outside, late>>

(* oidc_callback: the role follows the identity provider at every login;   *)
(* the first login creates the account, without a password                 *)
OidcRole(a, mapped) ==
    /\ a \in Sso
    /\ role[a] # mapped
    /\ role[a] = None => Free(a)
    /\ CanWrite(a, None)
    /\ role' = [role EXCEPT ![a] = mapped]
    /\ withPw' = IF role[a] = None THEN withPw \ {a} ELSE withPw
    /\ outside' = TRUE
    /\ UNCHANGED <<sessions, spent, lapsed, late, mutex, rows, scan, pc, body, sees>>

(* `pgcontrol create-user`, a process of its own, also updates a user, and *)
(* leaves the sessions and logins of the account alone                     *)
CliUser(a, given) ==
    /\ CanWrite(a, None)
    /\ role[a] = None => a \notin Sso /\ Free(a)
    /\ role' = [role EXCEPT ![a] = given]
    /\ withPw' = withPw \cup {a}
    /\ lapsed' = lapsed \ {a}
    /\ outside' = TRUE
    /\ UNCHANGED <<sessions, spent, late, mutex, rows, scan, pc, body, sees>>

-----------------------------------------------------------------------------
Proceed(r) ==
    \/ Acquire(r) \/ Load(r) \/ NotFound(r)
    \/ StartScan(r) \/ LockRow(r) \/ Deadlock(r) \/ Count(r) \/ LastAdmin(r)
    \/ RefusePassword(r) \/ CommitUpdate(r) \/ CommitDelete(r) \/ CommitFails(r)
    \/ CreateUser(r) \/ CreateSession(r) \/ CommitOwn(r)

Served == DOMAIN WorkerOf

Step ==
    \/ \E r \in Request : Proceed(r)
    \/ \E r \in Served, b \in Change : Authorise(r, b)
    \/ \E r \in Served, a \in Account : Verify(r, a)
    \/ \E r \in Served, s \in sessions : VerifyOwn(r, s)
    \/ \E s \in sessions : DeleteSession(s)
    \/ \E a \in Account, m \in IdpRoles : OidcRole(a, m)
    \/ \E a \in Account, m \in CliRoles : CliUser(a, m)

Next == Step /\ UNCHANGED deployment

Spec == Init /\ [][Next]_vars

(* Database calls return; asyncio.Lock and PostgreSQL's row locks are      *)
(* queues, so what is released again and again is obtained                 *)
FairSpec == Spec /\ \A r \in Request : SF_vars(Proceed(r) /\ UNCHANGED deployment)

-----------------------------------------------------------------------------
(* However admins demote and delete each other at the same time, in one    *)
(* process or in several, one admin is left (README.md:143, users.py:64),  *)
(* until the identity provider or the command line writes a role without   *)
(* _admins_left, or, with several processes, a request takes the role of   *)
(* an admin that it had read before another made it one: that one is not   *)
(* counted, and the run accounts_promotion shows it end with no admin.     *)
AdminRemains == outside \/ Admins # {} \/ (late /\ ~Serialised(deployment))

(* "lock the admin rows (FOR UPDATE, PostgreSQL metadata DB) so two admins *)
(* cannot remove each other" (users.py:64-65)                              *)
LocksKeepAnAdmin == outside \/ Admins # {}

(* A session that rests on a password an admin has reset since, or on an   *)
(* account deleted since, is of a login or a change of the own password    *)
(* that had verified the password before and wrote after; the reset and    *)
(* the deletion end all others (users.py:116, 138), also for an account    *)
(* that gets the same id later.                                            *)
OldPasswordOnlyByRace == \A s \in sessions : s.void => s.raced

(* A change that was started ends, with one lock taken inside the other    *)
(* and row locks taken in no order.                                        *)
Ends(r) == pc[r] = "queued" ~> pc[r] = "idle"
=============================================================================

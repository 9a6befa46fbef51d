---------------------------- MODULE SignInProofs ----------------------------
(***************************************************************************)
(* Who may sign in, and until when: the accounts and their sessions        *)
(* (Accounts), and the throttle of wrong passwords (LoginLimiter).  The    *)
(* two share no variable; each has its own specification.                  *)
(*                                                                         *)
(* Accounts: what the locks of the account endpoints and the end of        *)
(* sessions at a reset or a deletion are worth, for any number of          *)
(* accounts, requests and processes and in every deployment.               *)
(*                                                                         *)
(* LoginLimiter: for any number of addresses, names and logins in flight,  *)
(* any limits and any time, the guesses of an address are bounded, a       *)
(* lockout is kept, its Retry-After suffices, and the map holds only what  *)
(* is recent.                                                              *)
(***************************************************************************)
EXTENDS Accounts, LoginLimiter, FiniteSetTheorems, SequenceTheorems, WellFoundedInduction, TLAPS

-----------------------------------------------------------------------------
BodyRow ==
  [op : {"update", "delete", "create", "login", "own"}, target : Account, self : BOOLEAN,
   role : Role \cup {None}, reset : BOOLEAN, void : BOOLEAN]

VarType ==
  /\ deployment \in Deployment
  /\ role \in [Account -> Role \cup {None}]
  /\ outside \in BOOLEAN /\ late \in BOOLEAN
  /\ sessions \subseteq SessionRow
  /\ mutex \in [Worker -> Request \cup {None}]
  /\ rows \in [Account -> Request \cup {None}]
  /\ DOMAIN pc = Request /\ DOMAIN body = Request /\ DOMAIN sees = Request

\* What a request at each of its awaits holds and knows.
Looked(r) == pc[r] \in {"loaded", "scanning", "checked"}
Holding(r) == pc[r] = "locked" \/ Looked(r)
RequestInv(r) ==
  /\ pc[r] \in {"idle", "queued", "locked", "loaded", "scanning", "checked", "verified", "own"}
  /\ pc[r] # "idle" => r \in Served /\ body[r] \in BodyRow
  /\ Holding(r) => mutex[WorkerOf[r]] = r
  /\ pc[r] \in {"scanning", "checked"} => Demotes(r)

\* A request that has counted the other admins finds one there when it commits;
\* in one process, one that saw no admin removes none.
CountHolds(r) ==
  /\ pc[r] = "checked" => Others(r) # {}
  /\ Looked(r) /\ sees[r] # "admin" /\ Serialised(deployment) =>
        role[body[r].target] \notin {None, "admin"}
Unseen == late /\ ~Serialised(deployment)
AdminInv == outside \/ Unseen \/ (Admins # {} /\ \A r \in Request : CountHolds(r))

Inv == VarType /\ \A r \in Request : RequestInv(r)

-----------------------------------------------------------------------------
(* What a deployment is                                                      *)
LEMMA DeploymentFields ==
  ASSUME VarType
  PROVE  /\ Served \subseteq Request /\ \A r \in Served : WorkerOf[r] \in Worker
         /\ NewRoles \subseteq Role /\ IdpRoles \subseteq Role /\ CliRoles \subseteq Role
         /\ Resets \in BOOLEAN
         /\ Postgres \/ Serialised(deployment)
         /\ None \notin Request \cup Role
  <1>1. /\ Served \subseteq Request /\ \A r \in Served : WorkerOf[r] \in Worker
        /\ NewRoles \subseteq Role /\ IdpRoles \subseteq Role /\ CliRoles \subseteq Role
        /\ None \notin Request \cup Role
    BY DeploymentsAreTyped DEF VarType, Served, WorkerOf, NewRoles, IdpRoles, CliRoles
  <1>2. Resets \in BOOLEAN
    BY DeploymentsAreTyped DEF VarType, Resets
  <1>3. Postgres \/ Serialised(deployment)
    BY SqliteIsOneProcess DEF VarType, Postgres
  <1> QED BY <1>1, <1>2, <1>3

(* ... and that it stays the same                                            *)
LEMMA DeploymentStays ==
  ASSUME deployment' = deployment
  PROVE  /\ Served' = Served /\ WorkerOf' = WorkerOf /\ Postgres' = Postgres
         /\ Serialised(deployment)' = Serialised(deployment)
  BY DEF Served, WorkerOf, Postgres, Serialised

(* What is asked of the account endpoints                                    *)
LEMMA ChangeFields ==
  ASSUME VarType, NEW b \in Change
  PROVE  b \in BodyRow
  BY DeploymentFields DEF Change, Body, BodyRow

(* A request that a step does not concern, but that it may mark              *)
SameBody(q) == body'[q] = body[q] \/ body'[q] = [body[q] EXCEPT !.void = TRUE]
Stays(q) == pc'[q] = pc[q] /\ sees'[q] = sees[q] /\ SameBody(q)

LEMMA MarkedBody ==
  ASSUME NEW q \in Request, body[q] \in BodyRow, SameBody(q)
  PROVE  /\ body'[q] \in BodyRow
         /\ body'[q].op = body[q].op /\ body'[q].target = body[q].target
         /\ body'[q].role = body[q].role
  BY DEF BodyRow, SameBody

LEMMA Unconcerned ==
  ASSUME NEW q \in Request, RequestInv(q), deployment' = deployment, Stays(q),
         Holding(q) => mutex'[WorkerOf[q]] = q
  PROVE  RequestInv(q)'
  <1>1. pc'[q] = pc[q] /\ sees'[q] = sees[q] /\ Served' = Served /\ WorkerOf' = WorkerOf
    BY DeploymentStays DEF Stays
  <1>2. CASE pc[q] = "idle"
    BY <1>1, <1>2 DEF RequestInv, Holding, Looked
  <1>3. CASE pc[q] # "idle"
    <2>1. body[q] \in BodyRow /\ q \in Served /\ SameBody(q)
      BY <1>3 DEF RequestInv, Stays
    <2>2. body'[q] \in BodyRow /\ body'[q].op = body[q].op /\ body'[q].role = body[q].role
      BY <2>1, MarkedBody
    <2>3. Demotes(q) => Demotes(q)'
      BY <1>1, <2>2 DEF Demotes
    <2> QED BY <1>1, <2>1, <2>2, <2>3 DEF RequestInv, Holding, Looked
  <1> QED BY <1>2, <1>3

(* A request that ends leaves its locks; it may mark others, and disturbs    *)
(* nobody                                                                    *)
Leaves(r) == Leave(r) \/ \E a \in Account : LeaveVoiding(r, a)

LEMMA LeavesOthers ==
  ASSUME Inv, NEW r \in Request, Leaves(r)
  PROVE  /\ LeaveLocks(r) /\ pc'[r] = "idle"
         /\ DOMAIN pc' = Request /\ DOMAIN body' = Request /\ DOMAIN sees' = Request
         /\ mutex' \in [Worker -> Request \cup {None}] /\ rows' \in [Account -> Request \cup {None}]
         /\ \A q \in Request \ {r} : Stays(q) /\ \A a \in Account : rows[a] = q => rows'[a] = q
  <1>1. LeaveLocks(r)
    BY DEF Leaves, Leave, LeaveVoiding
  <1>2. /\ pc'[r] = "idle" /\ DOMAIN pc' = Request /\ DOMAIN sees' = Request
        /\ mutex' \in [Worker -> Request \cup {None}] /\ rows' \in [Account -> Request \cup {None}]
    BY <1>1 DEF LeaveLocks, Inv, VarType
  <1>3. DOMAIN body' = Request
    BY DEF Leaves, Leave, LeaveVoiding, Inv, VarType
  <1>4. ASSUME NEW q \in Request \ {r}
        PROVE  Stays(q) /\ \A a \in Account : rows[a] = q => rows'[a] = q
    <2>1. pc'[q] = pc[q] /\ sees'[q] = sees[q] /\ \A a \in Account : rows[a] = q => rows'[a] = q
      BY <1>1, <1>4 DEF LeaveLocks, Inv, VarType
    <2>2. SameBody(q)
      <3>1. CASE Leave(r)
        BY <1>4, <3>1 DEF Leave, SameBody, Inv, VarType
      <3>2. CASE \E a \in Account : LeaveVoiding(r, a)
        BY <1>4, <3>2 DEF LeaveVoiding, SameBody
      <3> QED BY <3>1, <3>2 DEF Leaves
    <2> QED BY <2>1, <2>2 DEF Stays
  <1> QED BY <1>1, <1>2, <1>3, <1>4

LEMMA LeaveKeeps ==
  ASSUME Inv, NEW r \in Request, Leaves(r), deployment' = deployment
  PROVE  \A q \in Request : RequestInv(q)'
  <1>1. RequestInv(r)'
    BY LeavesOthers DEF RequestInv, Holding, Looked
  <1>2. ASSUME NEW q \in Request, q # r PROVE RequestInv(q)'
    <2>1. Holding(q) => mutex'[WorkerOf[q]] = q
      <3> SUFFICES ASSUME Holding(q) PROVE mutex'[WorkerOf[q]] = q
        OBVIOUS
      <3>1. pc[q] # "idle" /\ RequestInv(q)
        BY DEF Holding, Looked, Inv
      <3>2. mutex[WorkerOf[q]] = q /\ WorkerOf[q] \in Worker
        BY <3>1, DeploymentFields DEF Inv, RequestInv
      <3> QED BY <3>2, <1>2, LeavesOthers DEF LeaveLocks
    <2> QED BY <1>2, <2>1, LeavesOthers, Unconcerned DEF Inv
  <1> QED BY <1>1, <1>2

-----------------------------------------------------------------------------
(* The types, and what requests hold                                         *)

Begins(r) ==
  \/ \E b \in Change : Authorise(r, b)
  \/ \E a \in Account : Verify(r, a)
  \/ \E s \in sessions : VerifyOwn(r, s)

(* A request is admitted, or its password is verified                        *)
LEMMA BeginInv ==
  ASSUME Inv, deployment' = deployment, NEW r \in Served, Begins(r)
  PROVE  /\ Inv' /\ UNCHANGED <<users, mutex, rows>> /\ ~Looked(r)'
         /\ \A q \in Request \ {r} : Stays(q)
  <1>1. r \in Request /\ Served' = Served
    BY DeploymentFields, DeploymentStays DEF Inv
  <1>2. /\ UNCHANGED <<users, mutex, rows, sees>>
        /\ pc' = [pc EXCEPT ![r] = pc'[r]] /\ body' = [body EXCEPT ![r] = body'[r]]
        /\ pc'[r] \in {"queued", "verified", "own"} /\ body'[r] \in BodyRow
    <2>1. CASE \E b \in Change : Authorise(r, b)
      BY <1>1, <2>1, ChangeFields DEF Inv, VarType, Authorise
    <2>2. ASSUME NEW a \in Account, NEW op \in {"login", "own"}, Begin(r, op, a)
          PROVE  /\ body' = [body EXCEPT ![r] = body'[r]] /\ body'[r] \in BodyRow
                 /\ UNCHANGED <<users, mutex, rows, sees>>
      BY <1>1, <2>2 DEF Inv, VarType, Begin, BodyRow
    <2>3. CASE \E a \in Account : Verify(r, a)
      BY <1>1, <2>2, <2>3 DEF Inv, VarType, Verify
    <2>4. CASE \E s \in sessions : VerifyOwn(r, s)
      <3>1. \A s \in sessions : s.user \in Account
        BY DEF Inv, VarType, SessionRow
      <3> QED BY <1>1, <2>2, <2>4, <3>1 DEF Inv, VarType, VerifyOwn
    <2> QED BY <2>1, <2>3, <2>4 DEF Begins
  <1>3. VarType'
    BY <1>2 DEF Inv, VarType, users
  <1>4. \A q \in Request \ {r} : Stays(q)
    BY <1>2 DEF Inv, VarType, Stays, SameBody
  <1>5. ASSUME NEW q \in Request, q # r PROVE RequestInv(q)'
    BY <1>2, <1>4, <1>5, Unconcerned DEF Inv, RequestInv
  <1>6. RequestInv(r)' /\ ~Looked(r)'
    BY <1>1, <1>2 DEF RequestInv, Holding, Looked
  <1> QED BY <1>2, <1>3, <1>4, <1>5, <1>6 DEF Inv

GoesOn(r) == Acquire(r) \/ Load(r) \/ StartScan(r) \/ LockRow(r) \/ Count(r)

(* A request goes on, and is not over yet                                    *)
LEMMA GoOnInv ==
  ASSUME Inv, deployment' = deployment, NEW r \in Request, GoesOn(r)
  PROVE  /\ Inv' /\ UNCHANGED <<users, body>>
         /\ \A q \in Request \ {r} : Stays(q)
         /\ \A q \in Request, a \in Account : rows[a] = q => rows'[a] = q
  <1>1. pc[r] # "idle" /\ body[r] \in BodyRow /\ r \in Served /\ WorkerOf[r] \in Worker
    BY DeploymentFields DEF Inv, RequestInv, GoesOn, Acquire, Load, StartScan, LockRow, Count, Counts
  <1>2. UNCHANGED <<users, body>>
    BY DEF GoesOn, Acquire, Load, StartScan, LockRow, Count
  <1>3. /\ mutex' \in [Worker -> Request \cup {None}] /\ DOMAIN pc' = Request /\ DOMAIN sees' = Request
        /\ \A q \in Request \ {r} : Stays(q)
    BY <1>1 DEF Inv, VarType, GoesOn, Acquire, Load, StartScan, LockRow, Count, Stays, SameBody
  <1>4. /\ rows' \in [Account -> Request \cup {None}]
        /\ \A q \in Request, a \in Account : rows[a] = q => rows'[a] = q
    <2>1. CASE rows' = rows
      BY <2>1 DEF Inv, VarType
    <2>2. CASE \E a : rows[a] = None /\ rows' = [rows EXCEPT ![a] = r]
      <3>1. PICK a : rows[a] = None /\ rows' = [rows EXCEPT ![a] = r]
        BY <2>2
      <3> QED BY <3>1, DeploymentFields DEF Inv, VarType
    <2> QED BY <2>1, <2>2 DEF GoesOn, Acquire, Load, StartScan, LockRow, Count
  <1>5. VarType'
    BY <1>2, <1>3, <1>4 DEF Inv, VarType, users
  <1>6. ASSUME NEW q \in Request, q # r PROVE RequestInv(q)'
    <2>1. Holding(q) => mutex'[WorkerOf[q]] = q
      <3> SUFFICES ASSUME Holding(q) PROVE mutex'[WorkerOf[q]] = q
        OBVIOUS
      <3>1. pc[q] # "idle" /\ RequestInv(q)
        BY DEF Holding, Looked, Inv
      <3>2. mutex[WorkerOf[q]] = q /\ q # None /\ WorkerOf[q] \in Worker
        BY <3>1, DeploymentFields DEF Inv, RequestInv
      <3>3. DOMAIN mutex = Worker
        BY DEF Inv, VarType
      <3> QED BY <1>1, <3>2, <3>3 DEF GoesOn, Acquire, Load, StartScan, LockRow, Count
    <2> QED BY <1>3, <1>6, <2>1, Unconcerned DEF Inv
  <1>7. RequestInv(r)'
    <2>1. r \in Served' /\ body'[r] \in BodyRow /\ WorkerOf' = WorkerOf
      BY <1>1, <1>2, DeploymentStays
    <2>2. CASE Acquire(r)
      BY <1>1, <2>1, <2>2 DEF Inv, VarType, RequestInv, Holding, Looked, Acquire
    <2>3. CASE Load(r)
      BY <1>1, <2>1, <2>3 DEF Inv, VarType, RequestInv, Holding, Looked, Load
    <2>4. CASE StartScan(r) \/ LockRow(r) \/ Count(r)
      <3>1. Demotes(r)
        BY <2>4 DEF StartScan, LockRow, Count, Counts, Inv, RequestInv
      <3>2. Demotes(r)' /\ pc'[r] \in {"scanning", "checked"} /\ mutex' = mutex /\ Looked(r)
        BY <2>4, <3>1 DEF StartScan, LockRow, Count, Counts, Inv, VarType, Demotes, Looked
      <3> QED BY <2>1, <3>2 DEF Inv, RequestInv, Holding, Looked
    <2> QED BY <2>2, <2>3, <2>4 DEF GoesOn
  <1> QED BY <1>2, <1>3, <1>4, <1>5, <1>6, <1>7 DEF Inv

GivesUp(r) ==
  NotFound(r) \/ Deadlock(r) \/ LastAdmin(r) \/ RefusePassword(r) \/ CommitFails(r)
Commits(r) == CommitUpdate(r) \/ CommitDelete(r) \/ CreateUser(r)
WritesPassword(r) == CreateSession(r) \/ CommitOwn(r)

(* A reset and a deletion end sessions and bring none                        *)
LEMMA SessionsEnd ==
  ASSUME VarType, NEW a \in Account, EndSessionsOf(a)
  PROVE  sessions' \subseteq sessions
  <1> SUFFICES ASSUME NEW s \in Voided(a), s.user # a PROVE s \in sessions
    BY DEF EndSessionsOf
  <1>1. PICK t \in sessions : s = IF t.user = a THEN [t EXCEPT !.void = TRUE] ELSE t
    BY DEF Voided
  <1>2. t \in SessionRow
    BY DEF VarType
  <1>3. t.user # a
    BY <1>1, <1>2 DEF SessionRow
  <1> QED BY <1>1, <1>3

(* What a commit writes                                                      *)
LEMMA CommitWrites ==
  ASSUME Inv, NEW r \in Request, Commits(r)
  PROVE  /\ Leaves(r) /\ outside' = outside /\ sessions' \subseteq sessions
         /\ body[r].target \in Account
         /\ role' = role \/ \E x \in Role \cup {None} : role' = [role EXCEPT ![body[r].target] = x]
         /\ late' \in BOOLEAN
         /\ CreateUser(r) \/ (Checked(r) /\ rows[body[r].target] \in {None, r})
  <1>1. body[r] \in BodyRow
    BY DEF Inv, RequestInv, Commits, CommitUpdate, CommitDelete, CreateUser, Checked
  <1>2. body[r].target \in Account /\ body[r].role \in Role \cup {None}
    BY <1>1 DEF BodyRow
  <1>3. late \in BOOLEAN
    BY DEF Inv, VarType
  <1>4. CASE CommitUpdate(r)
    <2>1. /\ role' = role \/ role' = [role EXCEPT ![body[r].target] = body[r].role]
          /\ late' \in BOOLEAN
      BY <1>3, <1>4 DEF CommitUpdate, UpdateRole, WriteRole
    <2>2. Leaves(r) /\ sessions' \subseteq sessions
      BY <1>2, <1>4, SessionsEnd DEF CommitUpdate, WriteOwnPassword, CommitReset, Leaves, Inv
    <2>3. outside' = outside /\ Checked(r) /\ rows[body[r].target] \in {None, r}
      BY <1>4 DEF CommitUpdate, CanWrite
    <2> QED BY <1>2, <2>1, <2>2, <2>3
  <1>5. CASE CommitDelete(r)
    <2>1. role' = [role EXCEPT ![body[r].target] = None] /\ late' \in BOOLEAN
      BY <1>3, <1>5 DEF CommitDelete, WriteRole
    <2>2. Leaves(r) /\ sessions' \subseteq sessions
      BY <1>2, <1>5, SessionsEnd DEF CommitDelete, Leaves, Inv
    <2>3. outside' = outside /\ Checked(r) /\ rows[body[r].target] \in {None, r}
      BY <1>5 DEF CommitDelete, CanWrite
    <2> QED BY <1>2, <2>1, <2>2, <2>3
  <1>6. CASE CreateUser(r)
    BY <1>2, <1>3, <1>6 DEF CreateUser, Leaves
  <1> QED BY <1>4, <1>5, <1>6 DEF Commits

(* A request ends                                                            *)
LEMMA EndInv ==
  ASSUME Inv, deployment' = deployment, NEW r \in Request,
         GivesUp(r) \/ WritesPassword(r) \/ Commits(r)
  PROVE  Inv' /\ Leaves(r)
  <1>1. CASE GivesUp(r)
    <2>1. Leaves(r) /\ NoEffect
      BY <1>1 DEF GivesUp, NotFound, Deadlock, LastAdmin, RefusePassword, CommitFails, Leaves
    <2>2. VarType'
      BY <2>1, LeavesOthers DEF Inv, VarType, NoEffect, users
    <2> QED BY <2>1, <2>2, LeaveKeeps DEF Inv
  <1>2. CASE WritesPassword(r)
    <2>1. Leaves(r) /\ UNCHANGED <<role, outside, late>>
      BY <1>2 DEF WritesPassword, CreateSession, CommitOwn, WriteOwnPassword, Leaves
    <2>2. body[r] \in BodyRow
      BY <1>2 DEF Inv, RequestInv, WritesPassword, CreateSession, CommitOwn
    <2>3. sessions' \subseteq sessions \cup {[user |-> body[r].target, void |-> body[r].void, raced |-> body[r].void]}
      BY <1>2 DEF WritesPassword, CreateSession, CommitOwn, WriteOwnPassword
    <2>4. sessions' \subseteq SessionRow
      BY <2>2, <2>3 DEF Inv, VarType, BodyRow, SessionRow
    <2>5. VarType'
      BY <2>1, <2>4, LeavesOthers DEF Inv, VarType
    <2> QED BY <2>1, <2>5, LeaveKeeps DEF Inv
  <1>3. CASE Commits(r)
    <2>1. Leaves(r)
      BY <1>3, CommitWrites
    <2>2. role' \in [Account -> Role \cup {None}]
      BY <1>3, CommitWrites DEF Inv, VarType
    <2>3. VarType'
      BY <1>3, <2>1, <2>2, CommitWrites, LeavesOthers DEF Inv, VarType
    <2> QED BY <2>1, <2>3, LeaveKeeps DEF Inv
  <1> QED BY <1>1, <1>2, <1>3

Beside ==
  \/ \E s \in sessions : DeleteSession(s)
  \/ \E a \in Account, m \in IdpRoles : OidcRole(a, m)
  \/ \E a \in Account, m \in CliRoles : CliUser(a, m)

(* What happens beside the requests                                          *)
LEMMA BesideInv ==
  ASSUME Inv, deployment' = deployment, Beside
  PROVE  /\ Inv' /\ sessions' \subseteq sessions
         /\ outside' \/ UNCHANGED <<role, outside, late, rows, pc, body, sees>>
  <1>1. UNCHANGED <<mutex, rows, pc, body, sees, late>> /\ sessions' \subseteq sessions
    BY DEF Beside, DeleteSession, OidcRole, CliUser
  <1>2. outside' \/ UNCHANGED <<role, outside>>
    BY DEF Beside, DeleteSession, OidcRole, CliUser
  <1>3. IdpRoles \subseteq Role /\ CliRoles \subseteq Role
    BY DeploymentFields DEF Inv
  <1>4. role' \in [Account -> Role \cup {None}] /\ outside' \in BOOLEAN
    BY <1>3 DEF Inv, VarType, Beside, DeleteSession, OidcRole, CliUser
  <1>5. VarType'
    BY <1>1, <1>4 DEF Inv, VarType
  <1>6. ASSUME NEW q \in Request PROVE RequestInv(q)'
    BY <1>1, Unconcerned DEF Inv, RequestInv, Stays, SameBody
  <1> QED BY <1>1, <1>2, <1>5, <1>6 DEF Inv

(* Every step is one of these                                                *)
LEMMA Steps ==
  ASSUME Inv, [Next]_vars
  PROVE  /\ deployment' = deployment
         /\ \/ UNCHANGED vars
            \/ \E r \in Served : Begins(r)
            \/ \E r \in Request : GoesOn(r) \/ GivesUp(r) \/ WritesPassword(r) \/ Commits(r)
            \/ Beside
  BY DEF Next, Step, Proceed, Begins, GoesOn, GivesUp, WritesPassword, Commits, Beside, vars

LEMMA NextInv == Inv /\ [Next]_vars => Inv'
  <1> SUFFICES ASSUME Inv, [Next]_vars PROVE Inv'
    OBVIOUS
  <1>1. CASE UNCHANGED vars
    <2>1. VarType'
      BY <1>1 DEF vars, users, Inv, VarType
    <2>2. ASSUME NEW q \in Request PROVE RequestInv(q)'
      BY <1>1, Unconcerned DEF vars, Inv, RequestInv, Stays, SameBody
    <2> QED BY <2>1, <2>2 DEF Inv
  <1> QED BY <1>1, Steps, BeginInv, GoOnInv, EndInv, BesideInv

-----------------------------------------------------------------------------
(* The admins                                                                *)

(* A request whose count a step leaves true: in one process nobody else      *)
(* changes an account, in several nobody else takes the role of one whose    *)
(* row it holds                                                              *)
LEMMA CountUnconcerned ==
  ASSUME Inv, NEW q \in Request, CountHolds(q), deployment' = deployment, Stays(q),
         \A a \in Account : rows[a] = q => rows'[a] = q,
         Looked(q) /\ Serialised(deployment) =>
            \A a \in Account : role[a] # None => role'[a] = role[a],
         \A a \in Account : rows[a] = q /\ role[a] = "admin" => role'[a] = "admin"
  PROVE  CountHolds(q)'
  <1>1. /\ Looked(q)' = Looked(q) /\ pc'[q] = pc[q] /\ sees'[q] = sees[q] /\ Postgres' = Postgres
        /\ Serialised(deployment)' = Serialised(deployment)
    BY DeploymentStays DEF Stays, Looked
  <1>2. CASE ~Looked(q)
    BY <1>1, <1>2 DEF CountHolds, Looked
  <1>3. CASE Looked(q)
    <2>1. body[q] \in BodyRow
      BY <1>3 DEF Inv, RequestInv, Looked
    <2>2. body'[q].target = body[q].target /\ body[q].target \in Account
      BY <2>1, MarkedBody DEF Stays, BodyRow
    <2>3. pc'[q] = "checked" => Others(q)' # {}
      <3> SUFFICES ASSUME pc[q] = "checked" PROVE Others(q)' # {}
        BY <1>1
      <3>1. PICK a \in Account : /\ role[a] = "admin" /\ a # body[q].target
                                 /\ Postgres => rows[a] = q
        BY DEF CountHolds, Others, Admins
      <3>2. role'[a] = "admin"
        BY <1>3, <3>1, DeploymentFields DEF Inv, Role
      <3> QED BY <1>1, <2>2, <3>1, <3>2 DEF Others, Admins
    <2>4. Looked(q)' /\ sees'[q] # "admin" /\ Serialised(deployment)' =>
             role'[body'[q].target] \notin {None, "admin"}
      BY <1>1, <1>3, <2>2 DEF CountHolds
    <2> QED BY <2>3, <2>4 DEF CountHolds
  <1> QED BY <1>2, <1>3

(* A request that is not at a count                                          *)
LEMMA NoCount ==
  ASSUME NEW q \in Request, ~Looked(q)'
  PROVE  CountHolds(q)'
  BY DEF CountHolds, Looked

(* In one process, one request at a time is about to change an account       *)
LEMMA OneHolds ==
  ASSUME Inv, Serialised(deployment), NEW r \in Request, NEW q \in Request,
         Holding(r), Holding(q)
  PROVE  r = q
  <1>1. r \in Served /\ q \in Served /\ mutex[WorkerOf[r]] = r /\ mutex[WorkerOf[q]] = q
    BY DEF Inv, RequestInv, Holding, Looked
  <1>2. WorkerOf[r] = WorkerOf[q]
    BY <1>1 DEF Serialised, Served, WorkerOf
  <1> QED BY <1>1, <1>2

(* A step that writes no role                                                *)
LEMMA KeepAdmins ==
  ASSUME AdminInv, deployment' = deployment, role' = role, outside' = outside, late' = late,
         Admins # {} /\ (\A q \in Request : CountHolds(q)) => \A q \in Request : CountHolds(q)'
  PROVE  AdminInv'
  <1>1. Admins' = Admins /\ Unseen' = Unseen
    BY DeploymentStays DEF Admins, Unseen
  <1> QED BY <1>1 DEF AdminInv

(* A request begins, goes on, or ends without writing a role                 *)
LEMMA BeginAdmin ==
  ASSUME Inv, AdminInv, deployment' = deployment, NEW r \in Served, Begins(r)
  PROVE  AdminInv'
  <1>1. r \in Request
    BY DeploymentFields DEF Inv
  <1>2. UNCHANGED <<role, outside, late, rows>>
    BY BeginInv DEF users
  <1>3. ASSUME \A q \in Request : CountHolds(q), NEW q \in Request PROVE CountHolds(q)'
    BY <1>2, <1>3, BeginInv, CountUnconcerned, NoCount
  <1> QED BY <1>2, <1>3, KeepAdmins

LEMMA GoOnAdmin ==
  ASSUME Inv, AdminInv, deployment' = deployment, NEW r \in Request, GoesOn(r)
  PROVE  AdminInv'
  <1>1. UNCHANGED <<role, outside, late, body>>
    BY GoOnInv DEF users
  <1>2. ASSUME \A q \in Request : CountHolds(q), NEW q \in Request PROVE CountHolds(q)'
    <2>1. CASE q # r
      BY <1>1, <1>2, <2>1, GoOnInv, CountUnconcerned
    <2>2. CASE q = r
      <3>1. Postgres' = Postgres /\ Serialised(deployment)' = Serialised(deployment)
        BY DeploymentStays
      <3>2. CASE Acquire(r)
        <4>1. ~Looked(r)'
          BY <3>2 DEF Acquire, Looked, Inv, VarType
        <4> QED BY <2>2, <4>1, NoCount
      <3>3. CASE Load(r)
        <4>1. pc'[r] = "loaded" /\ sees'[r] = RoleRead(body[r]) /\ sees'[r] # None
          BY <3>3 DEF Inv, VarType, Load
        <4> QED BY <1>1, <2>2, <4>1 DEF CountHolds, RoleRead
      <3>4. CASE StartScan(r) \/ LockRow(r)
        <4>1. pc'[r] = "scanning" /\ sees'[r] = sees[r] /\ Looked(r)
          BY <3>4 DEF StartScan, LockRow, Looked, Inv, VarType
        <4> QED BY <1>1, <1>2, <2>2, <3>1, <4>1 DEF CountHolds
      <3>5. CASE Count(r)
        <4>1. pc'[r] = "checked" /\ sees'[r] = sees[r] /\ Looked(r) /\ Others(r) # {} /\ rows' = rows
          BY <3>5 DEF Count, Counts, Looked, Inv, VarType
        <4>2. Others(r)' = Others(r)
          BY <1>1, <3>1, <4>1 DEF Others, Admins
        <4> QED BY <1>1, <1>2, <2>2, <3>1, <4>1, <4>2 DEF CountHolds
      <3> QED BY <3>2, <3>3, <3>4, <3>5 DEF GoesOn
    <2> QED BY <2>1, <2>2
  <1> QED BY <1>1, <1>2, KeepAdmins

LEMMA EndAdmin ==
  ASSUME Inv, AdminInv, deployment' = deployment, NEW r \in Request,
         GivesUp(r) \/ WritesPassword(r)
  PROVE  AdminInv'
  <1>1. UNCHANGED <<role, outside, late>>
    BY DEF GivesUp, NotFound, Deadlock, LastAdmin, RefusePassword, CommitFails, NoEffect, users,
           WritesPassword, CreateSession, CommitOwn
  <1>2. Leaves(r)
    BY EndInv
  <1>3. ASSUME \A q \in Request : CountHolds(q), NEW q \in Request PROVE CountHolds(q)'
    <2>1. CASE q # r
      BY <1>1, <1>2, <1>3, <2>1, LeavesOthers, CountUnconcerned
    <2>2. CASE q = r
      BY <1>2, <2>2, LeavesOthers, NoCount DEF Looked
    <2> QED BY <2>1, <2>2
  <1> QED BY <1>1, <1>3, KeepAdmins

(* What a commit does to the admins: one that counted takes away at most its *)
(* target; any other takes away nobody, or one that it had read as none      *)
LEMMA CommitTakes ==
  ASSUME Inv, NEW r \in Request, CountHolds(r), Commits(r), deployment' = deployment
  PROVE  /\ Admins \ {body[r].target} \subseteq Admins'
         /\ pc[r] = "checked" \/ Admins \subseteq Admins' \/ Unseen'
  <1>1. Admins \ {body[r].target} \subseteq Admins'
    BY CommitWrites DEF Admins, Inv, VarType
  <1>2. CASE CreateUser(r)
    <2>1. role' = role \/ role[body[r].target] # "admin"
      BY <1>2, DeploymentFields DEF CreateUser, Free, Inv, Role
    <2> QED BY <1>1, <2>1 DEF Admins
  <1>3. CASE (CommitUpdate(r) \/ CommitDelete(r)) /\ pc[r] # "checked"
    <2>1. pc[r] = "loaded" /\ ~Demotes(r) /\ Looked(r)
      BY <1>3 DEF CommitUpdate, CommitDelete, Checked, Looked
    <2>2. CASE sees[r] = "admin"
      <3>1. CommitUpdate(r) /\ body[r].role \in {None, "admin"}
        BY <1>3, <2>1, <2>2 DEF Demotes, CommitDelete
      <3>2. role' = role
        BY <2>2, <3>1 DEF CommitUpdate, UpdateRole
      <3> QED BY <3>2 DEF Admins
    <2>3. CASE sees[r] # "admin" /\ role[body[r].target] # "admin"
      BY <1>1, <2>3 DEF Admins
    <2>4. CASE sees[r] # "admin" /\ role[body[r].target] = "admin"
      <3>1. ~Serialised(deployment)
        BY <2>1, <2>4 DEF CountHolds
      <3>2. role' = role \/ late' \/ role'[body[r].target] = "admin"
        BY <1>3, <2>4, CommitWrites DEF CommitUpdate, CommitDelete, UpdateRole, WriteRole, Inv, VarType
      <3> QED BY <1>1, <3>1, <3>2, DeploymentStays, CommitWrites DEF Admins, Unseen
    <2> QED BY <2>2, <2>3, <2>4
  <1> QED BY <1>1, <1>2, <1>3 DEF Commits

(* A request commits                                                         *)
LEMMA CommitAdmin ==
  ASSUME Inv, AdminInv, deployment' = deployment, NEW r \in Request, Commits(r)
  PROVE  AdminInv'
  <1>1. outside' = outside /\ Leaves(r)
    BY CommitWrites
  <1>2. Unseen => Unseen'
    BY DeploymentStays DEF Commits, CommitUpdate, CommitDelete, CreateUser, UpdateRole, WriteRole, Unseen
  <1> SUFFICES ASSUME ~outside', ~Unseen' PROVE Admins' # {} /\ \A q \in Request : CountHolds(q)'
    BY DEF AdminInv
  <1>3. Admins # {} /\ \A q \in Request : CountHolds(q)
    BY <1>1, <1>2 DEF AdminInv
  <1>4. Admins \ {body[r].target} \subseteq Admins' /\ (pc[r] = "checked" \/ Admins \subseteq Admins')
    BY <1>3, CommitTakes
  <1>5. Admins' # {}
    BY <1>3, <1>4 DEF CountHolds, Others
  <1>6. CountHolds(r)'
    BY <1>1, LeavesOthers, NoCount DEF Looked
  <1>7. ASSUME NEW q \in Request, q # r PROVE CountHolds(q)'
    <2>1. Stays(q) /\ \A a \in Account : rows[a] = q => rows'[a] = q
      BY <1>1, <1>7, LeavesOthers
    <2>2. \A a \in Account : rows[a] = q /\ role[a] = "admin" => role'[a] = "admin"
      <3>1. CASE CreateUser(r)
        <4>1. role' = role \/ role[body[r].target] # "admin"
          BY <3>1, DeploymentFields DEF CreateUser, Free, Inv, Role
        <4> QED BY <1>4, <4>1, CommitWrites DEF Inv, VarType
      <3>2. CASE rows[body[r].target] \in {None, r}
        <4>1. q # None
          BY DeploymentFields DEF Inv
        <4> QED BY <1>7, <3>2, <4>1, CommitWrites DEF Inv, VarType
      <3> QED BY <3>1, <3>2, CommitWrites
    <2>3. Looked(q) /\ Serialised(deployment) =>
             \A a \in Account : role[a] # None => role'[a] = role[a]
      <3> SUFFICES ASSUME Looked(q), Serialised(deployment)
                   PROVE  \A a \in Account : role[a] # None => role'[a] = role[a]
        OBVIOUS
      <3>1. ~Holding(r)
        BY <1>7, OneHolds DEF Holding
      <3>2. CreateUser(r)
        BY <3>1 DEF Holding, Looked, Commits, CommitUpdate, CommitDelete, Checked
      <3> QED BY <3>2 DEF CreateUser, Free, Inv, VarType
    <2> QED BY <1>3, <2>1, <2>2, <2>3, CountUnconcerned
  <1> QED BY <1>5, <1>6, <1>7

(* Every step                                                                *)
LEMMA NextAdmin == Inv /\ AdminInv /\ [Next]_vars => AdminInv'
  <1> SUFFICES ASSUME Inv, AdminInv, [Next]_vars PROVE AdminInv'
    OBVIOUS
  <1>1. ASSUME UNCHANGED <<deployment, role, outside, late, rows, pc, body, sees>> PROVE AdminInv'
    <2>1. ASSUME NEW q \in Request, CountHolds(q) PROVE CountHolds(q)'
      BY <1>1, <2>1, CountUnconcerned DEF Stays, SameBody
    <2> QED BY <1>1, <2>1, KeepAdmins
  <1>2. CASE UNCHANGED vars
    BY <1>1, <1>2 DEF vars, users
  <1>3. CASE Beside
    BY <1>1, <1>3, Steps, BesideInv DEF AdminInv
  <1> QED BY <1>2, <1>3, Steps, BeginAdmin, GoOnAdmin, EndAdmin, CommitAdmin

-----------------------------------------------------------------------------
(* Sessions, resets and deletions                                            *)

(* A session comes from a login only, which knows whether it was overtaken   *)
LEMMA NextSession == Inv /\ OldPasswordOnlyByRace /\ [Next]_vars => OldPasswordOnlyByRace'
  <1> SUFFICES ASSUME Inv, OldPasswordOnlyByRace, [Next]_vars PROVE OldPasswordOnlyByRace'
    OBVIOUS
  <1>1. ASSUME sessions' \subseteq sessions PROVE OldPasswordOnlyByRace'
    BY <1>1 DEF OldPasswordOnlyByRace
  <1>2. ASSUME NEW r \in Request, WritesPassword(r) PROVE OldPasswordOnlyByRace'
    <2> DEFINE new == [user |-> body[r].target, void |-> body[r].void, raced |-> body[r].void]
    <2>1. sessions' \subseteq sessions \cup {new}
      BY <1>2 DEF WritesPassword, CreateSession, CommitOwn, WriteOwnPassword
    <2>2. new.void => new.raced
      OBVIOUS
    <2> QED BY <2>1, <2>2 DEF OldPasswordOnlyByRace
  <1>3. ASSUME NEW r \in Request, GoesOn(r) \/ GivesUp(r) PROVE sessions' = sessions
    BY <1>3 DEF GoesOn, Acquire, Load, StartScan, LockRow, Count,
                GivesUp, NotFound, Deadlock, LastAdmin, RefusePassword, CommitFails, NoEffect, users
  <1>4. ASSUME NEW r \in Served, Begins(r) PROVE sessions' = sessions
    BY <1>4, Steps, BeginInv DEF users
  <1>5. CASE UNCHANGED vars
    BY <1>1, <1>5 DEF vars, users
  <1> QED BY <1>1, <1>2, <1>3, <1>4, <1>5, Steps, CommitWrites, BesideInv

-----------------------------------------------------------------------------
(* How it begins                                                             *)
LEMMA InitInv == Init => Inv /\ AdminInv /\ OldPasswordOnlyByRace
  <1> SUFFICES ASSUME Init PROVE Inv /\ AdminInv /\ OldPasswordOnlyByRace
    OBVIOUS
  <1>1. VarType
    <2>1. FirstRoles \subseteq Role
      BY DeploymentsAreTyped DEF Init, FirstRoles
    <2> QED BY <2>1 DEF Init, VarType
  <1>2. \A r \in Request : RequestInv(r) /\ CountHolds(r)
    BY DEF Init, RequestInv, Holding, Looked, CountHolds
  <1>3. Admins # {}
    BY DEF Init, Admins
  <1>4. OldPasswordOnlyByRace
    BY DEF Init, OldPasswordOnlyByRace
  <1> QED BY <1>1, <1>2, <1>3, <1>4 DEF Inv, AdminInv

(* However admins demote and delete each other at the same time, one is left *)
(* (README.md:143, users.py:64), in every deployment; with several processes *)
(* until a request takes the role of an admin it had read as none.           *)
THEOREM AnAdminRemains == Spec => []AdminRemains
  <1>1. Init => Inv /\ AdminInv
    BY InitInv
  <1>2. Inv /\ AdminInv /\ [Next]_vars => (Inv /\ AdminInv)'
    BY NextInv, NextAdmin
  <1>3. AdminInv => AdminRemains
    BY DEF AdminInv, AdminRemains, Unseen
  <1> QED BY <1>1, <1>2, <1>3, PTL DEF Spec

(* A session of a password reset since, or of an account deleted since,      *)
(* belongs to a login that the reset or the deletion overtook                *)
(* (users.py:116, 138); in every deployment.                                 *)
THEOREM OldPasswordsOnlyByRace == Spec => []OldPasswordOnlyByRace
  <1>1. Init => Inv /\ OldPasswordOnlyByRace
    BY InitInv
  <1>2. Inv /\ OldPasswordOnlyByRace /\ [Next]_vars => (Inv /\ OldPasswordOnlyByRace)'
    BY NextInv, NextSession
  <1> QED BY <1>1, <1>2, PTL DEF Spec

-----------------------------------------------------------------------------
(* The login limiter                                                       *)

Record == [failures : Seq(Nat), until : Nat]

LimiterType ==
  /\ now \in 0 .. MaxNow /\ lastPrune \in 0 .. now
  /\ buckets \in [Key -> Record \cup {Absent}]
  /\ pending \in [Login -> [ip : Ip, user : User] \cup {Absent}]
  /\ guesses \in [Key -> Seq(Nat)]

(* No guess is in the future                                               *)
PastInv == \A k \in Key : \A j \in DOMAIN guesses[k] : guesses[k][j] <= now

(* The failures of a bucket are the last wrong guesses of its key          *)
LastGuesses(h, b) ==
  /\ Len(b.failures) <= Len(h)
  /\ \A j \in 1 .. Len(b.failures) : b.failures[j] = h[Len(h) - Len(b.failures) + j]
FailuresInv == \A k \in Key : buckets[k] # Absent => LastGuesses(guesses[k], buckets[k])

(* What is in the map survived the last prune, or came after it            *)
Recent(k, b) ==
  \/ \E j \in DOMAIN guesses[k] : guesses[k][j] > lastPrune - Window
  \/ b.until > lastPrune
RecentInv == \A k \in Key : buckets[k] # Absent => Recent(k, buckets[k])

(* The guesses that are not in the bucket any more are as old as a lockout *)
(* or as the lock they led to                                              *)
Forgotten(h, b) ==
  \A j \in 1 .. Len(h) - Len(b.failures) : h[j] <= now - Lockout \/ h[j] <= b.until - Lockout

InFlight(i) == {r \in Login : pending[r] # Absent /\ pending[r].ip = i}

(* A locked address admits nobody: what is in flight is what can still     *)
(* fail, and the failures it had when it was locked were less than Burst   *)
Counted(i, b) ==
  /\ Len(b.failures) < Burst
  /\ b.until > now =>
       /\ Len(b.failures) + Cardinality(InFlight(i)) < Cardinality(Login)
       /\ Cardinality(GuessesAfter(i, now - Lockout)) + Cardinality(InFlight(i))
            < Burst + Cardinality(Login)

BucketOf(k) == IF buckets[k] = Absent THEN Empty ELSE buckets[k]
CountInv == Window >= Lockout => \A i \in Ip : Forgotten(guesses[i], BucketOf(i)) /\ Counted(i, BucketOf(i))

MapInv == LimiterType /\ PastInv /\ FailuresInv /\ RecentInv
LimiterInv == MapInv /\ CountInv

-----------------------------------------------------------------------------
(* A nonempty set of natural numbers has a least one                       *)
LEMMA LeastExists ==
  ASSUME NEW S \in SUBSET Nat, S # {}
  PROVE  Min(S) \in S /\ \A m \in S : Min(S) <= m
  <1> DEFINE R == {ss \in Nat \X Nat : ss[1] < ss[2]}
  <1>1. IsWellFoundedOn(R, Nat)
    BY NatLessThanWellFounded, Zenon DEF OpToRel
  <1>2. \E x \in S : \A y \in S : ~(<<y, x>> \in R)
    <2> HIDE DEF R
    <2> QED BY <1>1, WFMin
  <1>3. \E x \in S : \A y \in S : x <= y
    <2>1. ASSUME NEW x \in S, NEW y \in S, <<y, x>> \notin R  PROVE x <= y
      <3>1. <<y, x>> \in Nat \X Nat /\ x \in Nat /\ y \in Nat
        OBVIOUS
      <3>2. ~(y < x)
        BY <2>1, <3>1, Zenon
      <3> QED BY <3>1, <3>2
    <2> QED BY <1>2, <2>1
  <1> QED BY <1>3 DEF Min

(* A key has no bucket, or one that is a record                            *)
LEMMA Buckets ==
  ASSUME LimiterType
  PROVE  /\ \A k \in Key : buckets[k] # Absent => buckets[k] \in Record
         /\ \A b \in Record : b # Absent
         /\ now \in Nat /\ lastPrune \in Nat /\ Window \in Nat /\ Lockout \in Nat
  BY LimiterIsClamped DEF LimiterType, Record

(* _bucket drops failures from the left, and only those that left the      *)
(* window                                                                  *)
Dropped(f, g) ==
  /\ Len(g) <= Len(f)
  /\ \A j \in 1 .. Len(g) : g[j] = f[Len(f) - Len(g) + j]
  /\ \A j \in 1 .. Len(f) - Len(g) : f[j] <= now - Window

LEMMA KeptFailures ==
  ASSUME now \in Nat, NEW f \in Seq(Nat)
  PROVE  /\ Kept(f) \in Seq(Nat)
         /\ Dropped(f, Kept(f))
         /\ Kept(f) # <<>> => Kept(f)[1] > now - Window
  <1> DEFINE m == Min(Within(f))
  <1>0. Window \in Nat /\ \A j \in 1 .. Len(f) : f[j] \in Nat
    BY LimiterIsClamped
  <1>1. CASE Within(f) = {}
    <2>1. Kept(f) = <<>>
      BY <1>1 DEF Kept
    <2>2. \A j \in 1 .. Len(f) : f[j] <= now - Window
      BY <1>0, <1>1 DEF Within
    <2> QED BY <2>1, <2>2 DEF Dropped
  <1>2. CASE Within(f) # {}
    <2>1. Within(f) \in SUBSET Nat /\ Within(f) \subseteq 1 .. Len(f)
      BY DEF Within
    <2>2. m \in Within(f) /\ \A j \in Within(f) : m <= j
      BY <1>2, <2>1, LeastExists
    <2>3. m \in 1 .. Len(f) /\ f[m] > now - Window
      BY <2>1, <2>2 DEF Within
    <2>4. Kept(f) = SubSeq(f, m, Len(f))
      BY <1>2 DEF Kept
    <2>5. \A j \in 1 .. m - 1 : f[j] <= now - Window
      <3> TAKE j \in 1 .. m - 1
      <3>1. j \notin Within(f) /\ j \in DOMAIN f
        BY <2>1, <2>2, <2>3
      <3> QED BY <1>0, <2>3, <3>1 DEF Within
    <2> HIDE DEF m
    <2>6. \A j \in m .. Len(f) : f[j] \in Nat
      BY <2>3
    <2>7. /\ Kept(f) \in Seq(Nat)
          /\ Len(Kept(f)) = Len(f) - m + 1
          /\ \A j \in 1 .. Len(f) - m + 1 : Kept(f)[j] = f[m + j - 1]
      BY <2>3, <2>4, <2>6, SubSeqProperties
    <2>8. Kept(f)[1] = f[m]
      BY <2>3, <2>7
    <2>9. Dropped(f, Kept(f))
      <3>1. \A j \in 1 .. Len(Kept(f)) : Len(f) - Len(Kept(f)) + j = m + j - 1
        BY <2>3, <2>7
      <3>2. Len(f) - Len(Kept(f)) = m - 1
        BY <2>3, <2>7
      <3> QED BY <2>3, <2>5, <2>7, <3>1, <3>2 DEF Dropped
    <2> QED BY <2>3, <2>7, <2>8, <2>9
  <1> QED BY <1>1, <1>2

LEMMA ExpireKeeps ==
  ASSUME now \in Nat, NEW b \in Record
  PROVE  /\ Expire(b) \in Record /\ Expire(b).until = b.until
         /\ Dropped(b.failures, Expire(b).failures)
         /\ Expire(b).failures # <<>> => Expire(b).failures[1] > now - Window
  <1>1. b.failures \in Seq(Nat) /\ b.until \in Nat
    BY DEF Record
  <1>2. Expire(b) = [failures |-> Kept(b.failures), until |-> b.until]
    BY DEF Expire, Record
  <1>3. Kept(b.failures) \in Seq(Nat)
    BY <1>1, KeptFailures
  <1> QED BY <1>1, <1>2, <1>3, KeptFailures DEF Record

(* ... so that what is left are still the last guesses of the key          *)
LEMMA DroppedKeeps ==
  ASSUME MapInv, NEW k \in Key, NEW b \in Record, NEW d \in Record, d.until = b.until,
         Dropped(b.failures, d.failures), LastGuesses(guesses[k], b)
  PROVE  /\ LastGuesses(guesses[k], d)
         /\ Window >= Lockout /\ Forgotten(guesses[k], b) => Forgotten(guesses[k], d)
  <1> DEFINE f == b.failures
             g == d.failures
             h == guesses[k]
  <1>1. /\ f \in Seq(Nat) /\ g \in Seq(Nat) /\ h \in Seq(Nat) /\ b.until \in Nat
        /\ now \in Nat /\ Window \in Nat /\ Lockout \in Nat
    BY Buckets DEF MapInv, LimiterType, Record
  <1>2. /\ Len(g) <= Len(f) /\ Len(f) <= Len(h)
        /\ \A j \in 1 .. Len(g) : g[j] = f[Len(f) - Len(g) + j]
        /\ \A j \in 1 .. Len(f) - Len(g) : f[j] <= now - Window
        /\ \A j \in 1 .. Len(f) : f[j] = h[Len(h) - Len(f) + j]
    BY DEF Dropped, LastGuesses
  <1> HIDE DEF f, g, h
  <1>3. \A j \in 1 .. Len(g) : g[j] = h[Len(h) - Len(g) + j]
    <2> TAKE j \in 1 .. Len(g)
    <2>1. Len(f) - Len(g) + j \in 1 .. Len(f)
      BY <1>1, <1>2
    <2>2. g[j] = h[Len(h) - Len(f) + (Len(f) - Len(g) + j)]
      BY <1>2, <2>1
    <2>3. Len(h) - Len(f) + (Len(f) - Len(g) + j) = Len(h) - Len(g) + j
      BY <1>1, <1>2
    <2> QED BY <2>2, <2>3
  <1>4. ASSUME Window >= Lockout, Forgotten(guesses[k], b)  PROVE Forgotten(guesses[k], d)
    <2> SUFFICES ASSUME NEW j \in 1 .. Len(h) - Len(g)
                 PROVE  h[j] <= now - Lockout \/ h[j] <= d.until - Lockout
      BY DEF Forgotten, g, h
    <2>1. CASE j <= Len(h) - Len(f)
      <3>1. j \in 1 .. Len(h) - Len(f)
        BY <1>1, <2>1
      <3> QED BY <1>4, <3>1 DEF Forgotten, f, h
    <2>2. CASE j > Len(h) - Len(f)
      <3> DEFINE i == j - (Len(h) - Len(f))
      <3>1. i \in 1 .. Len(f) - Len(g) /\ i \in 1 .. Len(f) /\ Len(h) - Len(f) + i = j /\ j \in 1 .. Len(h)
        BY <1>1, <1>2, <2>2
      <3> HIDE DEF i
      <3>2. h[j] <= now - Window
        BY <1>2, <3>1
      <3>3. \A n \in 1 .. Len(h) : h[n] \in Nat
        BY <1>1
      <3>4. h[j] \in Nat
        BY <3>1, <3>3
      <3> QED BY <1>1, <1>4, <3>2, <3>4
    <2> QED BY <1>1, <2>1, <2>2
  <1>5. LastGuesses(guesses[k], d) <=>
          Len(g) <= Len(h) /\ \A j \in 1 .. Len(g) : g[j] = h[Len(h) - Len(g) + j]
    BY DEF LastGuesses, g, h
  <1>6. Len(g) <= Len(h)
    BY <1>1, <1>2
  <1> QED BY <1>3, <1>4, <1>5, <1>6

LEMMA BucketKeeps ==
  ASSUME MapInv, NEW bs, NEW k \in Key, bs[k] \in Record \cup {Absent},
         bs[k] # Absent => LastGuesses(guesses[k], bs[k])
  PROVE  /\ Bucket(bs, k) \in Record
         /\ LastGuesses(guesses[k], Bucket(bs, k))
         /\ bs[k] # Absent =>
               /\ Bucket(bs, k).until = bs[k].until
               /\ Len(Bucket(bs, k).failures) <= Len(bs[k].failures)
               /\ Bucket(bs, k).failures # <<>> => Bucket(bs, k).failures[1] > now - Window
               /\ Window >= Lockout /\ Forgotten(guesses[k], bs[k]) => Forgotten(guesses[k], Bucket(bs, k))
         /\ bs[k] = Absent => Bucket(bs, k) = Empty
  <1> USE DEF MapInv
  <1>1. CASE bs[k] = Absent
    <2>1. guesses[k] \in Seq(Nat)
      BY DEF LimiterType
    <2> QED BY <1>1, <2>1 DEF Bucket, Empty, Record, LastGuesses
  <1>2. CASE bs[k] # Absent
    <2>1. bs[k] \in Record /\ now \in Nat
      BY <1>2, Buckets
    <2>2. Bucket(bs, k) = Expire(bs[k])
      BY <1>2 DEF Bucket
    <2>3. LastGuesses(guesses[k], bs[k])
      BY <1>2
    <2>4. /\ Bucket(bs, k) \in Record /\ Bucket(bs, k).until = bs[k].until
          /\ Dropped(bs[k].failures, Bucket(bs, k).failures)
          /\ Bucket(bs, k).failures # <<>> => Bucket(bs, k).failures[1] > now - Window
      BY <2>1, <2>2, ExpireKeeps
    <2>5. Len(Bucket(bs, k).failures) <= Len(bs[k].failures)
      BY <2>4 DEF Dropped
    <2> QED BY <1>2, <2>1, <2>3, <2>4, <2>5, DroppedKeeps
  <1> QED BY <1>1, <1>2

(* record_failure appends now, or locks and forgets; it never unlocks      *)
LEMMA FailAppends ==
  ASSUME now \in Nat, NEW b \in Record
  PROVE  /\ Fail(b) \in Record
         /\ \/ /\ Len(b.failures) + 1 >= MaxAttempts /\ b.until <= now
               /\ Fail(b).failures = <<>> /\ Fail(b).until = now + Lockout
            \/ /\ ~(Len(b.failures) + 1 >= MaxAttempts /\ b.until <= now)
               /\ Fail(b).failures = Append(b.failures, now) /\ Fail(b).until = b.until
  <1> DEFINE f == Append(b.failures, now)
  <1>1. b.failures \in Seq(Nat) /\ f \in Seq(Nat) /\ Len(f) = Len(b.failures) + 1
    BY DEF Record
  <1>2. now + Lockout \in Nat
    BY LimiterIsClamped
  <1> HIDE DEF f
  <1>3. [b EXCEPT !.failures = f] = [failures |-> f, until |-> b.until]
    BY DEF Record
  <1>4. CASE Len(f) >= MaxAttempts /\ b.until <= now
    <2>1. Fail(b) = [failures |-> <<>>, until |-> now + Lockout]
      BY <1>4 DEF Fail, f
    <2> QED BY <1>1, <1>2, <1>4, <2>1 DEF Record
  <1>5. CASE ~(Len(f) >= MaxAttempts /\ b.until <= now)
    <2>1. Fail(b) = [failures |-> f, until |-> b.until]
      BY <1>3, <1>5 DEF Fail, f
    <2>2. b.until \in Nat
      BY DEF Record
    <2> QED BY <1>1, <1>5, <2>1, <2>2 DEF Record, f
  <1> QED BY <1>4, <1>5

(* ... and the new guess is the last one of the key, or forgotten          *)
LEMMA FailKeeps ==
  ASSUME MapInv, NEW k \in Key, NEW b \in Record, LastGuesses(guesses[k], b)
  PROVE  /\ LastGuesses(Append(guesses[k], now), Fail(b))
         /\ Forgotten(guesses[k], b) => Forgotten(Append(guesses[k], now), Fail(b))
  <1> DEFINE f == b.failures
             g == Fail(b).failures
             h == guesses[k]
             u == Fail(b).until
  <1>1. /\ f \in Seq(Nat) /\ h \in Seq(Nat) /\ b.until \in Nat
        /\ now \in Nat /\ Lockout \in Nat
    BY Buckets DEF MapInv, LimiterType, Record
  <1>2. /\ Len(f) <= Len(h)
        /\ \A j \in 1 .. Len(f) : f[j] = h[Len(h) - Len(f) + j]
        /\ \A j \in 1 .. Len(h) : h[j] <= now /\ h[j] \in Nat
    <2>1. DOMAIN h = 1 .. Len(h)
      BY <1>1
    <2>2. \A j \in DOMAIN h : h[j] <= now
      BY DEF MapInv, PastInv
    <2>3. Len(f) <= Len(h) /\ \A j \in 1 .. Len(f) : f[j] = h[Len(h) - Len(f) + j]
      BY DEF LastGuesses
    <2>4. \A j \in 1 .. Len(h) : h[j] \in Nat
      BY <1>1
    <2> HIDE DEF f, h
    <2>5. \A j \in 1 .. Len(h) : h[j] <= now
      BY <2>1, <2>2
    <2> QED BY <2>3, <2>4, <2>5
  <1>3. \/ g = <<>> /\ u = now + Lockout
        \/ g = Append(f, now) /\ u = b.until
    BY <1>1, FailAppends
  <1> HIDE DEF f, g, h, u
  <1>4. /\ Len(Append(h, now)) = Len(h) + 1 /\ Append(h, now)[Len(h) + 1] = now
        /\ \A j \in 1 .. Len(h) : Append(h, now)[j] = h[j]
    BY <1>1
  <1>5. CASE g = <<>> /\ u = now + Lockout
    <2>1. \A j \in 1 .. Len(h) + 1 : Append(h, now)[j] <= u - Lockout
      BY <1>1, <1>2, <1>4, <1>5
    <2>2. LastGuesses(Append(h, now), Fail(b))
      BY <1>1, <1>4, <1>5 DEF LastGuesses, g
    <2>3. Forgotten(Append(h, now), Fail(b))
      BY <1>1, <1>4, <1>5, <2>1 DEF Forgotten, g, u
    <2> QED BY <2>2, <2>3 DEF h
  <1>6. CASE g = Append(f, now) /\ u = b.until
    <2>1. /\ Len(g) = Len(f) + 1 /\ g[Len(f) + 1] = now
          /\ \A j \in 1 .. Len(f) : g[j] = f[j]
      BY <1>1, <1>6
    <2>2. \A j \in 1 .. Len(g) : g[j] = Append(h, now)[Len(Append(h, now)) - Len(g) + j]
      <3> TAKE j \in 1 .. Len(g)
      <3>1. CASE j = Len(f) + 1
        BY <1>1, <1>4, <2>1, <3>1
      <3>2. CASE j # Len(f) + 1
        <4>1. j \in 1 .. Len(f) /\ Len(h) - Len(f) + j \in 1 .. Len(h)
              /\ Len(Append(h, now)) - Len(g) + j = Len(h) - Len(f) + j
          BY <1>1, <1>2, <1>4, <2>1, <3>2
        <4> QED BY <1>2, <1>4, <2>1, <4>1
      <3> QED BY <3>1, <3>2
    <2>3. LastGuesses(Append(h, now), Fail(b))
      <3>1. Len(g) <= Len(Append(h, now))
        BY <1>1, <1>2, <1>4, <2>1
      <3>2. LastGuesses(Append(h, now), Fail(b)) <=>
              /\ Len(g) <= Len(Append(h, now))
              /\ \A j \in 1 .. Len(g) : g[j] = Append(h, now)[Len(Append(h, now)) - Len(g) + j]
        BY DEF LastGuesses, g
      <3> QED BY <2>2, <3>1, <3>2
    <2>4. ASSUME Forgotten(guesses[k], b)  PROVE Forgotten(Append(h, now), Fail(b))
      <3>1. Len(Append(h, now)) - Len(g) = Len(h) - Len(f) /\ Len(h) - Len(f) <= Len(h)
        BY <1>1, <1>4, <2>1
      <3>2. \A j \in 1 .. Len(h) - Len(f) : Append(h, now)[j] = h[j]
        BY <1>1, <1>2, <1>4
      <3>3. \A j \in 1 .. Len(h) - Len(f) : h[j] <= now - Lockout \/ h[j] <= b.until - Lockout
        BY <2>4 DEF Forgotten, f, h
      <3> QED BY <1>6, <3>1, <3>2, <3>3 DEF Forgotten, g, u
    <2> QED BY <2>3, <2>4 DEF h
  <1> QED BY <1>3, <1>5, <1>6

-----------------------------------------------------------------------------
(* The map of buckets                                                      *)

LEMMA LimiterInitInv == LimiterInit => LimiterInv
  <1> SUFFICES ASSUME LimiterInit PROVE LimiterInv
    OBVIOUS
  <1>1. LimiterType
    BY LimiterIsClamped DEF LimiterInit, LimiterType
  <1>2. PastInv /\ FailuresInv /\ RecentInv
    BY DEF LimiterInit, PastInv, FailuresInv, RecentInv
  <1>3. \A i \in Ip : BucketOf(i) = Empty /\ guesses[i] = <<>> /\ pending = [r \in Login |-> Absent]
    BY DEF LimiterInit, BucketOf, Key
  <1>4. Cardinality(Login) \in Nat /\ MaxAttempts \in Nat \ {0} /\ now = 0
    BY FS_CardinalityType, LimiterIsClamped DEF LimiterInit
  <1>5. CountInv
    <2> SUFFICES ASSUME NEW i \in Ip
                 PROVE  Forgotten(guesses[i], BucketOf(i)) /\ Counted(i, BucketOf(i))
      BY DEF CountInv
    <2>0. BucketOf(i).failures = <<>> /\ guesses[i] = <<>> /\ Len(<<>>) - Len(<<>>) = 0
      BY <1>3 DEF Empty
    <2>1. Forgotten(guesses[i], BucketOf(i))
      BY <2>0 DEF Forgotten
    <2>2. Counted(i, BucketOf(i))
      BY <1>3, <1>4 DEF Counted, Empty, Burst
    <2> QED BY <2>1, <2>2
  <1> QED BY <1>1, <1>2, <1>5 DEF LimiterInv, MapInv

(* What a failed login counts, and what record_failure leaves              *)
Due == now - lastPrune >= Window
KeptBuckets == IF Due THEN Pruned(buckets) ELSE buckets
Hit(r) == {pending[r].ip, pending[r].user}

(* A bucket that lost failures or, when it was not locked, its lock        *)
Shrunk(k, d) ==
  /\ d \in Record /\ LastGuesses(guesses[k], d)
  /\ Len(d.failures) <= Len(BucketOf(k).failures)
  /\ \/ d.until = BucketOf(k).until
     \/ d.until = 0 /\ BucketOf(k).until <= now
  /\ Window >= Lockout /\ Forgotten(guesses[k], BucketOf(k)) => Forgotten(guesses[k], d)

LEMMA EmptyShrunk ==
  ASSUME MapInv, NEW k \in Key
  PROVE  /\ BucketOf(k) \in Record /\ LastGuesses(guesses[k], BucketOf(k))
         /\ Empty \in Record /\ Len(Empty.failures) = 0 /\ Empty.until = 0
         /\ LastGuesses(guesses[k], Empty)
  <1>1. guesses[k] \in Seq(Nat)
    BY DEF MapInv, LimiterType
  <1>2. Empty \in Record /\ Len(Empty.failures) = 0 /\ Empty.until = 0 /\ LastGuesses(guesses[k], Empty)
    BY <1>1 DEF Empty, Record, LastGuesses
  <1> QED BY <1>2, Buckets DEF MapInv, FailuresInv, BucketOf

(* A prune keeps a bucket with a failure in the window, or locked          *)
LEMMA PruneKeeps ==
  ASSUME MapInv, NEW k \in Key
  PROVE  /\ KeptBuckets[k] \in Record \cup {Absent}
         /\ Shrunk(k, IF KeptBuckets[k] = Absent THEN Empty ELSE KeptBuckets[k])
         /\ KeptBuckets[k] # Absent =>
              /\ buckets[k] # Absent /\ KeptBuckets[k].until = buckets[k].until
              /\ \/ \E j \in DOMAIN guesses[k] :
                       guesses[k][j] > (IF Due THEN now ELSE lastPrune) - Window
                 \/ KeptBuckets[k].until > (IF Due THEN now ELSE lastPrune)
         /\ buckets[k] # Absent /\ buckets[k].until > now => KeptBuckets[k] # Absent
  <1> USE DEF MapInv
  <1>0. /\ BucketOf(k) \in Record /\ LastGuesses(guesses[k], BucketOf(k))
        /\ Empty \in Record /\ Empty # Absent /\ Len(Empty.failures) = 0 /\ Empty.until = 0
        /\ now \in Nat /\ BucketOf(k).until \in Nat
        /\ guesses[k] \in Seq(Nat) /\ BucketOf(k).failures \in Seq(Nat)
        /\ LastGuesses(guesses[k], Empty)
    BY EmptyShrunk, Buckets DEF LimiterType, Record
  <1> DEFINE h == guesses[k]
  <1> HIDE DEF MapInv
  <1>1. CASE buckets[k] = Absent
    <2>1. KeptBuckets[k] = Absent /\ BucketOf(k) = Empty
      BY <1>1 DEF KeptBuckets, Pruned, BucketOf
    <2> QED BY <1>0, <1>1, <2>1 DEF Shrunk
  <1>2. CASE buckets[k] # Absent /\ ~Due
    <2>1. KeptBuckets[k] = buckets[k] /\ BucketOf(k) = buckets[k] /\ buckets[k] \in Record
      BY <1>2, Buckets DEF MapInv, KeptBuckets, BucketOf
    <2> QED BY <1>0, <1>2, <2>1 DEF MapInv, Shrunk, RecentInv, Recent
  <1>3. CASE buckets[k] # Absent /\ Due
    <2> DEFINE b == Bucket(buckets, k)
    <2>1. KeptBuckets[k] = (IF Idle(b) THEN Absent ELSE b) /\ BucketOf(k) = buckets[k]
      BY <1>3 DEF KeptBuckets, Pruned, BucketOf
    <2>2. /\ b \in Record /\ LastGuesses(guesses[k], b) /\ b # Absent
          /\ b.until = buckets[k].until
          /\ Len(b.failures) <= Len(buckets[k].failures)
          /\ b.failures # <<>> => b.failures[1] > now - Window
          /\ Window >= Lockout /\ Forgotten(guesses[k], buckets[k]) => Forgotten(guesses[k], b)
      BY <1>3, BucketKeeps, Buckets DEF MapInv, FailuresInv, LimiterType
    <2> HIDE DEF b, h
    <2>3. /\ b.until \in Nat /\ b.failures \in Seq(Nat) /\ Lockout \in Nat
          /\ h \in Seq(Nat) /\ Len(h) \in Nat /\ DOMAIN h = 1 .. Len(h)
      BY <1>0, <2>2, Buckets DEF MapInv, Record, h
    <2>4. ASSUME b.failures # <<>>
          PROVE  \E j \in DOMAIN guesses[k] : guesses[k][j] > now - Window
      <3>1. Len(b.failures) \in Nat /\ 1 \in 1 .. Len(b.failures) /\ Len(b.failures) <= Len(h)
        BY <2>2, <2>3, <2>4 DEF LastGuesses, h
      <3>2. b.failures[1] = h[Len(h) - Len(b.failures) + 1]
        BY <2>2, <3>1 DEF LastGuesses, h
      <3>3. Len(h) - Len(b.failures) + 1 \in DOMAIN h
        BY <2>3, <3>1
      <3> QED BY <2>2, <2>4, <3>2, <3>3 DEF h
    <2>5. CASE Idle(b)
      <3>1. b.failures = <<>> /\ b.until <= now
        BY <2>5 DEF Idle
      <3>2. ASSUME Window >= Lockout, Forgotten(guesses[k], buckets[k])  PROVE Forgotten(guesses[k], Empty)
        <4>1. Len(b.failures) = 0 /\ Len(h) - Len(b.failures) = Len(h)
          BY <2>3, <3>1
        <4>2. \A j \in 1 .. Len(h) : h[j] <= now - Lockout \/ h[j] <= b.until - Lockout
          BY <2>2, <3>2, <4>1 DEF Forgotten, h
        <4>3. \A j \in 1 .. Len(h) : h[j] \in Nat
          BY <2>3
        <4>4. \A j \in 1 .. Len(h) : h[j] <= now - Lockout
          BY <1>0, <2>3, <3>1, <4>2, <4>3
        <4>5. Len(h) - Len(Empty.failures) = Len(h)
          BY <1>0, <2>3
        <4> QED BY <4>4, <4>5 DEF Forgotten, h
      <3> QED BY <1>0, <2>1, <2>2, <2>5, <3>1, <3>2 DEF Shrunk
    <2>6. CASE ~Idle(b)
      <3>1. b.failures # <<>> \/ b.until > now
        BY <1>0, <2>3, <2>6 DEF Idle
      <3> QED BY <1>3, <2>1, <2>2, <2>4, <2>6, <3>1 DEF Shrunk
    <2> QED BY <2>5, <2>6
  <1> QED BY <1>1, <1>2, <1>3

(* A failed login adds a guess and a bucket to its two keys                *)
LEMMA FailedEffect ==
  ASSUME MapInv, NEW r \in Login, Failed(r), NEW k \in Key
  PROVE  /\ now' = now /\ lastPrune' = IF Due THEN now ELSE lastPrune
         /\ k \in Hit(r) =>
              /\ guesses'[k] = Append(guesses[k], now)
              /\ buckets'[k] = Fail(Bucket(KeptBuckets, k))
              /\ buckets'[k] \in Record /\ LastGuesses(guesses'[k], buckets'[k])
         /\ k \notin Hit(r) => buckets'[k] = KeptBuckets[k] /\ guesses'[k] = guesses[k]
         /\ Shrunk(k, Bucket(KeptBuckets, k))
         /\ buckets[k] # Absent /\ buckets[k].until > now =>
              buckets'[k] # Absent /\ buckets'[k].until = buckets[k].until
  <1> DEFINE b == Bucket(KeptBuckets, k)
  <1>1. /\ now' = now /\ lastPrune' = IF Due THEN now ELSE lastPrune
        /\ buckets'[k] = IF k \in Hit(r) THEN Fail(b) ELSE KeptBuckets[k]
        /\ guesses'[k] = IF k \in Hit(r) THEN Append(guesses[k], now) ELSE guesses[k]
    BY DEF Failed, Due, KeptBuckets, Hit
  <1>2. /\ now \in Nat /\ Empty \in Record
        /\ KeptBuckets[k] \in Record \cup {Absent}
        /\ Shrunk(k, IF KeptBuckets[k] = Absent THEN Empty ELSE KeptBuckets[k])
    BY Buckets, EmptyShrunk, PruneKeeps DEF MapInv
  <1>3. KeptBuckets[k] # Absent => LastGuesses(guesses[k], KeptBuckets[k])
    BY <1>2 DEF Shrunk
  <1>4. /\ b \in Record /\ LastGuesses(guesses[k], b)
        /\ KeptBuckets[k] # Absent =>
              /\ b.until = KeptBuckets[k].until
              /\ Len(b.failures) <= Len(KeptBuckets[k].failures)
              /\ Window >= Lockout /\ Forgotten(guesses[k], KeptBuckets[k]) => Forgotten(guesses[k], b)
        /\ KeptBuckets[k] = Absent => b = Empty
    BY <1>2, <1>3, BucketKeeps
  <1> HIDE DEF b
  <1>5. Shrunk(k, b)
    <2>1. CASE KeptBuckets[k] = Absent
      BY <1>2, <1>4, <2>1
    <2>2. CASE KeptBuckets[k] # Absent
      <3>1. /\ Len(b.failures) \in Nat /\ Len(KeptBuckets[k].failures) \in Nat
            /\ Len(BucketOf(k).failures) \in Nat
        BY <1>2, <1>4, <2>2, EmptyShrunk DEF Record
      <3>2. Len(b.failures) <= Len(BucketOf(k).failures)
        BY <1>2, <1>4, <2>2, <3>1 DEF Shrunk
      <3> QED BY <1>2, <1>4, <2>2, <3>2 DEF Shrunk
    <2> QED BY <2>1, <2>2
  <1>6. CASE k \in Hit(r)
    <2>1. buckets'[k] = Fail(b) /\ guesses'[k] = Append(guesses[k], now)
      BY <1>1, <1>6
    <2>2. LastGuesses(Append(guesses[k], now), Fail(b))
      BY <1>1, <1>4, <2>1, FailKeeps
    <2>3. Fail(b) \in Record /\ (b.until > now => Fail(b).until = b.until)
      <3>1. b.until \in Nat
        BY <1>4 DEF Record
      <3> QED BY <1>2, <1>4, <3>1, FailAppends
    <2>4. buckets[k] # Absent /\ buckets[k].until > now => b.until = buckets[k].until
      BY <1>4, PruneKeeps
    <2>5. LastGuesses(guesses'[k], buckets'[k])
      BY <2>1, <2>2
    <2> QED BY <1>1, <1>5, <1>6, <2>1, <2>3, <2>4, <2>5, Buckets DEF b, MapInv
  <1>7. CASE k \notin Hit(r)
    BY <1>1, <1>5, <1>7, PruneKeeps DEF b
  <1> QED BY <1>6, <1>7

LEMMA MapStep == MapInv /\ [LimiterNext]_limiterVars => MapInv'
  <1> SUFFICES ASSUME MapInv, [LimiterNext]_limiterVars PROVE MapInv'
    OBVIOUS
  <1>0. /\ now \in 0 .. MaxNow /\ now \in Nat /\ MaxNow \in Nat /\ lastPrune \in 0 .. now
        /\ Window \in Nat \ {0}
        /\ \A k \in Key : guesses[k] \in Seq(Nat)
    BY LimiterIsClamped DEF MapInv, LimiterType
  <1>1. CASE UNCHANGED limiterVars
    BY <1>1 DEF limiterVars, MapInv, LimiterType, PastInv, FailuresInv, RecentInv, Recent
  <1>2. CASE Tick
    <2>1. LimiterType'
      BY <1>0, <1>2 DEF Tick, MapInv, LimiterType
    <2>2. now' = now + 1 /\ UNCHANGED <<buckets, lastPrune, guesses>>
      BY <1>2 DEF Tick
    <2>3. PastInv'
      BY <1>0, <2>2 DEF MapInv, PastInv
    <2>4. FailuresInv' /\ RecentInv'
      BY <2>2 DEF MapInv, FailuresInv, RecentInv, Recent
    <2> QED BY <2>1, <2>3, <2>4 DEF MapInv
  <1>3. ASSUME NEW r \in Login, NEW i \in Ip, NEW u \in User, Admit(r, i, u)
        PROVE  MapInv'
    BY <1>3 DEF Admit, MapInv, LimiterType, PastInv, FailuresInv, RecentInv, Recent
  <1>4. ASSUME NEW r \in Login, Succeeded(r)
        PROVE  MapInv'
    <2>1. /\ pending' = [pending EXCEPT ![r] = Absent]
          /\ buckets' = [buckets EXCEPT ![pending[r].user] = Absent]
          /\ UNCHANGED <<now, lastPrune, guesses>>
      BY <1>4 DEF Succeeded
    <2>2. \A k \in Key : buckets'[k] \in {buckets[k], Absent}
      BY <2>1 DEF MapInv, LimiterType
    <2>3. LimiterType'
      BY <2>1, <2>2 DEF MapInv, LimiterType
    <2> QED BY <2>1, <2>2, <2>3 DEF MapInv, PastInv, FailuresInv, RecentInv, Recent
  <1>5. ASSUME NEW r \in Login, Failed(r)
        PROVE  MapInv'
    <2>1. /\ now' = now /\ lastPrune' = IF Due THEN now ELSE lastPrune
          /\ pending' = [pending EXCEPT ![r] = Absent]
          /\ DOMAIN buckets' = Key /\ DOMAIN guesses' = Key
          /\ buckets' = [k \in Key |-> buckets'[k]] /\ guesses' = [k \in Key |-> guesses'[k]]
      BY <1>5 DEF Failed, Due
    <2>2. \A k \in Key :
            /\ guesses'[k] \in Seq(Nat)
            /\ \A j \in DOMAIN guesses'[k] : guesses'[k][j] <= now
      <3> TAKE k \in Key
      <3>1. guesses'[k] = Append(guesses[k], now) \/ guesses'[k] = guesses[k]
        BY <1>5, FailedEffect
      <3>2. \A j \in DOMAIN guesses[k] : guesses[k][j] <= now
        BY DEF MapInv, PastInv
      <3>3. CASE guesses'[k] = Append(guesses[k], now)
        <4>1. /\ guesses'[k] \in Seq(Nat) /\ DOMAIN guesses'[k] = 1 .. Len(guesses[k]) + 1
              /\ DOMAIN guesses[k] = 1 .. Len(guesses[k]) /\ Len(guesses[k]) \in Nat
              /\ guesses'[k][Len(guesses[k]) + 1] = now
              /\ \A j \in 1 .. Len(guesses[k]) : guesses'[k][j] = guesses[k][j]
          BY <1>0, <3>3
        <4>2. \A j \in 1 .. Len(guesses[k]) + 1 : j \in 1 .. Len(guesses[k]) \/ j = Len(guesses[k]) + 1
          BY <4>1
        <4> QED BY <1>0, <3>2, <4>1, <4>2
      <3> QED BY <1>0, <3>1, <3>2, <3>3
    <2>3. LimiterType'
      <3>1. \A k \in Key : buckets'[k] \in Record \cup {Absent}
        BY <1>5, FailedEffect, PruneKeeps
      <3>2. pending' \in [Login -> [ip : Ip, user : User] \cup {Absent}]
        BY <2>1 DEF MapInv, LimiterType
      <3>3. now' \in 0 .. MaxNow /\ lastPrune' \in 0 .. now'
        BY <1>0, <2>1
      <3> QED BY <2>1, <2>2, <3>1, <3>2, <3>3 DEF LimiterType
    <2>4. FailuresInv'
      <3> SUFFICES ASSUME NEW k \in Key, buckets'[k] # Absent
                   PROVE  LastGuesses(guesses'[k], buckets'[k])
        BY DEF FailuresInv
      <3>1. CASE k \in Hit(r)
        BY <1>5, <3>1, FailedEffect
      <3>2. CASE k \notin Hit(r)
        BY <1>5, <3>2, FailedEffect, PruneKeeps DEF Shrunk
      <3> QED BY <3>1, <3>2
    <2>5. RecentInv'
      <3> SUFFICES ASSUME NEW k \in Key, buckets'[k] # Absent
                   PROVE  \/ \E j \in DOMAIN guesses'[k] : guesses'[k][j] > lastPrune' - Window
                          \/ buckets'[k].until > lastPrune'
        BY DEF RecentInv, Recent
      <3>1. CASE k \in Hit(r)
        <4> DEFINE n == Len(guesses[k]) + 1
        <4>1. guesses'[k] = Append(guesses[k], now) /\ guesses[k] \in Seq(Nat)
          BY <1>0, <1>5, <3>1, FailedEffect
        <4>2. n \in DOMAIN guesses'[k] /\ guesses'[k][n] = now
          BY <1>0, <4>1
        <4>3. now > lastPrune' - Window
          BY <1>0, <2>1
        <4> QED BY <4>2, <4>3
      <3>2. CASE k \notin Hit(r)
        <4>1. buckets'[k] = KeptBuckets[k] /\ guesses'[k] = guesses[k]
          BY <1>5, <3>2, FailedEffect
        <4> QED BY <2>1, <4>1, PruneKeeps
      <3> QED BY <3>1, <3>2
    <2> QED BY <2>1, <2>2, <2>3, <2>4, <2>5 DEF MapInv, PastInv
  <1> QED BY <1>1, <1>2, <1>3, <1>4, <1>5 DEF LimiterNext

-----------------------------------------------------------------------------
(* The guesses of an address                                               *)

(* Of an address that is not locked, the recent guesses are in its bucket  *)
LEMMA RecentAreKept ==
  ASSUME MapInv, NEW i \in Ip, NEW b \in Record, b.until <= now,
         LastGuesses(guesses[i], b), Forgotten(guesses[i], b)
  PROVE  Cardinality(GuessesAfter(i, now - Lockout)) <= Len(b.failures)
  <1> DEFINE h == guesses[i]
             f == b.failures
             from == Len(h) - Len(f) + 1
  <1>1. /\ h \in Seq(Nat) /\ DOMAIN h = 1 .. Len(h) /\ Len(h) \in Nat /\ Len(f) \in Nat
        /\ Len(f) <= Len(h) /\ now \in Nat /\ Lockout \in Nat /\ b.until \in Nat
        /\ \A j \in 1 .. Len(h) : h[j] \in Nat
    BY Buckets DEF MapInv, LimiterType, Record, Key, LastGuesses
  <1>2. \A j \in 1 .. Len(h) - Len(f) : h[j] <= now - Lockout \/ h[j] <= b.until - Lockout
    BY DEF Forgotten
  <1>3. GuessesAfter(i, now - Lockout) = {j \in DOMAIN h : h[j] > now - Lockout}
    BY DEF GuessesAfter
  <1> HIDE DEF h, f
  <1>4. {j \in DOMAIN h : h[j] > now - Lockout} \subseteq from .. Len(h)
    <2> SUFFICES ASSUME NEW j \in 1 .. Len(h), h[j] > now - Lockout
                 PROVE  j >= from
      BY <1>1
    <2>1. ~(h[j] <= now - Lockout) /\ ~(h[j] <= b.until - Lockout)
      BY <1>1
    <2>2. j \notin 1 .. Len(h) - Len(f)
      BY <1>2, <2>1
    <2> QED BY <1>1, <2>2
  <1>5. IsFiniteSet(from .. Len(h)) /\ Cardinality(from .. Len(h)) = Len(f)
    <2>1. from \in Int /\ Len(h) \in Int
      BY <1>1
    <2>2. /\ IsFiniteSet(from .. Len(h))
          /\ Cardinality(from .. Len(h)) = IF from > Len(h) THEN 0 ELSE Len(h) - from + 1
      BY <2>1, FS_Interval
    <2> QED BY <1>1, <2>2
  <1>6. Cardinality(GuessesAfter(i, now - Lockout)) <= Cardinality(from .. Len(h))
    BY <1>3, <1>4, <1>5, FS_Subset
  <1> QED BY <1>5, <1>6 DEF f

(* ... and a failed login adds one                                         *)
LEMMA FiniteGuesses ==
  ASSUME MapInv, NEW i \in Ip, NEW from
  PROVE  IsFiniteSet(GuessesAfter(i, from)) /\ Cardinality(GuessesAfter(i, from)) \in Nat
  <1>1. guesses[i] \in Seq(Nat)
    BY DEF MapInv, LimiterType, Key
  <1>2. GuessesAfter(i, from) \subseteq 1 .. Len(guesses[i]) /\ Len(guesses[i]) \in Int /\ 1 \in Int
    BY <1>1 DEF GuessesAfter
  <1>3. IsFiniteSet(1 .. Len(guesses[i]))
    BY <1>2, FS_Interval
  <1> QED BY <1>2, <1>3, FS_Subset, FS_CardinalityType

LEMMA InFlightCount ==
  ASSUME NEW i
  PROVE  /\ IsFiniteSet(InFlight(i)) /\ Cardinality(InFlight(i)) \in Nat
         /\ Cardinality(Login) \in Nat /\ Cardinality(InFlight(i)) <= Cardinality(Login)
         /\ Burst \in Nat /\ Burst >= MaxAttempts /\ Burst >= Cardinality(Login)
         /\ Login # {} => Cardinality(Login) >= 1
  <1>1. InFlight(i) \in SUBSET Login /\ IsFiniteSet(Login)
    BY LimiterIsClamped DEF InFlight
  <1>2. /\ IsFiniteSet(InFlight(i)) /\ Cardinality(InFlight(i)) \in Nat
        /\ Cardinality(Login) \in Nat /\ Cardinality(InFlight(i)) <= Cardinality(Login)
    BY <1>1, FS_Subset, FS_CardinalityType
  <1>3. Login # {} => Cardinality(Login) # 0
    BY <1>1, FS_EmptySet
  <1> QED BY <1>2, <1>3, LimiterIsClamped DEF Burst

(* Who is admitted has no locked key                                       *)
LEMMA AdmittedIsUnlocked ==
  ASSUME MapInv, NEW k \in Key, NEW u \in Key, RetryAfter({k, u}) = 0
  PROVE  buckets[k] # Absent => buckets[k].until <= now
  <1> DEFINE W(j) == IF buckets[j] # Absent THEN buckets[j].until - now ELSE 0
             waits == {buckets[x].until - now : x \in {j \in {k, u} : buckets[j] # Absent}} \cup {0}
  <1>1. /\ now \in Nat /\ W(k) \in Int /\ W(u) \in Int /\ Second \in Nat \ {0}
        /\ buckets[k] # Absent => buckets[k].until \in Nat
    BY Buckets, LimiterIsClamped DEF MapInv, Record
  <1>2. waits = {W(k), W(u), 0}
    BY Zenon
  <1>3. Wait({k, u}) = CHOOSE w \in waits : \A v \in waits : v <= w
    BY DEF Wait
  <1> HIDE DEF waits
  <1>4. ASSUME NEW a \in Int, NEW b \in Int, waits = {a, b, 0}
        PROVE  \E w \in waits : \A v \in waits : v <= w
    <2>1. CASE a <= 0 /\ b <= 0
      BY <1>4, <2>1
    <2>2. CASE a > 0 /\ b <= a
      BY <1>4, <2>2
    <2>3. CASE b > 0 /\ a <= b
      BY <1>4, <2>3
    <2> QED BY <2>1, <2>2, <2>3
  <1>5. Wait({k, u}) \in waits /\ \A v \in waits : v <= Wait({k, u})
    BY <1>1, <1>2, <1>3, <1>4
  <1>6. Wait({k, u}) \in Int /\ W(k) <= Wait({k, u})
    BY <1>1, <1>2, <1>5
  <1>7. Wait({k, u}) <= 0
    <2> SUFFICES ASSUME Wait({k, u}) > 0 PROVE FALSE
      BY <1>6
    <2>1. RetryAfter({k, u}) = Wait({k, u}) \div Second + 1
      BY <1>6 DEF RetryAfter, Seconds
    <2>2. Wait({k, u}) \div Second >= 0 /\ Wait({k, u}) \div Second \in Int
      BY <1>1, <1>6
    <2> QED BY <2>1, <2>2
  <1> QED BY <1>1, <1>6, <1>7

(* A failed login counts for its address, which has one less in flight     *)
LEMMA CountFailed ==
  ASSUME LimiterInv, Window >= Lockout, NEW r \in Login, Failed(r), NEW i \in Ip
  PROVE  /\ Forgotten(guesses[i], BucketOf(i))'
         /\ Counted(i, BucketOf(i))'
  <1> DEFINE B == BucketOf(i)
             b == Bucket(KeptBuckets, i)
             C == GuessesAfter(i, now - Lockout)
             N == Cardinality(Login)
  <1>0. /\ i \in Key /\ now \in Nat /\ Lockout \in Nat /\ MaxAttempts \in Nat
        /\ guesses[i] \in Seq(Nat) /\ MapInv /\ B \in Record /\ b \in Record
        /\ Forgotten(guesses[i], B) /\ Counted(i, B) /\ LastGuesses(guesses[i], B)
    BY Buckets, EmptyShrunk, FailedEffect, LimiterIsClamped
    DEF LimiterInv, MapInv, LimiterType, CountInv, Key, Shrunk
  <1>1. /\ Shrunk(i, b) /\ now' = now
        /\ pending' = [pending EXCEPT ![r] = Absent] /\ pending[r] # Absent
    BY <1>0, FailedEffect DEF Failed
  <1>2. /\ IsFiniteSet(C) /\ Cardinality(C) \in Nat
        /\ IsFiniteSet(InFlight(i)) /\ Cardinality(InFlight(i)) \in Nat /\ N \in Nat
        /\ Cardinality(InFlight(i)) <= N /\ Burst \in Nat /\ Burst >= MaxAttempts /\ Burst >= N
        /\ N >= 1
    BY <1>0, FiniteGuesses, InFlightCount
  <1>3. /\ Len(B.failures) \in Nat /\ B.until \in Nat /\ Len(b.failures) \in Nat /\ b.until \in Nat
        /\ b.failures \in Seq(Nat)
    BY <1>0 DEF Record
  <1>4. /\ Len(b.failures) <= Len(B.failures)
        /\ b.until = B.until \/ (b.until = 0 /\ B.until <= now)
        /\ Forgotten(guesses[i], b) /\ LastGuesses(guesses[i], b)
    BY <1>0, <1>1 DEF Shrunk
  <1>5. B.until <= now => Cardinality(C) <= Len(B.failures)
    BY <1>0, RecentAreKept
  <1>6. pending \in [Login -> [ip : Ip, user : User] \cup {Absent}]
    BY <1>0 DEF MapInv, LimiterType
  <1>7. CASE i \in Hit(r)
    <2>1. pending[r].ip = i
      BY <1>1, <1>6, <1>7, LimiterIsClamped DEF Hit
    <2>2. /\ guesses'[i] = Append(guesses[i], now) /\ buckets'[i] = Fail(b)
          /\ Fail(b) # Absent /\ Fail(b) \in Record
      BY <1>0, <1>3, <1>7, FailedEffect, Buckets DEF MapInv
    <2>3. BucketOf(i)' = Fail(b)
      BY <2>2 DEF BucketOf
    <2>4. Forgotten(Append(guesses[i], now), Fail(b))
      BY <1>0, <1>4, FailKeeps
    <2>5. Forgotten(guesses[i], BucketOf(i))'
      BY <1>1, <2>2, <2>3, <2>4 DEF Forgotten
    <2>6. InFlight(i)' = InFlight(i) \ {r} /\ r \in InFlight(i)
      BY <1>1, <1>6, <2>1 DEF InFlight
    <2>7. /\ Cardinality(InFlight(i)') = Cardinality(InFlight(i)) - 1
          /\ Cardinality(InFlight(i)) >= 1
      <3>1. Cardinality(InFlight(i)) # 0
        BY <1>2, <2>6, FS_EmptySet
      <3>2. Cardinality(InFlight(i) \ {r}) = Cardinality(InFlight(i)) - 1
        BY <1>2, <2>6, FS_RemoveElement
      <3> QED BY <1>2, <2>6, <3>1, <3>2
    <2>8. GuessesAfter(i, now - Lockout)' \subseteq C \cup {Len(guesses[i]) + 1}
      BY <1>0, <1>1, <2>2 DEF GuessesAfter
    <2>9. Cardinality(GuessesAfter(i, now - Lockout)') \in Nat /\ Cardinality(GuessesAfter(i, now - Lockout)') <= Cardinality(C) + 1
      <3>0. ASSUME NEW x
            PROVE  /\ IsFiniteSet(C \cup {x})
                   /\ Cardinality(C \cup {x}) <= Cardinality(C) + 1
                   /\ Cardinality(C \cup {x}) \in Nat
        <4> HIDE DEF C
        <4>1. /\ IsFiniteSet(C \cup {x})
              /\ Cardinality(C \cup {x}) = IF x \in C THEN Cardinality(C) ELSE Cardinality(C) + 1
          BY <1>2, FS_AddElement
        <4> QED BY <1>2, <4>1
      <3>1. /\ IsFiniteSet(C \cup {Len(guesses[i]) + 1})
            /\ Cardinality(C \cup {Len(guesses[i]) + 1}) <= Cardinality(C) + 1
            /\ Cardinality(C \cup {Len(guesses[i]) + 1}) \in Nat
        BY <3>0
      <3>2. /\ Cardinality(GuessesAfter(i, now - Lockout)') <= Cardinality(C \cup {Len(guesses[i]) + 1})
            /\ Cardinality(GuessesAfter(i, now - Lockout)') \in Nat
        BY <2>8, <3>1, FS_Subset, FS_CardinalityType
      <3> QED BY <1>2, <3>1, <3>2
    <2>10. \/ /\ Len(b.failures) + 1 >= MaxAttempts /\ b.until <= now
              /\ Len(Fail(b).failures) = 0 /\ Fail(b).until = now + Lockout
           \/ /\ ~(Len(b.failures) + 1 >= MaxAttempts /\ b.until <= now)
              /\ Len(Fail(b).failures) = Len(b.failures) + 1 /\ Fail(b).until = b.until
      BY <1>0, <1>3, FailAppends
    <2>11. /\ Len(B.failures) < Burst
           /\ B.until > now =>
                /\ Len(B.failures) + Cardinality(InFlight(i)) < N
                /\ Cardinality(C) + Cardinality(InFlight(i)) < Burst + N
      BY <1>0 DEF Counted
    <2> DEFINE n1 == Cardinality(InFlight(i))
               c1 == Cardinality(C)
               c2 == Cardinality(GuessesAfter(i, now - Lockout)')
               f1 == Len(B.failures)
               f2 == Len(b.failures)
               f3 == Len(Fail(b).failures)
               u3 == Fail(b).until
    <2>12. Counted(i, BucketOf(i))' <=>
             /\ f3 < Burst
             /\ u3 > now => f3 + (n1 - 1) < N /\ c2 + (n1 - 1) < Burst + N
      BY <1>1, <2>3, <2>7 DEF Counted, Burst
    <2> HIDE DEF n1, c1, c2, f1, f2, f3, u3, b, B, C, N
    <2>13. /\ n1 \in Nat \ {0} /\ c1 \in Nat /\ c2 \in Nat /\ f1 \in Nat /\ f2 \in Nat /\ n1 <= N
           /\ f2 <= f1 /\ c2 <= c1 + 1 /\ (B.until <= now => c1 <= f1) /\ f1 < Burst
           /\ B.until > now => f1 + n1 < N /\ c1 + n1 < Burst + N
      BY <1>2, <1>3, <1>4, <1>5, <2>7, <2>9, <2>11 DEF n1, c1, c2, f1, f2, f3, C, N
    <2>14. \/ f2 + 1 >= MaxAttempts /\ b.until <= now /\ f3 = 0 /\ u3 = now + Lockout
           \/ ~(f2 + 1 >= MaxAttempts /\ b.until <= now) /\ f3 = f2 + 1 /\ u3 = b.until
      BY <2>10 DEF f2, f3, u3
    <2>15. /\ f3 < Burst
           /\ u3 > now => f3 + (n1 - 1) < N /\ c2 + (n1 - 1) < Burst + N
      <3>1. CASE B.until > now
        BY <1>0, <1>2, <1>3, <1>4, <2>13, <2>14, <3>1
      <3>2. CASE ~(B.until > now)
        BY <1>0, <1>2, <1>3, <1>4, <2>13, <2>14, <3>2
      <3> QED BY <3>1, <3>2
    <2> QED BY <2>5, <2>12, <2>15
  <1>8. CASE i \notin Hit(r)
    <2> DEFINE K == IF KeptBuckets[i] = Absent THEN Empty ELSE KeptBuckets[i]
    <2>1. buckets'[i] = KeptBuckets[i] /\ guesses'[i] = guesses[i] /\ Shrunk(i, K)
      BY <1>0, <1>8, FailedEffect, PruneKeeps
    <2>2. BucketOf(i)' = K
      BY <2>1 DEF BucketOf
    <2> HIDE DEF K
    <2>3. /\ K \in Record /\ Len(K.failures) <= Len(B.failures)
          /\ K.until = B.until \/ (K.until = 0 /\ B.until <= now)
          /\ Forgotten(guesses[i], K)
      BY <1>0, <2>1 DEF Shrunk
    <2>4. Forgotten(guesses[i], BucketOf(i))'
      BY <1>1, <2>1, <2>2, <2>3 DEF Forgotten
    <2>5. InFlight(i)' = InFlight(i)
      BY <1>1, <1>6, <1>8 DEF InFlight, Hit
    <2>6. GuessesAfter(i, now - Lockout)' = C
      BY <1>1, <2>1 DEF GuessesAfter
    <2>7. Counted(i, BucketOf(i))' <=>
             /\ Len(K.failures) < Burst
             /\ K.until > now => /\ Len(K.failures) + Cardinality(InFlight(i)) < N
                                 /\ Cardinality(C) + Cardinality(InFlight(i)) < Burst + N
      BY <1>1, <2>2, <2>5, <2>6 DEF Counted, Burst
    <2>8. Len(K.failures) \in Nat /\ K.until \in Nat
      BY <2>3 DEF Record
    <2>9. /\ Len(B.failures) < Burst
          /\ B.until > now =>
                /\ Len(B.failures) + Cardinality(InFlight(i)) < N
                /\ Cardinality(C) + Cardinality(InFlight(i)) < Burst + N
      BY <1>0 DEF Counted
    <2> HIDE DEF B, C, N
    <2>10. K.until > now => B.until > now
      BY <1>0, <2>3, <2>8
    <2>11. /\ Len(K.failures) < Burst
           /\ K.until > now => /\ Len(K.failures) + Cardinality(InFlight(i)) < N
                               /\ Cardinality(C) + Cardinality(InFlight(i)) < Burst + N
      BY <1>0, <1>2, <1>3, <2>3, <2>8, <2>9, <2>10
    <2> QED BY <2>4, <2>7, <2>11
  <1> QED BY <1>7, <1>8

LEMMA CountStep == LimiterInv /\ [LimiterNext]_limiterVars => CountInv'
  <1> SUFFICES ASSUME LimiterInv, [LimiterNext]_limiterVars, Window >= Lockout, NEW i \in Ip
               PROVE  /\ Forgotten(guesses[i], BucketOf(i))'
                      /\ Counted(i, BucketOf(i))'
    BY DEF CountInv
  <1> DEFINE B == BucketOf(i)
             C == GuessesAfter(i, now - Lockout)
  <1>0. /\ i \in Key /\ i \notin User /\ now \in Nat /\ Lockout \in Nat /\ MapInv
        /\ guesses[i] \in Seq(Nat) /\ B \in Record /\ B.until \in Nat /\ Len(B.failures) \in Nat
        /\ Forgotten(guesses[i], B) /\ Counted(i, B)
        /\ pending \in [Login -> [ip : Ip, user : User] \cup {Absent}]
        /\ buckets \in [Key -> Record \cup {Absent}]
    <2>1. i \in Key /\ i \notin User /\ MapInv /\ now \in Nat /\ Lockout \in Nat
      BY Buckets, LimiterIsClamped DEF LimiterInv, MapInv, Key
    <2>2. /\ guesses[i] \in Seq(Nat)
          /\ pending \in [Login -> [ip : Ip, user : User] \cup {Absent}]
          /\ buckets \in [Key -> Record \cup {Absent}]
      BY <2>1 DEF MapInv, LimiterType
    <2>3. B \in Record
      BY <2>1, EmptyShrunk
    <2>4. B.until \in Nat /\ Len(B.failures) \in Nat
      BY <2>3 DEF Record
    <2>5. Forgotten(guesses[i], B) /\ Counted(i, B)
      BY DEF LimiterInv, CountInv
    <2> QED BY <2>1, <2>2, <2>3, <2>4, <2>5
  <1>1. /\ IsFiniteSet(C) /\ Cardinality(C) \in Nat
        /\ IsFiniteSet(InFlight(i)) /\ Cardinality(InFlight(i)) \in Nat
        /\ Cardinality(Login) \in Nat /\ Burst \in Nat
    BY <1>0, FiniteGuesses, InFlightCount
  <1>2. CASE UNCHANGED limiterVars
    BY <1>0, <1>2 DEF limiterVars, Forgotten, Counted, BucketOf, InFlight, GuessesAfter, Burst
  (* Less is recent, and fewer are locked                                  *)
  <1>3. CASE Tick
    <2>1. now' = now + 1 /\ UNCHANGED <<buckets, pending, guesses>>
      BY <1>3 DEF Tick
    <2>2. \A j \in 1 .. Len(guesses[i]) : guesses[i][j] \in Nat
      BY <1>0
    <2>3. Forgotten(guesses[i], BucketOf(i))'
      <3> SUFFICES ASSUME NEW j \in 1 .. Len(guesses'[i]) - Len(BucketOf(i)'.failures)
                   PROVE  \/ guesses'[i][j] <= now' - Lockout
                          \/ guesses'[i][j] <= BucketOf(i)'.until - Lockout
        BY DEF Forgotten
      <3>1. guesses'[i] = guesses[i] /\ BucketOf(i)' = B /\ now' = now + 1
        BY <2>1 DEF BucketOf
      <3>2. j \in 1 .. Len(guesses[i]) - Len(B.failures)
        BY <3>1
      <3>3. guesses[i][j] <= now - Lockout \/ guesses[i][j] <= B.until - Lockout
        BY <1>0, <3>2 DEF Forgotten
      <3>4. Len(guesses[i]) \in Nat
        BY <1>0
      <3> HIDE DEF B
      <3>5. guesses[i][j] \in Nat
        BY <1>0, <2>2, <3>2, <3>4
      <3> QED BY <1>0, <3>1, <3>3, <3>5
    <2>4. GuessesAfter(i, now - Lockout)' \subseteq C
      BY <1>0, <2>1, <2>2 DEF GuessesAfter
    <2>5. /\ Cardinality(GuessesAfter(i, now - Lockout)') <= Cardinality(C)
          /\ Cardinality(GuessesAfter(i, now - Lockout)') \in Nat
      BY <1>1, <2>4, FS_Subset, FS_CardinalityType
    <2>6. BucketOf(i)' = B /\ InFlight(i)' = InFlight(i)
      BY <2>1 DEF BucketOf, InFlight
    <2>7. Counted(i, BucketOf(i))' <=>
            /\ Len(B.failures) < Burst
            /\ B.until > now + 1 =>
                 /\ Len(B.failures) + Cardinality(InFlight(i)) < Cardinality(Login)
                 /\ Cardinality(GuessesAfter(i, now - Lockout)') + Cardinality(InFlight(i))
                      < Burst + Cardinality(Login)
      BY <2>1, <2>6 DEF Counted, Burst
    <2> HIDE DEF B, C
    <2>8. Counted(i, BucketOf(i))'
      BY <1>0, <1>1, <2>5, <2>7 DEF Counted, C
    <2> QED BY <2>3, <2>8
  (* Nobody is admitted from a locked address                              *)
  <1>4. ASSUME NEW r \in Login, NEW k \in Ip, NEW u \in User, Admit(r, k, u)
        PROVE  /\ Forgotten(guesses[i], BucketOf(i))'
               /\ Counted(i, BucketOf(i))'
    <2>1. /\ pending' = [pending EXCEPT ![r] = [ip |-> k, user |-> u]] /\ pending[r] = Absent
          /\ UNCHANGED <<now, buckets, guesses>> /\ RetryAfter({k, u}) = 0
      BY <1>4 DEF Admit
    <2>2. B.until > now => k # i
      <3>1. buckets[k] # Absent => buckets[k].until <= now
        BY <1>0, <2>1, AdmittedIsUnlocked DEF Key
      <3> QED BY <1>0, <3>1 DEF BucketOf, Empty
    <2>3. B.until > now => InFlight(i)' = InFlight(i)
      BY <1>0, <2>1, <2>2 DEF InFlight
    <2>4. /\ BucketOf(i)' = B /\ GuessesAfter(i, now - Lockout)' = C
          /\ now' = now /\ guesses' = guesses
      BY <2>1 DEF BucketOf, GuessesAfter
    <2> HIDE DEF B, C
    <2> QED BY <1>0, <2>3, <2>4 DEF Counted, Forgotten, Burst, C
  <1>5. ASSUME NEW r \in Login, Succeeded(r)
        PROVE  /\ Forgotten(guesses[i], BucketOf(i))'
               /\ Counted(i, BucketOf(i))'
    <2>1. /\ pending' = [pending EXCEPT ![r] = Absent] /\ pending[r] # Absent
          /\ buckets' = [buckets EXCEPT ![pending[r].user] = Absent]
          /\ UNCHANGED <<now, guesses>>
      BY <1>5 DEF Succeeded
    <2>2. pending[r].user # i
      BY <1>0, <2>1
    <2>3. /\ BucketOf(i)' = B /\ GuessesAfter(i, now - Lockout)' = C
          /\ now' = now /\ guesses' = guesses
      BY <1>0, <2>1, <2>2 DEF BucketOf, GuessesAfter
    <2>4. InFlight(i)' \subseteq InFlight(i)
      BY <1>0, <2>1 DEF InFlight
    <2>5. Cardinality(InFlight(i)') <= Cardinality(InFlight(i)) /\ Cardinality(InFlight(i)') \in Nat
      BY <1>1, <2>4, FS_Subset, FS_CardinalityType
    <2>6. Counted(i, BucketOf(i))' <=>
            /\ Len(B.failures) < Burst
            /\ B.until > now =>
                 /\ Len(B.failures) + Cardinality(InFlight(i)') < Cardinality(Login)
                 /\ Cardinality(C) + Cardinality(InFlight(i)') < Burst + Cardinality(Login)
      BY <2>3 DEF Counted, Burst
    <2>7. Forgotten(guesses[i], BucketOf(i))'
      BY <1>0, <2>3 DEF Forgotten
    <2> HIDE DEF B, C
    <2> QED BY <1>0, <1>1, <2>5, <2>6, <2>7 DEF Counted, C
  <1>6. ASSUME NEW r \in Login, Failed(r)
        PROVE  /\ Forgotten(guesses[i], BucketOf(i))'
               /\ Counted(i, BucketOf(i))'
    BY <1>6, CountFailed
  <1> QED BY <1>2, <1>3, <1>4, <1>5, <1>6 DEF LimiterNext

LEMMA LimiterStep == LimiterInv /\ [LimiterNext]_limiterVars => LimiterInv'
  BY MapStep, CountStep DEF LimiterInv

THEOREM LimiterInvariance == LimiterSpec => []LimiterInv
  BY LimiterInitInv, LimiterStep, PTL DEF LimiterSpec

-----------------------------------------------------------------------------
(* However requests overlap (auth.py:49-60 awaits between the check and    *)
(* record_failure), an address makes in a lockout period no more than the  *)
(* guesses that lock it and those in flight when it was locked.            *)
THEOREM GuessesAreBounded == LimiterSpec => []GuessesBounded
  <1>1. LimiterInv => GuessesBounded
    <2> SUFFICES ASSUME LimiterInv, Window >= Lockout, NEW i \in Ip
                 PROVE  Cardinality(GuessesAfter(i, now - Lockout)) <= Burst + Cardinality(Login) - 1
      BY DEF GuessesBounded
    <2> DEFINE b == BucketOf(i)
               c == Cardinality(GuessesAfter(i, now - Lockout))
               n == Cardinality(InFlight(i))
    <2>1. /\ MapInv /\ i \in Key /\ b \in Record /\ LastGuesses(guesses[i], b)
          /\ Forgotten(guesses[i], b) /\ Counted(i, b)
      BY EmptyShrunk DEF LimiterInv, CountInv, Key
    <2>2. now \in Nat /\ b.until \in Nat /\ Len(b.failures) \in Nat
      BY <2>1, Buckets DEF MapInv, Record
    <2>3. c \in Nat /\ n \in Nat /\ Cardinality(Login) \in Nat /\ Burst \in Nat
      BY <2>1, FiniteGuesses, InFlightCount
    <2>4. b.until <= now => c <= Len(b.failures)
      BY <2>1, RecentAreKept
    <2>5. Len(b.failures) < Burst /\ (b.until > now => c + n < Burst + Cardinality(Login))
      BY <2>1 DEF Counted
    <2> HIDE DEF b, c, n
    <2>6. c <= Burst + Cardinality(Login) - 1
      BY <2>2, <2>3, <2>4, <2>5
    <2> QED BY <2>6 DEF c
  <1> QED BY <1>1, LimiterInvariance, PTL

(* The lockout of an address is neither lifted nor shortened (ratelimit.py *)
(* :51-62): a prune drops only buckets whose lock is over, a success       *)
(* resets only the name, a failure locks only what is not locked.          *)
THEOREM LockoutsAreKept == LimiterSpec => IpLockKept
  <1>1. LimiterInv /\ [LimiterNext]_limiterVars =>
          [\A i \in Ip : buckets[i] # Absent /\ buckets[i].until > now =>
              buckets'[i] # Absent /\ buckets'[i].until >= buckets[i].until]_limiterVars
    <2> SUFFICES ASSUME LimiterInv, LimiterNext, NEW i \in Ip, buckets[i] # Absent, buckets[i].until > now
                 PROVE  buckets'[i] # Absent /\ buckets'[i].until >= buckets[i].until
      OBVIOUS
    <2>1. i \in Key /\ i \notin User /\ buckets[i].until \in Nat
      BY LimiterIsClamped, Buckets DEF LimiterInv, MapInv, Key, Record
    <2>2. CASE buckets' = buckets
      BY <2>1, <2>2
    <2>3. ASSUME NEW r \in Login, Failed(r)
          PROVE  buckets'[i] # Absent /\ buckets'[i].until >= buckets[i].until
      BY <2>1, <2>3, FailedEffect DEF LimiterInv
    <2>4. ASSUME NEW r \in Login, Succeeded(r)
          PROVE  buckets'[i] # Absent /\ buckets'[i].until >= buckets[i].until
      <3>1. pending[r].user # i
        BY <2>1, <2>4 DEF LimiterInv, MapInv, LimiterType, Succeeded
      <3>2. buckets'[i] = buckets[i]
        BY <2>1, <2>4, <3>1 DEF LimiterInv, MapInv, LimiterType, Succeeded
      <3> QED BY <2>1, <3>2
    <2> QED BY <2>2, <2>3, <2>4 DEF LimiterNext, Tick, Admit
  <1> QED BY <1>1, LimiterInvariance, PTL DEF LimiterSpec, IpLockKept

(* The map holds only what is recent (ratelimit.py:64-72): a bucket is     *)
(* there since a guess or a lock that the last prune could not drop.       *)
THEOREM MapStaysSmall == LimiterSpec => OnlyRecentBuckets
  <1> DEFINE Small == \A k \in Key : guesses' # guesses /\ buckets'[k] # Absent =>
                  \/ \E j \in DOMAIN guesses'[k] : guesses'[k][j] > now - 2 * Window
                  \/ buckets'[k].until > now - Window
  <1>1. LimiterInv /\ LimiterInv' /\ [LimiterNext]_limiterVars => [Small]_limiterVars
    <2> SUFFICES ASSUME LimiterInv, LimiterInv', LimiterNext, NEW k \in Key, guesses' # guesses, buckets'[k] # Absent
                 PROVE  \/ \E j \in DOMAIN guesses'[k] : guesses'[k][j] > now - 2 * Window
                        \/ buckets'[k].until > now - Window
      OBVIOUS
    <2>1. PICK r \in Login : Failed(r)
      BY DEF LimiterNext, Tick, Admit, Succeeded
    <2>2. now' = now /\ lastPrune' = IF Due THEN now ELSE lastPrune
      BY <2>1, FailedEffect DEF LimiterInv
    <2>3. now \in Nat /\ lastPrune \in Nat /\ Window \in Nat /\ lastPrune <= now
      BY LimiterIsClamped DEF LimiterInv, MapInv, LimiterType
    <2>4. now < lastPrune' + Window \/ lastPrune' = now
      BY <2>2, <2>3 DEF Due
    <2>5. lastPrune' - Window >= now - 2 * Window /\ lastPrune' >= now - Window
      BY <2>2, <2>3, <2>4
    <2>6. Recent(k, buckets[k])'
      BY DEF LimiterInv, MapInv, RecentInv
    <2>7. buckets'[k].until \in Nat
      BY Buckets DEF LimiterInv, MapInv, LimiterType, Record
    <2>8. \A j \in DOMAIN guesses'[k] : guesses'[k][j] \in Nat
      BY DEF LimiterInv, MapInv, LimiterType
    <2> QED BY <2>2, <2>3, <2>5, <2>6, <2>7, <2>8 DEF Recent
  <1> QED BY <1>1, LimiterInvariance, PTL DEF LimiterSpec, OnlyRecentBuckets

(* Retry-After is the next full second (ratelimit.py:47).                  *)
THEOREM RetryAfterIsEnough == LimiterSpec => []RetryAfterSuffices
  <1>1. LimiterInv => RetryAfterSuffices
    <2> SUFFICES ASSUME LimiterInv, NEW k \in Key, buckets[k] # Absent, buckets[k].until > now
                 PROVE  /\ now + Second * RetryAfter({k}) >= buckets[k].until
                        /\ now + Second * (RetryAfter({k}) - 1) <= buckets[k].until
      BY DEF RetryAfterSuffices
    <2> DEFINE w == buckets[k].until - now
    <2>1. /\ buckets[k].until \in Nat /\ now \in Nat /\ w \in Nat \ {0}
          /\ Second \in Nat \ {0}
      BY LimiterIsClamped, Buckets DEF LimiterInv, MapInv, Record
    <2>2. {buckets[j].until - now : j \in {i \in {k} : buckets[i] # Absent}} = {w}
      OBVIOUS
    <2> HIDE DEF w
    <2>3. Wait({k}) = w
      <3>1. Wait({k}) = CHOOSE v \in {w, 0} : \A x \in {w, 0} : x <= v
        BY <2>2 DEF Wait
      <3> QED BY <2>1, <3>1
    <2>4. RetryAfter({k}) = w \div Second + 1
      BY <2>1, <2>3 DEF RetryAfter, Seconds
    <2> DEFINE n == w \div Second
    <2>5. n \in Int /\ Second * n <= w /\ w < Second * (n + 1)
      BY <2>1
    <2> HIDE DEF n
    <2>6. /\ Second * (n + 1) \in Int /\ Second * n \in Int
          /\ RetryAfter({k}) = n + 1 /\ RetryAfter({k}) - 1 = n
      BY <2>1, <2>4, <2>5 DEF n
    <2> QED BY <2>1, <2>5, <2>6 DEF w
  <1> QED BY <1>1, LimiterInvariance, PTL
=============================================================================

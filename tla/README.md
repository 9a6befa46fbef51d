# PgControl, specified

PgControl is a self-hosted governance panel for PostgreSQL: a FastAPI server
(`src/src/pgcontrol`) with a metadata database of its own (SQLite or
PostgreSQL), pools of connections to the instances it governs, and a React
application (`src/frontend`). This directory holds TLA+ modules of the parts
whose correctness depends on the order of events, the configurations TLC checks
them with, and proofs checked by TLAPS. Paths below are relative to `src/`;
`api/x.py` and the like stand for `src/src/pgcontrol/api/x.py`.

To check a model: `tlc -config Accounts.cfg MCAccounts.tla`. To check the
proofs: `tlapm SignInProofs.tla`, and so on for each `...Proofs.tla`.

## 1. Inventory

The server is one asyncio event loop per process: code between two `await`s is
one step, and everything else interleaves. Requests share the objects of
`app.state` (pool manager, login limiter) and the metadata database; separate
processes (a second worker or replica, `pgcontrol create-user`) share only the
database. `security/ratelimit.py:3` says that PgControl runs as a single
process; nothing enforces it, and `_admin_change` takes row locks precisely for
several of them.

| Component | State | Operations | Interacts with | What is hard | What makes it correct |
|---|---|---|---|---|---|
| Connection pools (`pg/connection.py`, `main.py`) | pools per (profile, database), key locks, generation per profile | `get`, `drop`, `close_all`, restart | every request that reads or changes an instance | a probe of seconds inside `get`, edits and shutdown meanwhile | one opener per key, no pool lost, none of old settings cached, none left open |
| Connection profiles (`api/profiles.py`, `api/deps.py`, `db/session.py`) | profile rows, pool of metadata connections | create, update, delete, load for a request | pools, audit, metrics, Patroni credentials | the profile is read awaits before it is used | an edited profile is connected with its new settings; one instance does not stall another |
| Accounts (`api/users.py`, `cli.py`, `bootstrap.py`) | user rows, one asyncio lock | create, update, delete, own password, `create-user` | sessions, OIDC | two admins at once, in one process or several | an admin remains; a reset ends sessions |
| Sessions and sign-in (`security/auth.py`, `api/auth.py`, `security/oidc.py`) | session rows, cookies, OIDC state | login, logout, callback, authorise | accounts, limiter, identity provider | awaits between verifying and inserting | a session belongs to who proved it, and ends with the proof |
| Login limiter (`security/ratelimit.py`) | buckets per address and per (address, name) | `retry_after`, `record_failure`, `reset`, `prune` | login | attempts in flight when the lockout starts; expiry; pruning | guesses are bounded; a refused user who waits is admitted; memory is bounded |
| Change planning (`pg/changes.py` to line 792) | none: a function of operations, version and catalog | one rendering rule per operation | Change application | version gates, validation, redaction | what is previewed is what is run |
| Change application (`pg/changes.py:795-871`, `api/changes.py`) | a transaction on the instance, an audit row in the metadata database | `plan`, `apply` | pools, audit log | a statement, the connection or the process fails in between | all or nothing; what was applied is recorded, and recorded truly |
| Basket (`BasketProvider.tsx`, `Basket.tsx`, `lib/changes.ts`) | pending changes per instance in React state and sessionStorage, the modal | add, remove, clear, preview, apply, reload, select instance | change API | handlers that await keep the values of their click | no change is lost, revived, sent elsewhere or sent unseen |
| Tab of the browser (`router.tsx`, `Layout.tsx`, `Login.tsx`, `InstanceProvider.tsx`, `lib/auth.ts`, `lib/catalog.ts`) | who is signed in, selected instance, page, cache of the fetched, requests under way | sign in and out, navigate, select, poll, apply, save | session API, all queries | answers that arrive after what they answer is over | a change is shown; nothing of an earlier sign-in stays; a revoked session is noticed |
| Forms of the pages (`pages/*.tsx`) | the rows a form was opened on, its draft | open, edit, save, and the buttons of a row | basket, change API, profiles and users API | the rows are old when the operations run; several forms in one batch | what is applied is what the user touched, and no more |
| Metrics sampler (`metrics.py`, `api/metrics.py`) | sample rows, a background task | sample, prune, query | profiles, pools | profiles deleted while sampled | samples belong to their instance |
| Patroni (`patroni.py`, `api/patroni.py`) | credentials per profile; the cluster itself | status, switchover, failover, restart, reinitialize, reload, pause | profiles, audit log | the leader changes between status and operation | the operation hits the member it was meant for |
| Roles and memberships (`pg/catalog/roles.py`) | none | membership graph, closure by INHERIT and SET | change planning | options per edge and grantor, cycles of options | the closure is the one PostgreSQL uses |
| Effective privileges (`pg/catalog/privileges.py`) | none | explanation of one access | roles, grants | inherited, public, owner and superuser paths | the steps shown add up to the result |
| Cluster health, performance, grants, ownership, configuration (`pg/catalog/*.py`) | none | read-only queries | pools | little: one query, one answer | |
| OIDC client (`security/oidc.py`) | signed state cookie | authorisation redirect, code exchange, verification | sign-in | replayed or crossed callbacks | the account signed in is the one that authenticated |
| Start-up, middleware, migrations, secrets, backup | files, schema | | all | | |

The hazards of this code, each with the line where it bites and the properties
that watch it, are listed in `PROJECT.json`.

## 2. Modules

`EXTENDS` is written `->`. Every component has a module; its `MC` module adds
definitions for TLC; a `.cfg` per question gives the constants; its `Proofs`
module holds its theorems. Accounts and the login limiter share one, and so do the
pools, the requests on profiles and the sampler.

* `MCMetrics -> Metrics -> ProfileRequests -> PoolManager`: the endpoints that edit
  profiles composed with the pool manager, every step of which is the pool
  manager's own action with the request's state beside it;
  around them the sampler and what is recorded. `MCMetrics` also drives
  `PoolManager` by itself (`Callers`);
  `ProfileRequestsProofs -> Metrics, TLAPS` has the theorems of all three
* `MCAccounts -> Accounts` and `MCLoginLimiter -> LoginLimiter`, which share no
  variable; `SignInProofs -> Accounts, LoginLimiter, TLAPS` has the theorems of both,
  which is why the limiter's specification is called `LimiterSpec`
* `MCChangeApply -> ChangeApply`, whose `Contract == INSTANCE ApplyContract
  WITH ...` maps the statements and rows of the detailed module to the requests of
  the abstract specification; `ChangeApplyProofs -> ChangeApply, TLAPS`
* `MCBasket -> Basket`; `BasketProofs -> Basket, TLAPS`
* `MCPatroni -> Patroni`; `PatroniProofs -> Patroni, TLAPS`
* `MCAccess -> Access`; `AccessProofs -> Access, TLAPS`
* `MCPages -> Pages`, which has `INSTANCE`s of `GrantForms`, `RoleForms`,
  `ServerForms` and `AdminForms`, four modules with one interface;
  `PagesProofs -> Pages, TLAPS`
* `MCConsole -> Console`; `ConsoleProofs -> Console, TLAPS`

### PoolManager (`pg/connection.py`)

`pools`, `keyLocks` and `generation` are `_pools`, `_key_locks` and
`_generation`. A caller's `pc` says at which await it is suspended: `waiting`
for its key lock, `probing` the server, `opening` a pool, `discarding` a stale
one, `closing` the pools that `drop` or `close_all` took out; `using` is a caller
to whom `get` returned. A request that is cancelled, and a pool whose closing
fails, are not modelled. An asyncio lock is the queue of those who wait for it,
first come first served; `Unresponsive` servers never answer a probe.
`crossed` is a history variable: a drop of the profile happened since `get`
read the generation. `Start` is a new process.

### ProfileRequests (`api/profiles.py`, `api/deps.py`)

Adds the committed version of each profile (bumped by an edit), the version a
request loaded, the metadata connections in use, and, for each pool, the version
of the settings it was opened with. `update_profile` commits, then drops;
`delete_profile` drops, then commits.

### Metrics (`metrics.py`, `api/metrics.py`)

The tables whose rows hang on a profile, around those requests: a row is the
profile and its version as the writer loaded it. The sampler loads all profiles
at once (`Wake`), visits one after the other (`Store` or `Skip`) and prunes;
`sample_now` is a load and a later insert; an apply inserts an audit row when it
leaves the pool. `delete_profile` removes samples and detaches audit rows in its
own transaction (`Deleted`). `setup` fixes what differs between deployments: on
PostgreSQL foreign keys refuse a row of a profile that is gone and ids do not come
back; on SQLite there are no foreign keys and `Created` takes the id after the
largest. `born` says with which version the present profile of an id began.

### Accounts (`api/users.py`, `api/auth.py`, `security/auth.py`, `cli.py`)

User rows with a role, and which of them have a password (`withPw`) or come from
the identity provider; session rows; the asyncio lock of each worker process
(`mutex`); and the row locks of PostgreSQL (`rows`; `FOR UPDATE` does nothing on
SQLite). A behaviour is of one `deployment`: its database, the process that
serves each request, who may write a role or a password besides. The handlers of update and
delete are cut at each await: acquire the lock, load the target, lock the rows of
the admins one by one in any order (`scan` is what is left to lock), count, commit.
`Deadlock` is PostgreSQL's end of a transaction that waits in a circle. What one
transaction has read and not yet written is in the request's locals (`sees`),
which is where the stale role of a target comes from; `late` remembers that an
admin lost the role to a request that had read another one. `change_own_password`
is two steps, since the row it verified may have changed before it commits.

Passwords are not values: a reset by an admin, or the end of the account, marks
as `void` the sessions of the account and the logins and own changes of password
that verified it before. A new account of the same id (SQLite gives an id again)
has a new password, so that a session of the old one stays void.

An `operator` is not an admin, and no more is asked of it here.

### LoginLimiter (`security/ratelimit.py`, `api/auth.py` login)

Buckets with failures and `locked_until`; time advances by `Tick`; `Second` is
the number of ticks in a second, so that rounding shows. A login is `Admit`
(check), then `Failed` or `Succeeded` after the password hash has been computed
in a thread.

### ApplyContract and ChangeApply (`pg/changes.py`, `api/changes.py`)

The contract: a request names a plan; the effects of an atomic plan take place
all at once or not at all, those of another plan one after the other from the
first; the answer says how many took effect, or that it is unknown. The
detailed module executes statement by statement on a connection that may be in a
transaction, with failures by the server, by the driver (a statement that is
never sent), of the connection and of the process, and writes the audit row.
Other users edit and delete the profile and delete accounts meanwhile; the row
names both (`Orphan`), and PostgreSQL refuses it when one of them is gone.
Statements are of four kinds: `ddl` (undone by a rollback), `alone` (ALTER
SYSTEM, VACUUM: makes the plan not atomic), `immediate` (pg_reload_conf,
pg_terminate_backend, pg_drop_replication_slot, pg_stat_reset: runs in a
transaction and is not undone: `Lasting`) and `unsendable`. `ServerForms` draws the
same two lines for its own operations: `Transactional` is `Statement.transactional`
(all but ALTER SYSTEM and VACUUM), `Undone` is what a rollback leaves behind.

### Basket (`frontend/src/components`, `frontend/src/lib/changes.ts`)

`store` is the React state (`None` for an instance not changed since the page was
loaded), `session` is sessionStorage, `items` the memo of the basket on the screen,
and `task` the handler under way with the items and groups captured by their click.
`MaxAdds` is how many operations one editor adds in one event (`Permissions.tsx`
adds up to two).

`chosen` is the instance the user selected last, `listed` the profiles in the
fetched list and `current` the instance the page is on: where the chosen one is not
in the list, the list's first (`InstanceProvider.tsx:30-32`). The list is fetched
again at any time (`Refetch`), also while the modal is open or a run is under way,
and handlers post to the instance of the latest render. `lost` marks a handler or a
preview under which the page changed the instance in that way. An id that another
profile is given counts as the same instance.

`Persist` may fail to write sessionStorage, which the code ignores
(`changes.ts:169-175`); `unsaved` are the instances whose basket there is not the
page's, `stale` those whose basket was then read from there. `SignOut` unmounts the
provider (a sign-out, or any 401): a run under way goes on as `orphan`, and of its
end only the write to sessionStorage is left.

### Patroni (`patroni.py`, `api/patroni.py`)

The cluster is outside the repository and is modelled from how the code uses it:
it elects leaders, keeps a scheduled switchover and scheduled restarts, and
handles the call of a request at any time after it was sent, which may be after
the request gave up. A request (`rq`) is cut at its awaits: `look` (the status
that `switchover` and `_member` judge), `run` (the call), `wait`,
`audit`. `Body` is the leader the body of a switchover names; Patroni refuses
the call when the leader is another by then. The audit row names the profile and the
account (`Orphan`), which others may delete during the call. `hit` is a history
variable: what the call changed.

### Access (`pg/catalog/roles.py`, `pg/catalog/privileges.py`)

`cat` is the catalog and `rd` a report being made, one action per query; others
change the catalog between two queries. What PostgreSQL decides
(`HasPrivilege`, `SeesRows`) is written over the inheritance relation, what the
console says over the chains of memberships it collects and merges
(`membership_closure`, `dedupe_closure`). The recursive SQL is the union of its
levels; `RowsAreShort` in the proofs shows that no row is deeper than the bound of
the levels. `spoilt` is a history variable: which parts of the report a change fell
between. A catalog is any in `Catalog`, with what PostgreSQL guarantees of it:
`pg_database_owner` is there and is a member of nothing.

### Pages and its families of forms (`frontend/src/pages`)

What all pages do is in `Pages`: rows are fetched (`seen`), a form is opened on
them and keeps them (`form.from`), its handlers change the draft, `Save` turns
the difference into operations for the basket, `Apply` runs the pending
operations of one database in one batch, in order, with a rollback where the
batch is transactional; `Others` change the catalog meanwhile. A catalog is a
function from cells to values: a privilege of a role on an object with what each
grantor gave, an attribute, a membership of a grantor, an owner, a setting, an
override, an extension, a slot, a field of an instance or of an account. A
behaviour stays with one family:

| Module | Forms | Server |
|---|---|---|
| `GrantForms` | `Permissions.tsx`, `Grants.tsx` | GRANT and REVOKE with grantors, grant options, RESTRICT and CASCADE, default privileges |
| `RoleForms` | `RoleAttributes.tsx`, `Memberships.tsx`, `Ownership.tsx` | roles, memberships by grantor, owners, DROP and REASSIGN |
| `ServerForms` | `ServerSettings.tsx`, `Overrides.tsx`, `Extensions.tsx`, `Replication.tsx`, `Activity.tsx`, `TableStats.tsx`, `Statements.tsx`, `ClientAuth.tsx` | settings written and running, overrides, extensions that need others, what is not transactional |
| `AdminForms` | `Connections.tsx`, `Users.tsx` | `api/profiles.py`, `api/users.py`: saved at once, past the basket |

Each gives the same operators: `Opens` and `Buttons` (what can be opened and
pressed on the rows), `Edits` (what the handlers do to the draft), `Asks` (what
the form says, by cell), `Sends` (the operations it makes), `Refused`, `Effect`
and `Reach` (what the server does of them). `asks` and `was` of a pending
operation are history: what the user asked for, of which cells, and what they
were then. `alone` says that the handler had one operation to add (the basket
keeps the last of several, see `basket_editor`); `direct` that the form says of
each of its cells what the row showed, see the exceptions below.

A catalog is in order (`PagesConstants`, `InOrder`) when every cell of the family has
a value and PostgreSQL could hold it: in `GrantForms`, no grant whose grantor has lost
the grant option, and only owners give grant options (`Catalog`), so that a chain of
grants has at most two links; in `RoleForms`, a role that does not exist has the
attributes a new role gets.

### Console (`router.tsx`, `Layout.tsx`, `InstanceProvider.tsx`, `lib`)

One tab around its pages. `cache` and `flight` are React Query's: one fetch per
query at a time, which goes on when its page is left; invalidated data is
fetched when a page that shows it is, or gets, mounted. `cookie` is what the
browser sends, `sessions` what the server accepts; a request carries the session
it was sent in (`by`), so that an answer can be told to be of an earlier
sign-in. `mutation` is the request under way that changes something and takes
the options of the present render, hence the instance it invalidates
(`Select`). `old`, `missed` and `mixed` are history variables.

## 3. What is checked

Passing runs:

| Run | Checks | Instance, and why it is enough |
|---|---|---|
| `pools` | `TypeOK`, `OneOpenerPerKey`, `NoLostPool`, `CachedPoolIsOpen`, `StoppedMeansClosed`, `StalePoolNeverCached`, `WaitingIsServed`, `OutdatedOnlyByLateGet`, `RecordsAreOfProfile` | 1 profile. Callers of the manager by itself: 3 of them, 2 databases, the server of one of which never answers, 1 drop: a holder, a waiter and a dropper or newcomer. Requests: 3 versions of the profile (an edit of an edit, or a profile made anew under its id and edited); 3 requests; on SQLite and on PostgreSQL, 2 requests with a sample on demand and 1 with the sampler as well. 6 pools, 5 locks. The safety properties are proved for all instances (section 4) |
| `accounts` | `AdminRemains`, `OldPasswordOnlyByRace`, `ChangesEnd` | 4 deployments of 2 accounts: `OneProcess` on SQLite, 2 requests, a local and a single sign-on account, every writer of a role; `Passwords`, the same with resets, own changes, logins and the command line; `TwoProcesses` on PostgreSQL, 3 requests of which two share a process, so that both kinds of lock have a waiter and two transactions may wait for each other's rows; `Promotions`, 2 processes whose requests also make admins, and logins |
| `limiter` | `GuessesBounded`, `RetryAfterSuffices`, `IpLockKept`, `OnlyRecentBuckets` | 1 address, 2 names, 2 logins in flight, 2 attempts, window 3, lockout 2, time to 7: past one window and two lockouts |
| `apply` | `TypeOK`, `AppliedIsAudited`, `AuditCountsEffects`, `AllOrNothing` | 2 requests; all plans of 1 or 2 statements that the driver sends and longer ones whose middle fails; connections that break, kills, profiles deleted or marked read-only, the operator's account deleted; PostgreSQL as the metadata database, which may refuse a row |
| `access` | `ClosureIsInheritance`, `Explained`, `HiddenRowsAreHidden` | 516 catalogs of 5 roles: every set of 4 memberships with and without INHERIT, servers before and after 16, a superuser or not; one change between any two queries. The memberships form a diamond with a tail, so that a role is reached by two paths of which one inherits |
| `patroni` | `TypeOK`, `EffectsAreAudited`, `SwitchoverFromDescribed`, `RequestEnds` | 2 requests, 2 members and a name of neither, one operation of each kind (all forms of a switchover), one election besides those the requests cause, a profile that is edited or deleted, an account that is deleted, a process that is killed; PostgreSQL as the metadata database |
| `basket` | `AppliedLeaves`, `ReloadKeepsBasket`, `CarefulLosesNothing`, `CarefulRemovalStays`, `CarefulHitsInstance`, `CarefulAppliesShown` | 2 instances, 2 changes for 2 databases, so that a run is two requests. Of a profile missing from the list, a run whose page is gone, a basket that sessionStorage does not have, and a user who does not wait, one at a time (`OneAtATime`); the theorems cover their combinations |
| `pages` | `SendsWhatIsTouched`, `UntouchedKept`, `SavedIsApplied` | one form or button (two for the server, so that one batch holds two), one change by others; grants: 2 objects, 2 roles and the owner, 2 privileges, one with a chain of grant options; roles: a member of a role by two grantors; server: a setting for each way to take effect, an override, an extension needing another; admin: an instance with and without stored passwords, 2 accounts |
| `console` | `OwnChangesShown`, `OneSignInCached`, `ThrownOutWhenOver`, `RevokedIsNoticed` | 2 instances of which one is followed, a page that polls, 2 sign-ins (an answer of the first after the second), one change and one failing request |

Several properties name the exact circumstance in which the code does not keep
them, because it is part of what a maintainer should know:

* `GuessesBounded`: where `Window >= Lockout`, as by default (300 s each,
  `config.py:48-49`); otherwise failures are forgotten within a lockout period.
  Within a lockout's length an address gets `Burst` wrong guesses answered
  (`MaxAttempts`, or the logins in flight where those are more) and one less than
  the logins in flight. The run reaches that number.
* `OutdatedOnlyByLateGet`: a pool of old settings stays only if its opener loaded
  the profile before the edit and called `get` after the drop.
* `RecordsAreOfProfile`: on SQLite a sample or an audit row whose profile was
  deleted while it was made stays under the id, and so under the next profile
  (`stray`); PostgreSQL refuses it.
* `AdminRemains`: until the identity provider (`api/auth.py:213`) or
  `pgcontrol create-user` (`cli.py:36-40`) writes a role; neither calls
  `_admins_left`. With several processes, until a request takes the role of an admin
  that it had read as none (`late`): the role of the target is read before its row is
  locked (`api/users.py:107,134`), so that an account promoted in between by another
  process, even to be the last admin, goes uncounted. The run `accounts_promotion`
  shows it. With one process the asyncio lock excludes it.
* `OldPasswordOnlyByRace`: a session of a password that was reset since, or of an
  account that was deleted since, exists only if its login (or a change of the own
  password) had verified the password before and wrote after it
  (`api/auth.py:57-92`, `api/users.py:149-152`).
* `AppliedIsAudited`: on PostgreSQL the audit row is refused when the profile or the
  acting user's account was deleted while the change ran; a killed process leaves
  none either.
* `AuditCountsEffects`: while the connection holds, and but for the statements no
  rollback takes back (`immediate`), which is also what `ApplyContract` says.
* The `Careful...` properties: for a user who lets previews and runs end before
  doing anything but reloading or signing out, and whose editors make one operation
  at a time. `rash` is the history variable for the opposite: among others, the
  groups of a run are sent to the instance selected meanwhile.
* `CarefulHitsInstance` and `CarefulAppliesShown`: unless the page changed the
  instance since the click on Preview, because the one it showed had gone from the
  list or was not the chosen one (`lost`). Then the remaining groups, or the basket of
  an instance whose SQL was never shown, go to the first profile of the list, without
  the user having done anything.
* `AppliedLeaves`, `ReloadKeepsBasket`, `CarefulLosesNothing` and
  `CarefulRemovalStays`: but for an instance whose basket was read where
  sessionStorage had refused a write, or where a run had written whose page was gone
  (`unsaved`, `stale`). After a sign-out in the middle of a run, the page of the next
  sign-in may have read the basket before that run's end: what it applied is pending
  again.
* `EffectsAreAudited`: but for a process that is killed and, on PostgreSQL, a profile
  or an acting user's account that is deleted under the request. A row of a failed
  operation says less: a call that got no answer within 15 s may still be carried out.
* `Explained`: what a member of `pg_read_all_data` may read without an ACL entry
  is shown as granted with no source.
* `UntouchedKept`: an operation may reach what goes with it (`Reach`: CASCADE,
  what hangs on a dropped role; an instance is saved whole).
* `SavedIsApplied`: unless somebody changed that cell since the form was opened,
  another operation of the batch reaches it, a role other than the owner granted
  it (`Sole`: operations carry no GRANTED BY), the handler had several
  operations to add (`alone`), or it was a connection limit that is no integer.
* `SendsWhatIsTouched`: a connection limit that is no integer is left out without a
  word (`RoleAttributes.tsx:138`), and when it is all that was changed the form
  closes and sends nothing (`Ignored`).
* Bounds of the families that no property depends on: the owner is never picked as
  the grantee, though `GranteeSelect.tsx:27-33` offers it; batches of two operations
  happen to TLC in the server family only, and in all of them in the theorems.
* Both, and `SendsWhatIsTouched`, leave out forms that are not `Direct`: the grant
  editor on a role that has one privilege from two grantors, of which one with
  grant option, starts from the last row it sees
  (`Permissions.tsx:200-216,235`), so that saving it untouched may send a
  REVOKE GRANT OPTION FOR.
* `OwnChangesShown`: but for data whose fetch was under way when the change was
  answered on a page that had left it (`old`), a change whose answer
  invalidates the instance selected meanwhile (`missed`), and data whose renewed
  fetch fails. The operations of the Patroni page, which invalidate its own query
  only (`Patroni.tsx:378-381`), are not among the changes.
* `RevokedIsNoticed`: for a tab in the foreground; `refetchInterval` rests in the
  background.
* `OneSignInCached` and `ThrownOutWhenOver`: as long as one tab is used and the
  login page is not reached through the browser's history (`mixed`). A change
  sent in an earlier sign-in and refused in the next one does throw the user out.
* `HiddenRowsAreHidden`: the page also says that all rows are hidden of a
  superuser (and of a role with BYPASSRLS), who sees them all.

A run that is expected to be violated shows a place where the program does not
do what its documents or comments say; `PROJECT.json` quotes them:

| Run | What the counterexample shows |
|---|---|
| `accounts_promotion` | an account that another process made an admin, after its deletion had read its role, is deleted as the last admin: the row locks do not help |
| `apply_unsendable` | the driver's refusal of a statement commits the statements before it |
| `basket_editor` | two additions in one event: the second overwrites the first |

Every property of a passing run has a mutant: a definition beside the real one,
changed the way a slip in the code would change it, for which TLC reports the
property violated. They are the definitions named `<Definition>_<Slip>`.

The runs `pools`, `apply` and `patroni` check their type invariant; the
others' variables are typed by the first conjunct of the invariant that is
proved (section 4), or, for `Access` and `Pages`, by the properties themselves,
which could not be evaluated on other values.

### Noticed

Not a finding, as no document promises otherwise: a request takes its metadata
connection with `Depends(get_session)` and keeps it while it waits in `get`
(`db/session.py:25`, `pg/connection.py:110-111`). Ten requests (5 and 5 of
overflow) that wait for a server that does not answer keep every other request
waiting until the connect timeout, for other instances too. `ProfileRequests`
has these connections (`LoadProfile` needs a free one), without a property about
them.

An instance that accepts the sampler's connection and then never answers its query
keeps the task waiting (`metrics.py:68`: no timeout), and with it the samples of
every other instance; `Metrics` assumes nothing of the task's progress.

### Fairness

Only `pools`, `accounts`, `patroni` and `console` assume any. `PoolManager!FairSpec`: a call that can go on does
(the event loop runs every ready task), where the server answers; a call on an
unresponsive server may be stuck for ever. `Accounts!FairSpec`: strong fairness of
each request (`Proceed`): database calls return, and asyncio locks and PostgreSQL's
row locks are granted in the order of the requests, so that one who waits is not
passed over for ever by others that take and leave the lock.
`Patroni!FairSpec`: weak fairness of each handler; Patroni itself owes nothing,
but the HTTP client's timeout of 15 s (`patroni.py:179`) always comes.
`Console!FairSpec`: weak fairness of the timer of a polling page
(`refetchInterval`), and for each query of the server's answer and of its arrival;
nothing the user does is owed.

Where a configuration says `CHECK_DEADLOCK FALSE` the model really stops: all
requests have ended, time has reached its bound, or all changes are used up.

## 4. What is proved

`ProfileRequestsProofs` first proves, for any number of callers, profiles,
databases, pools and locks, that `PoolManager!Spec` implies the type invariant and each of
`OneOpenerPerKey`, `NoLostPool`, `CachedPoolIsOpen`, `StoppedMeansClosed` (as
invariants) and `StalePoolNeverCached` (as an action property). None is
inductive alone. The invariant `IInv` adds:

* `GenerationInv`: a call's remembered generation is at most the current one,
  and equal exactly when no drop crossed it;
* `LockInv`: a call no drop crossed queues on the lock that is in the
  dictionary, a lock has one holder, and a holder found no pool: this is why
  deleting unlocked locks in `drop` is safe;
* `OwnerInv`: an open pool has one owner, the dictionary or one call: this is
  why closing never hits a cached pool;
* `StoppedInv`: after the shutdown no call is inside `get`.

Each conjunct has a lemma with one case per action; `IInvStep` puts them
together and `Invariance` is the temporal step. The proofs use the assumptions
of `PoolManager` on its constants and nothing else.

It then shows `RequestsUsePools`: a request takes a step of
the pool manager or none, so that `RequestSpec => Spec` and everything above
holds of the server around the manager. `OutdatedByLateGet` then needs `Fit`:
settings are the profile's, or an edit of it still owes its drop. A `get` that no
drop crossed and that was not entered late has settings that fit, and so has
every cached pool that such a call opened. `MetricsLeaveRequests`: with the sampler
and the records beside them the requests behave as before. `RecordsFollowProfile`
rests on `MInv`: on PostgreSQL no id comes back, so that whatever was loaded of a
profile that is there is of it; on SQLite a row of a deleted profile can only be a
stray one, since the deletion leaves no other under its id.

`ChangeApplyProofs`, for any requests, users and plans: the type invariant;
`AppliedAudited`, with the one exception that PostgreSQL refuses a row whose profile
or account is gone; `AuditCounts`; and `Implements`, that every step of
`ChangeApply` is a step of `ApplyContract` under the mapping or leaves the mapped
variables alone. The last two assume `SendableFirst`: in a plan that runs in one
transaction nothing undoable precedes a statement the driver refuses to send.
Without it they are false, which is what `apply_unsendable` shows; the plans of
the run `apply` satisfy it. A request's step touches no other request, so the
invariant is `Local(r)` for each: the statement that failed follows the executed
ones, the open transaction holds what a rollback undoes, the effects are what was
executed up to one statement whose fate a broken connection hides.

`PatroniProofs`, for any requests, users, members and operations: the type invariant,
`EffectsAreAudited` and `SwitchoverFromDescribed`. `Local(r)` says that a call
was sent only after its lookup and names what was looked up, that a switchover
which took place ended the leadership its body named (Patroni compares it), and
that the row is written last, of the request as it was.

`BasketProofs`, for any finite set of changes and any instances and databases, with
the exceptions of section 3 and no bound on what happens at a time.
`AppliedChangesLeave` and `BasketsSurviveReload` hold whatever is clicked, reloaded,
refetched or signed out of: `BasketInv` (the React state of an instance, where there
is one, is its sessionStorage or the instance is `unsaved`; what is shown is what was
read last), `HomeInv` (a change is pending where it was added or nowhere, and a
handler holds changes of one instance) and `AppliedInv` (what is applied is neither
pending nor in the hands of a handler). The four `CarefulUser...` theorems rest on
`rash \/ Careful`: while the user waits, a handler holds exactly the basket of its
instance, which is the one on the screen until the page changes the instance
(`TaskInv`), a preview that allows a run has shown all of it (`PreviewInv`), a run
whose page is gone posts where it was shown to, or nowhere (`OrphanInv`), and every
change is pending, removed or applied (`KeptInv`).

`SignInProofs` first, of `Accounts`, for any accounts, requests, processes and
deployments: `AnAdminRemains` and `OldPasswordsOnlyByRace`. Neither assumes anything of
what requests write; a deployment on SQLite has one process. `CountHolds` is the heart
of the first: a request that has counted the other admins finds one of them at its
commit, because it holds their rows or, on SQLite, the only asyncio lock; and with one
process, one that read no admin finds none (`OneHolds`). With several processes the
second half is false, which is the exception `late` of `AdminRemains`. `SessionsEnd`:
a reset and a deletion leave no session of what they void.

`SignInProofs` then, of `LoginLimiter`, for any limits, keys, finite set of logins in
flight and time:
`GuessesAreBounded`, `LockoutsAreKept`, `MapStaysSmall` and `RetryAfterIsEnough`.
`FailuresInv`: the failures in a bucket are the last wrong guesses of its key;
`RecentInv`: what is in the map survived the last prune, for a guess within the
window or a lock, or came after it. The bound is not inductive: `CountInv` adds that
the guesses of an address that are no longer in its bucket are as old as a lockout,
or as the lock they led to (`Forgotten`), and that while an address is locked what
can still fail for it is what is in flight, as nothing is admitted (`Counted`). That a least number
exists in a set of naturals, and so the oldest failure within the window, is
`LeastExists`, from the library's theorem that the natural numbers are well founded.

`ConsoleProofs`, for any pages, instances and numbers of sign-ins, changes and
errors: `ChangesAreShown`, `CacheOfOneSignIn` and `ThrownOutRightly`. `RefusedInv`:
who was refused has no session, and never gets that one back; `SignInInv`: with
one tab everything cached or fetched is of the session the browser sends, and at
the login page there is neither; `FreshInv` and `RefetchInv`: what is not marked
invalid is as new as what is known, and what is shown and marked is being fetched
or could not be.

`AccessProofs`, for any finite set of roles, any catalogs and any number of changes
between any two queries: `ListsAgree`, `PrivilegesAreExplained` and `HiddenIsTrue`.
The closure first. `LevelsAreThere` gives the recursive function its equations and
`RowsAreChains` shows by induction (`Induction`, again from well-foundedness) that
a row of the query is a path without repetition, each role of which ends a row of
its own; hence no row has `Cardinality(Role)` hops, and the roles at the ends of the
inherited rows are closed under inheritance: `ChainsReach`, the recursive query
finds the least closed set. `DedupeKeepsEnds`: merging keeps an inherited row for
each role that has one. `ReachedReverse` relates the two lists, as the complement
of a closed set is closed under the reversed memberships. `OneMoreEdge` and
`OwnerIsAdded` do the same for the implicit membership in `pg_database_owner`.
Then the report. Its invariant says, for a report whose memberships nobody changed
since they were read: `ViaInv`, the roles and chains it holds are those of the
catalog as it is now; `RowInv`, between the two queries of an object the catalog
still decides as the server said; `SourceInv`, what is said of an object stays
right; `OwnerInv` and `PolicyInv` the same of row security. `ChangeKeepsIInv` is the
one argument for all changes by others: a change that marks as spoilt what it
touches (`Keeps`) keeps the invariant.

`PagesProofs`, for any objects, roles, privileges, instances and users, from any
catalogs in order, with any number of changes by others, of forms and of buttons:
`FormsSendWhatIsTouched`, `UntouchedIsKept` and `SavedChangeIsApplied`. A form is
saved on old rows and its change meets some later catalog, so the invariant cannot
speak of the catalog as it is. It says what a pending change does to every catalog
that does not refuse it (`Item`): it leaves it in order; a direct one alters only
what was asked for or goes along; and one that is alone leaves what was asked for, in
cells that still are what they were. Each family proves it of what its forms and
buttons send (`EditorSaves`, `ListSaves` and `GrantsPresses` prove `GrantsItem`, and so
on for the others), from what a draft can be (`Fits`, kept by `...Opens` and
`...Edits`). The heart of the grant editor is that what it asks for differs from what
it shows in exactly the privileges it gains, narrows or loses (`EditorTouched`,
`EditorSends`); of `RoleForm`, that the attributes sent are those changed, but for a limit that is no
integer (`RoleTouched`). The proofs about `Apply` know nothing of the families: `BatchRuns` and
`StaysPut` show by induction over the batch that a cell no change concerns keeps its
value before and after the one change that concerns it. `Picked`, which takes a group
from the basket, and `After` are recursive functions; `PickedIs` and `AfterIs` show
what they are made of, again by `Induction` from well-foundedness.

Only model-checked: liveness (`WaitingIsServed`, `ChangesEnd`, `RequestEnds`,
`RevokedIsNoticed`), which is beyond the prover. Every other property of a passing run
is a theorem.

## 5. What is not modelled

* The read-only catalog queries, and the sorting, filtering and formatting of
  their rows: one query, one answer. `Access` has the two reports whose answer
  is computed from several queries.
* The rendering of operations to SQL (`pg/changes.py:321-792`): a function of one
  operation, of quoting and redaction, for which the repository has tests.
  `ChangeApply` has what applying needs to know of a statement, the forms'
  modules what the server makes of each operation they send.
* The OIDC client and cryptography (hashes, Fernet, signatures are taken to
  work); the role it synchronises is in `Accounts`.
* The rates between samples (`metrics.py:96-136`): arithmetic for a chart. The age
  at which a sample is pruned is left open in `Metrics`.
* Migrations, backup and restore, which run alone; the static file server and
  header checks, which keep no state.
* Sizes of pools to instances (a call of `get` ends when the pool exists), and
  timeouts of the browser's requests.

Noticed while reading, and outside every model: `EffectivePrivileges.tsx:40-43`
filters the objects of a report by kinds written with a space ('materialized
view', 'partitioned table', 'window function'), where `privileges.py:33-41`
writes them with an underscore, so that the filters "Tables & views" and
"Functions" hide those objects.

## 6. Plan

Done: `PoolManager`, `ProfileRequests` with `Metrics`, `Accounts`, `ApplyContract` and
`ChangeApply`, `Basket`, `Patroni`, `Console`, `LoginLimiter`, `Access` and `Pages` with
its four families, each with its proofs. The order was that of
the damage: what could connect to, change or lock out the wrong thing first, what
only shows something wrong last. Left, in this order:

1. `ChangePlan`: which operations a server version accepts and which statements
   they become, between the forms' modules and `ChangeApply`.
2. `SignIn`: the OIDC redirect and callback with several tabs, over `Accounts`.

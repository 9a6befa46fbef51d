-------------------------- MODULE ProfileRequests --------------------------
(***************************************************************************)
(* The requests around PoolManager: a request takes a metadata database    *)
(* connection, loads the profile row (api/deps.py), and then reads the     *)
(* instance through get, or edits or deletes the profile                   *)
(* (api/profiles.py), which drops the pools of the old settings.           *)
(* The settings of a profile are a version number, new at every commit.    *)
(***************************************************************************)
EXTENDS PoolManager

CONSTANTS
    MetaConns,    \* connections of the metadata engine (10 on PostgreSQL)
    MaxVersion    \* bound: profile rows written

ASSUME BoundsAreNat == MetaConns \in Nat /\ MaxVersion \in Nat

VARIABLES
    row,       \* connection_profiles: settings of each profile, None if no row
    version,   \* settings written so far
    job,       \* what each request does
    stage,     \* how far it is
    target,    \* the profile and database it is for
    seen,      \* the settings it loaded
    late,      \* history: get was entered with settings no drop will outlive
    made       \* the settings each open pool was made with, and whether late

requests == <<job, stage, target, seen, late>>
allVars  == <<vars, row, version, job, stage, target, seen, late, made>>

Jobs   == {"none", "read", "update", "delete"}
Stages == {"none", "arrived", "loaded", "inget", "committed", "dropped"}

RequestInit ==
    /\ Init
    /\ row = [f \in Profile |-> 1]
    /\ version = 1
    /\ job = [p \in Proc |-> "none"]
    /\ stage = [p \in Proc |-> "none"]
    /\ target = [p \in Proc |-> None]
    /\ seen = [p \in Proc |-> None]
    /\ late = [p \in Proc |-> FALSE]
    /\ made = [q \in PoolId |-> None]

Goto(p, s) == stage' = [stage EXCEPT ![p] = s]

EndRequest(p) ==
    /\ job' = [job EXCEPT ![p] = "none"]
    /\ target' = [target EXCEPT ![p] = None]
    /\ seen' = [seen EXCEPT ![p] = None]
    /\ late' = [late EXCEPT ![p] = FALSE]
    /\ Goto(p, "none")

RowOf(p) == row[target[p][1]]

(* An edit that has committed new settings and not yet dropped the pools   *)
DropPending(f) ==
    \E p \in Proc : stage[p] = "committed" /\ target[p][1] = f

(* A deletion past its drop: only the row is left to go                    *)
DeletePending(f) ==
    \E p \in Proc : job[p] = "delete" /\ stage[p] = "dropped" /\ target[p][1] = f

-----------------------------------------------------------------------------
Arrive(p, j, k) ==
    /\ stage[p] = "none"
    /\ j = "update" =>
          generation[k[1]] + Cardinality({q \in Proc : job[q] = "update"}) < MaxGeneration
    /\ j = "delete" =>
          generation[k[1]] + Cardinality({q \in Proc : job[q] = "delete"}) < MaxGeneration
    /\ job' = [job EXCEPT ![p] = j]
    /\ target' = [target EXCEPT ![p] = k]
    /\ Goto(p, "arrived")
    /\ UNCHANGED <<vars, row, version, seen, late, made>>

(* The session of get_db checks a connection out at its first query and    *)
(* keeps it until the request ends                                         *)
HoldsConn(p) == stage[p] \notin {"none", "arrived"}

(* get_profile: db.get(ConnectionProfile, profile_id)                      *)
LoadProfile(p) ==
    /\ stage[p] = "arrived"
    /\ Cardinality({q \in Proc : HoldsConn(q)}) < MetaConns
    /\ IF RowOf(p) = None
       THEN EndRequest(p)
       ELSE /\ seen' = [seen EXCEPT ![p] = RowOf(p)]
            /\ Goto(p, "loaded")
            /\ UNCHANGED <<job, target, late>>
    /\ UNCHANGED <<vars, row, version, made>>

(* A pool is made with the settings its opener loaded                      *)
TrackPools(p) ==
    made' = [q \in PoolId |->
        CASE q \notin open' -> None
          [] q \in open     -> made[q]
          [] OTHER          -> [settings |-> seen[p], late |-> late[p]]]

(* pools.get(profile.id, profile_params(profile, box), dbname)             *)
EnterGet(p) ==
    /\ job[p] = "read"
    /\ stage[p] = "loaded"
    /\ GetHit(p, target[p]) \/ GetMiss(p, target[p])
    /\ Goto(p, "inget")
    /\ late' = [late EXCEPT ![p] =
          \/ seen[p] # RowOf(p) /\ ~DropPending(target[p][1])
          \/ DeletePending(target[p][1])]
    /\ UNCHANGED <<row, version, job, target, seen, made>>

(* The request goes on inside the manager; a read ends when it leaves it   *)
InManager(p) ==
    /\ Continue(p)
    /\ TrackPools(p)
    /\ IF job[p] = "read" /\ pc'[p] = "idle"
       THEN EndRequest(p)
       ELSE UNCHANGED requests
    /\ UNCHANGED <<row, version>>

(* Mutant: the pools are dropped before the commit                         *)
CommitUpdate_AfterDrop(p) ==
    /\ job[p] = "update"
    /\ RowOf(p) # None
    /\ \/ /\ stage[p] = "loaded"
          /\ Drop(p, target[p][1])
          /\ Goto(p, "committed")
          /\ UNCHANGED <<row, version, job, target, seen, late, made>>
       \/ /\ stage[p] = "committed" /\ pc[p] = "idle"
          /\ version < MaxVersion
          /\ version' = version + 1
          /\ row' = [row EXCEPT ![target[p][1]] = version + 1]
          /\ EndRequest(p)
          /\ UNCHANGED <<vars, made>>

(* update_profile: commit, then drop.  A name conflict (409) or a row      *)
(* deleted meanwhile ends the request before the drop.                     *)
CommitUpdate(p) ==
    /\ job[p] = "update"
    /\ stage[p] = "loaded"
    /\ RowOf(p) # None
    /\ version < MaxVersion
    /\ version' = version + 1
    /\ row' = [row EXCEPT ![target[p][1]] = version + 1]
    /\ Goto(p, "committed")
    /\ UNCHANGED <<vars, job, target, seen, late, made>>

UpdateFails(p) ==
    /\ job[p] = "update"
    /\ stage[p] = "loaded"
    /\ EndRequest(p)
    /\ UNCHANGED <<vars, row, version, made>>

UpdateDrop(p) ==
    /\ job[p] = "update"
    /\ stage[p] = "committed"
    /\ Drop(p, target[p][1])
    /\ Goto(p, "dropped")
    /\ UNCHANGED <<row, version, job, target, seen, late, made>>

UpdateDone(p) ==
    /\ job[p] = "update"
    /\ stage[p] = "dropped"
    /\ pc[p] = "idle"
    /\ EndRequest(p)
    /\ UNCHANGED <<vars, row, version, made>>

(* delete_profile: drop first, then delete the row and commit              *)
DeleteDrop(p) ==
    /\ job[p] = "delete"
    /\ stage[p] = "loaded"
    /\ Drop(p, target[p][1])
    /\ Goto(p, "dropped")
    /\ UNCHANGED <<row, version, job, target, seen, late, made>>

DeleteCommit(p) ==
    /\ job[p] = "delete"
    /\ stage[p] = "dropped"
    /\ pc[p] = "idle"
    /\ row' = [row EXCEPT ![target[p][1]] = None]
    /\ EndRequest(p)
    /\ UNCHANGED <<vars, version, made>>

(* create_profile: SQLite gives the id of a deleted profile to the next    *)
Create(f) ==
    /\ row[f] = None
    /\ version < MaxVersion
    /\ version' = version + 1
    /\ row' = [row EXCEPT ![f] = version + 1]
    /\ UNCHANGED <<vars, requests, made>>

Step(p) ==
    \/ LoadProfile(p) \/ EnterGet(p) \/ InManager(p)
    \/ CommitUpdate(p) \/ UpdateFails(p) \/ UpdateDrop(p) \/ UpdateDone(p)
    \/ DeleteDrop(p) \/ DeleteCommit(p)

RequestNext ==
    \/ \E p \in Proc : Step(p)
    \/ \E p \in Proc, k \in Key, j \in {"read", "update", "delete"} : Arrive(p, j, k)
    \/ \E f \in Profile : Create(f)

RequestSpec == RequestInit /\ [][RequestNext]_allVars

-----------------------------------------------------------------------------
Outdated(k) == pools[k] # None /\ made[pools[k]].settings # row[k[1]]

(* A pool with other settings than the profile's is cached only while the  *)
(* edit still owes its drop, or when its opener loaded the profile before  *)
(* the edit and called get after the drop (or while a deletion was past    *)
(* it).  Every other order of requests, edits and deletions is caught by   *)
(* commit-then-drop and the generation.                                    *)
OutdatedOnlyByLateGet ==
    \A k \in Key : Outdated(k) => made[pools[k]].late \/ DropPending(k[1])

=============================================================================

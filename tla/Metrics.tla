------------------------------ MODULE Metrics -------------------------------
(***************************************************************************)
(* What the server records about its instances, around the requests of     *)
(* ProfileRequests: metric samples, taken by the background sampler        *)
(* (metrics.py) and on demand (api/metrics.py), and the audit log.  Both   *)
(* are written awaits after the profile was loaded, to a table whose rows  *)
(* go with the profile, or are detached from it.                           *)
(*                                                                         *)
(* The settings of a profile are numbered by their commits, so that those  *)
(* older than `born` are of a deleted profile that had the same id.        *)
(***************************************************************************)
EXTENDS ProfileRequests

CONSTANT
    Setup   \* [postgres, interval, requests, databases, drops, rows]: the
            \* metadata database, the sampler's interval (0 disables it), and
            \* (bounds) the requests at a time, what they are for, the drops
            \* of pools, and the rows of both tables

ASSUME SetupIsTyped ==
    \A s \in Setup :
        /\ s.postgres \in BOOLEAN /\ s.databases \subseteq Database
        /\ {s.interval, s.requests, s.drops, s.rows} \subseteq Nat

ASSUME NoneIsNoVersion == None \notin Nat \cup (Profile \X Nat)

VARIABLES
    setup,
    born,      \* history: the settings each profile was created with
    samples,   \* metric_samples
    audit,     \* audit_log
    tick,      \* MetricsSampler._run: [pc, todo]
    visit      \* the profile as loaded by who takes a sample, or None

metrics == <<samples, audit, tick, visit>>
metricsVars == <<allVars, setup, born, metrics>>

Sampler == {"task", "request"}
Sleeping == [pc |-> "sleeping", todo |-> {}]

MetricsInit ==
    /\ RequestInit
    /\ setup \in Setup
    /\ born = row
    /\ samples = {}
    /\ audit = {}
    /\ tick = Sleeping
    /\ visit = [w \in Sampler |-> None]

-----------------------------------------------------------------------------
(* What is written for profile f as it was loaded; `stray` (history) says  *)
(* that this profile was gone by then                                      *)
Entry(f, settings) ==
    [profile |-> f, settings |-> settings, stray |-> row[f] = None \/ settings < born[f]]

(* PostgreSQL's foreign keys; SQLite enforces none                         *)
Refused(f) == setup.postgres /\ row[f] = None

(* The rows of table t after an insert, which may also fail                *)
Inserted(t, f, settings) ==
    {t} \cup {u \in {t \cup {Entry(f, settings)}} :
                ~Refused(f) /\ Cardinality(samples) + Cardinality(audit) < setup.rows}

-----------------------------------------------------------------------------
(* The sampler: all profiles are loaded, then visited one after the other. *)
(* A tick that fails is logged, and the next one comes.                    *)
Visit(todo) ==
    \/ /\ todo = {}
       /\ tick' = [pc |-> "pruning", todo |-> {}]
       /\ visit' = [visit EXCEPT !["task"] = None]
    \/ \E x \in todo :
          /\ tick' = [pc |-> "sampling", todo |-> todo \ {x}]
          /\ visit' = [visit EXCEPT !["task"] = x]

Wake ==
    /\ setup.interval > 0
    /\ tick.pc = "sleeping"
    /\ Visit({<<f, row[f]>> : f \in {g \in Profile : row[g] # None}})
    /\ UNCHANGED <<allVars, setup, born, samples, audit>>

(* sample_profile fails: the instance is skipped                           *)
Skip ==
    /\ tick.pc = "sampling"
    /\ Visit(tick.todo)
    /\ UNCHANGED <<allVars, setup, born, samples, audit>>

Store ==
    /\ tick.pc = "sampling"
    /\ samples' \in Inserted(samples, visit["task"][1], visit["task"][2])
    /\ Visit(tick.todo)
    /\ UNCHANGED <<allVars, setup, born, audit>>

(* How old a sample is, is left open                                       *)
Prune ==
    /\ tick.pc = "pruning"
    /\ samples' \in SUBSET samples
    /\ tick' = Sleeping
    /\ UNCHANGED <<allVars, setup, born, audit, visit>>

(* sample_now                                                              *)
SampleNow(f) ==
    /\ visit["request"] = None
    /\ row[f] # None
    /\ setup.rows > 0
    /\ visit' = [visit EXCEPT !["request"] = <<f, row[f]>>]
    /\ UNCHANGED <<allVars, setup, born, samples, audit, tick>>

SampledNow ==
    /\ visit["request"] # None
    /\ samples' \in Inserted(samples, visit["request"][1], visit["request"][2])
    /\ visit' = [visit EXCEPT !["request"] = None]
    /\ UNCHANGED <<allVars, setup, born, audit, tick>>

-----------------------------------------------------------------------------
(* The requests: they differ in what they are for, not in who serves them  *)
MetricsArrive(p) ==
    /\ Cardinality({q \in Proc : stage[q] # "none"}) < setup.requests
    /\ p = CHOOSE q \in Proc : stage[q] = "none"
    /\ \E k \in Profile \X setup.databases, j \in {"read", "update", "delete"} :
        /\ j # "read" =>
             generation[k[1]] + Cardinality({q \in Proc : job[q] = j}) < setup.drops
        /\ Arrive(p, j, k)
    /\ UNCHANGED <<setup, born, metrics>>

(* An apply writes its audit row when it is done with the pool             *)
Audited(p) ==
    /\ pc[p] = "using"
    /\ InManager(p)
    /\ audit' \in Inserted(audit, target[p][1], seen[p])
    /\ UNCHANGED <<setup, born, samples, tick, visit>>

(* Mutant: the audit rows are left to a foreign key, which SQLite ignores  *)
Deleted_KeepsAudit(p) ==
    /\ DeleteCommit(p)
    /\ samples' = {x \in samples : x.profile # target[p][1]}
    /\ UNCHANGED <<setup, born, audit, tick, visit>>

(* delete_profile: samples go, audit rows are detached                     *)
Deleted(p) ==
    /\ DeleteCommit(p)
    /\ samples' = {x \in samples : x.profile # target[p][1]}
    /\ audit' = {IF x.profile = target[p][1] THEN [x EXCEPT !.profile = None] ELSE x : x \in audit}
    /\ UNCHANGED <<setup, born, tick, visit>>

OtherStep(p) ==
    /\ \/ LoadProfile(p) \/ EnterGet(p) \/ (pc[p] # "using" /\ InManager(p))
       \/ CommitUpdate(p) \/ UpdateFails(p) \/ UpdateDrop(p) \/ UpdateDone(p) \/ DeleteDrop(p)
    /\ UNCHANGED <<setup, born, metrics>>

(* SQLite takes the id after the largest, PostgreSQL one never used        *)
Created(f) ==
    /\ ~setup.postgres
    /\ \A g \in Profile : row[g] # None => g < f
    /\ f > 1 => row[f - 1] # None
    /\ Create(f)
    /\ born' = [born EXCEPT ![f] = row'[f]]
    /\ UNCHANGED <<setup, metrics>>

-----------------------------------------------------------------------------
MetricsNext ==
    \/ Wake \/ Skip \/ Store \/ Prune
    \/ \E f \in Profile : SampleNow(f) \/ Created(f)
    \/ SampledNow
    \/ \E p \in Proc : MetricsArrive(p) \/ Audited(p) \/ Deleted(p) \/ OtherStep(p)

MetricsSpec == MetricsInit /\ [][MetricsNext]_metricsVars

-----------------------------------------------------------------------------
(* Everything recorded under a profile is of it, and not of a deleted one  *)
(* with the same id ("Detach audit entries too: SQLite may reuse the id    *)
(* for the next profile", profiles.py:98), except, on SQLite, what was     *)
(* under way when the profile was deleted (metrics.py:150-158).            *)
RecordsAreOfProfile ==
    \A x \in samples \cup audit :
        x.profile # None =>
            \/ row[x.profile] # None /\ x.settings >= born[x.profile]
            \/ x.stray /\ ~setup.postgres

=============================================================================

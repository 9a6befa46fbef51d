------------------------------- MODULE Basket -------------------------------
(***************************************************************************)
(* The basket of pending changes in the browser (BasketProvider.tsx,       *)
(* Basket.tsx, lib/changes.ts) and the selected instance it is kept for    *)
(* (InstanceProvider.tsx).  An event handler sees the state of the render  *)
(* it was made in: `preview` and `run` await one request for each database *)
(* and then write what they computed from the state at the click.  The     *)
(* mutation objects they call, however, always post to the instance of the *)
(* latest render, and a handler goes on when its page is gone.             *)
(***************************************************************************)
EXTENDS FiniteSets, Naturals

CONSTANTS
    Instance, Change, Database,
    DatabaseOf,   \* the database each change is for
    MaxAdds,      \* most changes one editor adds in one handler
    None

ASSUME BasketConstants ==
    /\ DatabaseOf \in [Change -> Database] /\ IsFiniteSet(Change)
    /\ MaxAdds \in Nat \ {0}
    /\ None \notin Instance \cup Database /\ \A cs \in SUBSET Change : cs # None

VARIABLES
    listed,    \* the profiles in the cached list
    chosen,    \* the instance the user chose last, listed or not
    current,   \* the selected instance, None without a list
    store,     \* React state: the basket of each instance, or None
    session,   \* sessionStorage: the same, across reloads
    items,     \* the basket on the screen, as it was when last read
    open,      \* the modal
    stage,     \* "edit", "preview", "done"
    results,   \* what "preview" shows: [shown, error, lost], or None
    task,      \* the running handler of this page, or None
    orphan,    \* a run whose page is gone: [run, to], or None
    home,      \* history: the instance a change was added for, or None
    removed,   \* history: changes the user took out
    applied,   \* history: changes a run told its page are applied
    rash,      \* history: the user did something while a handler was running,
               \* or used an editor that makes two operations
    unsaved,   \* history: instances whose basket in sessionStorage is not the
               \* page's: a write failed, or a run wrote whose page is gone
    stale      \* history: instances whose basket was then read from there

history == <<home, removed, applied, rash, unsaved, stale>>
instances == <<listed, chosen, current>>
baskets == <<store, session, items, unsaved, stale>>
ui == <<open, stage, results>>
vars == <<instances, store, session, items, ui, task, orphan, history>>

Init ==
    /\ listed = {}
    /\ chosen \in Instance \cup {None}
    /\ current = None
    /\ store = [i \in Instance |-> None]
    /\ session = [i \in Instance |-> {}]
    /\ items = {}
    /\ open = FALSE
    /\ stage = "edit"
    /\ results = None
    /\ task = None /\ orphan = None
    /\ home = [c \in Change |-> None]
    /\ removed = {}
    /\ applied = {}
    /\ rash = FALSE
    /\ unsaved = {} /\ stale = {}

-----------------------------------------------------------------------------
(* Without an instance nothing is ever added                               *)
BasketOf(i) ==
    IF i = None THEN {} ELSE IF store[i] # None THEN store[i] ELSE session[i]

(* The memo is computed again when the state changes                       *)
Read(i, next) == items' = IF i = current THEN next ELSE BasketOf(current)

(* Mutant: sessionStorage is left alone                                    *)
Persist_StateOnly(i, next) ==
    IF i = None THEN UNCHANGED baskets
    ELSE /\ store' = [store EXCEPT ![i] = next]
         /\ UNCHANGED <<session, unsaved, stale>>
         /\ Read(i, next)

(* A write that sessionStorage refuses is ignored                          *)
Persist(i, next) ==
    IF i = None THEN UNCHANGED baskets
    ELSE /\ store' = [store EXCEPT ![i] = next]
         /\ \/ session' = [session EXCEPT ![i] = next] /\ unsaved' = unsaved \ {i}
            \/ session' = session /\ unsaved' = unsaved \cup {i}
         /\ UNCHANGED stale
         /\ Read(i, next)

UserActs == rash' = (rash \/ task # None)

(* groupByDatabase                                                         *)
Groups(cs) == {{c \in cs : DatabaseOf[c] = d} : d \in Database} \ {{}}

-----------------------------------------------------------------------------
(* Mutant: the choice is forgotten                                         *)
Selected_First(list) == IF list = {} THEN {None} ELSE list

(* list[0] may be any of them: the list is ordered by names, which change  *)
Selected(list) ==
    IF chosen \in list THEN {chosen} ELSE IF list = {} THEN {None} ELSE list

(* lost: the page changed the instance, as the one it showed was not, or   *)
(* not any more, a listed one the user chose                               *)
Lost(t, list) ==
    IF t # None /\ current' # current /\ ~(chosen = current /\ chosen \in list)
    THEN [t EXCEPT !.lost = TRUE] ELSE t

(* The list of profiles is fetched again: on every load, for the page that *)
(* shows it, after an edit there, when the network is back                 *)
Refetch(list) ==
    /\ listed' = list
    /\ current' \in Selected(list)
    /\ items' = IF current' = current THEN items ELSE BasketOf(current')
    /\ task' = Lost(task, list)
    /\ results' = Lost(results, list)
    /\ UNCHANGED <<chosen, store, session, open, stage, orphan, history>>

(* The modal covers the instance picker and the pages                      *)
Select(i) ==
    /\ ~open
    /\ i \in listed
    /\ UserActs
    /\ chosen' = i /\ current' = i
    /\ items' = IF i = current THEN items ELSE BasketOf(i)
    /\ UNCHANGED <<listed, store, session, ui, task, orphan, home, removed, applied, unsaved, stale>>

(* An editor calls add for each of its operations in one handler: each     *)
(* call appends to the items of that render, so the last call is stored    *)
Add(ops, last) ==
    /\ ~open
    /\ current # None
    /\ rash' = (rash \/ task # None \/ Cardinality(ops) > 1)
    /\ last \in ops
    /\ Cardinality(ops) <= MaxAdds
    /\ \A c \in ops : home[c] = None /\ DatabaseOf[c] = DatabaseOf[last]
    /\ Persist(current, items \cup {last})
    /\ home' = [c \in Change |-> IF c \in ops THEN current ELSE home[c]]
    /\ UNCHANGED <<instances, ui, task, orphan, removed, applied>>

Open ==
    /\ ~open
    /\ items # {}
    /\ open' = TRUE
    /\ UNCHANGED <<instances, store, session, items, stage, results, task, orphan, history>>

Close ==
    /\ open
    /\ UserActs
    /\ open' = FALSE /\ stage' = "edit" /\ results' = None
    /\ UNCHANGED <<instances, baskets, task, orphan, home, removed, applied>>

Back ==
    /\ open /\ stage = "preview"
    /\ UserActs
    /\ stage' = "edit"
    /\ UNCHANGED <<instances, baskets, open, results, task, orphan, home, removed, applied>>

(* Mutant: the mirror is only written when something is added              *)
Remove_StateOnly(cs) ==
    /\ open /\ stage = "edit"
    /\ UserActs
    /\ cs # {} /\ cs \subseteq items
    /\ Persist_StateOnly(current, items \ cs)
    /\ removed' = removed \cup cs
    /\ UNCHANGED <<instances, ui, task, orphan, home, applied>>

(* remove and clear                                                        *)
Remove(cs) ==
    /\ open /\ stage = "edit"
    /\ UserActs
    /\ cs # {} /\ cs \subseteq items
    /\ cs = items \/ Cardinality(cs) = 1
    /\ Persist(current, items \ cs)
    /\ removed' = removed \cup cs
    /\ UNCHANGED <<instances, ui, task, orphan, home, applied>>

-----------------------------------------------------------------------------
(* mutateAsync posts to the profile of the latest render                   *)
Post(t, g, i) == [t EXCEPT !.left = @ \ {g}, !.group = g, !.on = i]

(* A handler at the click: its items and key are those of that render.     *)
(* shown, lost: of the preview that is confirmed                           *)
NewTask(kind) ==
    [kind |-> kind, items |-> items, key |-> current, left |-> Groups(items),
     group |-> {}, on |-> current, good |-> {}, error |-> FALSE,
     shown |-> IF kind = "run" THEN results.shown ELSE {},
     lost |-> kind = "run" /\ results.lost]

Preview ==
    /\ open /\ stage = "edit"
    /\ task = None
    /\ items # {}
    /\ \E g \in Groups(items) : task' = Post(NewTask("preview"), g, current)
    /\ UNCHANGED <<instances, store, session, items, ui, orphan, history>>

(* Mutant: groups that could not be planned do not stop the others         *)
CanRun_WithErrors == results # None

CanRun == results # None /\ ~results.error

(* run; with nothing pending any more it sends nothing                     *)
Run ==
    /\ open /\ stage = "preview"
    /\ task = None
    /\ CanRun
    /\ IF items = {}
       THEN Persist(current, {}) /\ stage' = "done" /\ results' = None
            /\ UNCHANGED task
       ELSE /\ \E g \in Groups(items) : task' = Post(NewTask("run"), g, current)
            /\ UNCHANGED <<baskets, stage, results>>
    /\ UNCHANGED <<instances, open, orphan, home, removed, applied, rash>>

(* The answer: planned or applied, an ApplyResult that is not ok, or an    *)
(* exception (the request may have had its effect all the same).  There is *)
(* no profile 0, to which a page without an instance posts.                *)
Outcomes(t) ==
    (IF t.on = None THEN {} ELSE {"ok"}) \cup (IF t.kind = "run" THEN {"failed"} ELSE {}) \cup {"error"}

Answered(t, outcome) ==
    [t EXCEPT !.good = IF outcome = "ok" THEN @ \cup {<<c, t.on>> : c \in t.group} ELSE @,
              !.error = @ \/ outcome = "error"]

NextRequest ==
    /\ task # None
    /\ \E outcome \in Outcomes(task), g \in task.left :
          task' = Post(Answered(task, outcome), g, current)
    /\ UNCHANGED <<instances, store, session, items, ui, orphan, history>>

PreviewEnds ==
    /\ task # None
    /\ task.kind = "preview" /\ task.left = {}
    /\ \E outcome \in Outcomes(task) :
          LET t == Answered(task, outcome)
          IN  results' = [shown |-> t.good, error |-> t.error, lost |-> t.lost]
    /\ stage' = "preview"
    /\ task' = None
    /\ UNCHANGED <<instances, store, session, items, open, orphan, history>>

Done(t, outcome) == {p[1] : p \in Answered(t, outcome).good}

(* Mutants: the basket is emptied after a run, or kept                     *)
Kept_Nothing(t, done) == {}
Kept_All(t, done) == t.items

(* removeMany(applied)                                                     *)
Kept(t, done) == t.items \ done

RunEnds ==
    /\ task # None
    /\ task.kind = "run" /\ task.left = {}
    /\ \E outcome \in Outcomes(task) :
          /\ Persist(task.key, Kept(task, Done(task, outcome)))
          /\ applied' = applied \cup Done(task, outcome)
    /\ stage' = "done" /\ results' = None
    /\ task' = None
    /\ UNCHANGED <<instances, open, orphan, home, removed, rash>>

-----------------------------------------------------------------------------
(* The provider is mounted anew: the list has to be fetched, the baskets   *)
(* are read from sessionStorage, and localStorage, which all tabs share,   *)
(* says what was chosen                                                    *)
Mount ==
    /\ listed' = {} /\ current' = None
    /\ chosen' \in Instance \cup {None}
    /\ store' = [i \in Instance |-> None]
    /\ items' = {}
    /\ open' = FALSE /\ stage' = "edit" /\ results' = None
    /\ task' = None
    /\ stale' = stale \cup unsaved /\ unsaved' = {}
    /\ UNCHANGED <<session, home, removed, applied, rash>>

(* The page is loaded again; the answers on their way go nowhere           *)
Reload == Mount /\ orphan' = None

(* Sign-out, or a 401, leads to the login page and back: the handler goes  *)
(* on, and posts where its page did when it was last rendered, which may   *)
(* be after the list was cleared.  A preview then has no effect.           *)
SignOut ==
    /\ Mount
    /\ IF task = None \/ task.kind = "preview" THEN UNCHANGED orphan
       ELSE /\ orphan = None    \* bound: one such run at a time
            /\ \E i \in {current, None} : orphan' = [run |-> task, to |-> i]

OrphanNext ==
    /\ orphan # None
    /\ \E outcome \in Outcomes(orphan.run), g \in orphan.run.left :
          orphan' = [orphan EXCEPT !.run = Post(Answered(orphan.run, outcome), g, orphan.to)]
    /\ UNCHANGED <<instances, store, session, items, ui, task, history>>

(* removeMany of the page that is gone: only its write to sessionStorage   *)
(* is left                                                                 *)
OrphanEnds ==
    /\ orphan # None
    /\ orphan.run.left = {}
    /\ \E outcome \in Outcomes(orphan.run) :
          LET i == orphan.run.key
              next == Kept(orphan.run, Done(orphan.run, outcome))
          IN  \/ /\ session' = [session EXCEPT ![i] = next]
                 /\ IF store[i] = None
                    THEN stale' = stale \cup {i} /\ UNCHANGED unsaved
                    ELSE unsaved' = unsaved \cup {i} /\ UNCHANGED stale
              \/ UNCHANGED <<session, unsaved, stale>>
    /\ orphan' = None
    /\ UNCHANGED <<instances, store, items, ui, task, home, removed, applied, rash>>

Next ==
    \/ \E list \in SUBSET Instance : Refetch(list)
    \/ \E i \in Instance : Select(i)
    \/ \E ops \in SUBSET Change, c \in Change : Add(ops, c)
    \/ \E cs \in SUBSET Change : Remove(cs)
    \/ Open \/ Close \/ Back
    \/ Preview \/ Run \/ NextRequest \/ PreviewEnds \/ RunEnds
    \/ Reload \/ SignOut \/ OrphanNext \/ OrphanEnds

Spec == Init /\ [][Next]_vars

-----------------------------------------------------------------------------
(* "mirrored to sessionStorage so a reload keeps the basket"               *)
(* (BasketProvider.tsx:5): of every instance, unless the last write to     *)
(* sessionStorage failed or was of a run whose page is gone.               *)
ReloadKeepsBasket ==
    [][\A i \in Instance \ unsaved :
          store[i] # None /\ store'[i] = None => session'[i] = store[i]]_vars

Pending(i) == IF i = current THEN items ELSE BasketOf(i)

(* What a run told its page is applied is never pending again, whatever    *)
(* was added, removed, selected, reloaded or deleted meanwhile             *)
(* (Basket.tsx:70); unless the basket was read where a write had failed or *)
(* a run of a page that is gone had written.                               *)
AppliedLeaves == \A i \in Instance \ stale : applied \cap Pending(i) = {}

(* A change added stays pending until the user removes it or a run applies *)
(* it, failed runs and reloads included ("mirrored to sessionStorage",     *)
(* BasketProvider.tsx:5).                                                  *)
NoChangeLost ==
    \A c \in Change :
        home[c] \notin stale \cup {None} => c \in removed \cup applied \/ c \in Pending(home[c])

(* A user who lets every preview and run end before doing anything but     *)
(* reload the page or sign out loses no change (Basket.tsx:44-72) ...      *)
CarefulLosesNothing == rash \/ NoChangeLost

(* ... and does not see a change come back that was taken out.             *)
CarefulRemovalStays == rash \/ \A i \in Instance \ stale : removed \cap Pending(i) = {}

(* The requests of runs that are waiting for their answer                  *)
Requests ==
    {t \in {task, IF orphan = None THEN None ELSE orphan.run} : t # None /\ t.kind = "run"}

(* "Pending changes per instance" (BasketProvider.tsx:5): a careful user's *)
(* change is sent to the instance it was added for and to no other, while  *)
(* profiles come and go and the user signs out; unless the page changed    *)
(* the instance between the click on Preview and the last request, because *)
(* the one it showed had gone or had not been chosen.                      *)
CarefulHitsInstance ==
    rash \/ \A t \in Requests : t.lost \/ \A c \in t.group : t.on \in {home[c], None}

(* "planned, shown as SQL, applied on confirmation" (README.md:15): what   *)
(* is sent is what the confirmed preview showed, for the instance it is    *)
(* sent to; with the same exception.                                       *)
CarefulAppliesShown ==
    rash \/ \A t \in Requests :
                t.lost \/ t.on = None \/ \A c \in t.group : <<c, t.on>> \in t.shown
=============================================================================

--------------------------- MODULE BasketProofs ----------------------------
(* What Basket promises, for any number of instances, databases and changes. *)
(* Two ideas carry the proofs: a change is only ever pending where it was    *)
(* added (HomeInv), and a handler that nobody disturbs holds exactly the     *)
(* basket of the instance it was started for (TaskInv), which is the one on  *)
(* the screen as long as the page has not changed the instance (`lost`).     *)
EXTENDS Basket, FiniteSetTheorems, TLAPS

Place == Instance \cup {None}

\* A handler knows the items it was started with, and of these what it has
\* sent (`group` and `good`) and still has to send (`left`).
Shown == SUBSET (Change \X Place)
TaskRecord ==
  [kind : {"preview", "run"}, items : SUBSET Change, key : Instance, left : SUBSET SUBSET Change,
   group : SUBSET Change, on : Place, good : Shown, error : BOOLEAN, shown : Shown, lost : BOOLEAN]
ResultRecord == [shown : Shown, error : BOOLEAN, lost : BOOLEAN]

Task(t) ==
  /\ t \in TaskRecord
  /\ t.left \subseteq SUBSET t.items /\ t.group \subseteq t.items
  /\ \A p \in t.good : p[1] \in t.items

\* What is shown is what was read last; what a reload brings back is the same,
\* but for the baskets named by `unsaved` and `stale`.
BasketInv ==
  /\ current \in Place
  /\ session \in [Instance -> SUBSET Change] /\ store \in [Instance -> (SUBSET Change) \cup {None}]
  /\ items \in SUBSET Change
  /\ unsaved \subseteq Instance /\ stale \subseteq Instance
  /\ \A i \in Instance : store[i] \in {None, session[i]} \/ i \in unsaved
  /\ items = BasketOf(current) \/ current \in stale

VarType ==
  /\ open \in BOOLEAN /\ rash \in BOOLEAN
  /\ home \in [Change -> Place]
  /\ removed \subseteq Change /\ applied \subseteq Change
  /\ results # None => results \in ResultRecord
  /\ task # None => Task(task)
  /\ orphan # None =>
        /\ Task(orphan.run) /\ orphan.run.kind = "run"
        /\ orphan \in [run : TaskRecord, to : Place]

\* A change is pending where it was added, or nowhere; a handler holds changes
\* of one instance.
HomeInv ==
  /\ \A i \in Instance : \A c \in session[i] \cup BasketOf(i) : home[c] = i
  /\ \A c \in items : home[c] = current
  /\ task # None => \A c \in task.items : home[c] = task.key
  /\ orphan # None => \A c \in orphan.run.items : home[c] = orphan.run.key
  /\ \A c \in removed \cup applied : home[c] # None

\* What is applied is neither pending nor in the hands of a handler.
AppliedInv ==
  /\ \A i \in Instance \ stale : applied \cap BasketOf(i) = {}
  /\ task # None /\ task.key \notin stale => applied \cap task.items = {}

\* A careful user: a handler holds exactly the basket of its instance, and what
\* it sends is what was shown.
ShownAt(shown, cs, i) == \A c \in cs : <<c, i>> \in shown
TaskInv ==
  task # None =>
    /\ open
    /\ task.key \notin stale => task.items = BasketOf(task.key)
    /\ ~task.lost =>
         /\ task.key = current /\ task.on = current /\ task.items = items
         /\ task.kind = "preview" /\ ~task.error =>
              ShownAt(task.good, task.items \ (task.group \cup UNION task.left), current)
         /\ task.kind = "run" => ShownAt(task.shown, task.items, current)
PreviewInv ==
  stage = "preview" => open /\ (CanRun /\ ~results.lost => ShownAt(results.shown, items, current))
OrphanInv ==
  orphan # None /\ ~orphan.run.lost =>
    /\ orphan.to \in {orphan.run.key, None} /\ orphan.run.on \in {orphan.run.key, None}
    /\ ShownAt(orphan.run.shown, orphan.run.items, orphan.run.key)
KeptInv ==
  /\ \A i \in Instance \ stale : removed \cap BasketOf(i) = {}
  /\ \A i \in Instance \ stale : \A c \in Change : home[c] = i => c \in removed \cup applied \cup BasketOf(i)
Careful == TaskInv /\ PreviewInv /\ OrphanInv /\ KeptInv

IInv == BasketInv /\ VarType /\ HomeInv /\ AppliedInv /\ (rash \/ Careful)

-----------------------------------------------------------------------------
LEMMA NoneIsNone == None \notin Instance /\ None \notin SUBSET Change
  BY BasketConstants

(* A basket of an instance, and the one on the screen                        *)
LEMMA BasketType ==
  ASSUME BasketInv, NEW i \in Place
  PROVE  BasketOf(i) \in SUBSET Change
  <1>1. CASE i = None
    BY <1>1 DEF BasketOf
  <1>2. CASE i \in Instance
    <2>1. store[i] \in (SUBSET Change) \cup {None} /\ session[i] \in SUBSET Change /\ i # None
      BY <1>2, NoneIsNone DEF BasketInv
    <2> QED BY <2>1 DEF BasketOf
  <1> QED BY <1>1, <1>2 DEF Place

(* What Persist leaves                                                       *)
LEMMA PersistWrites ==
  ASSUME BasketInv, NEW i \in Instance, NEW next \in SUBSET Change, Persist(i, next), current' = current
  PROVE  /\ BasketInv' /\ stale' = stale
         /\ BasketOf(i)' = next /\ session'[i] \in {session[i], next}
         /\ \A j \in Instance \ {i} : BasketOf(j)' = BasketOf(j) /\ session'[j] = session[j]
         /\ items' = IF i = current THEN next ELSE BasketOf(current)
         /\ store'[i] # None /\ \A j \in Instance \ {i} : store'[j] = store[j]
  <1>1. i # None /\ next # None
    BY NoneIsNone
  <1>2. /\ store' = [store EXCEPT ![i] = next] /\ stale' = stale
        /\ \/ session' = [session EXCEPT ![i] = next] /\ unsaved' = unsaved \ {i}
           \/ session' = session /\ unsaved' = unsaved \cup {i}
        /\ items' = IF i = current THEN next ELSE BasketOf(current)
    BY <1>1 DEF Persist, Read
  <1>3. /\ session' \in [Instance -> SUBSET Change] /\ store' \in [Instance -> (SUBSET Change) \cup {None}]
        /\ unsaved' \subseteq Instance /\ stale' \subseteq Instance
        /\ session'[i] \in {session[i], next}
        /\ \A j \in Instance \ {i} : session'[j] = session[j] /\ store'[j] = store[j]
        /\ store'[i] = next
    BY <1>2 DEF BasketInv
  <1>4. BasketOf(i)' = next
    BY <1>1, <1>3 DEF BasketOf
  <1>5. \A j \in Instance \ {i} : BasketOf(j)' = BasketOf(j)
    BY <1>3, NoneIsNone DEF BasketOf
  <1>6. \A j \in Instance : store'[j] \in {None, session'[j]} \/ j \in unsaved'
    <2>1. CASE session' = [session EXCEPT ![i] = next] /\ unsaved' = unsaved \ {i}
      BY <1>3, <2>1 DEF BasketInv
    <2>2. CASE session' = session /\ unsaved' = unsaved \cup {i}
      BY <1>3, <2>2 DEF BasketInv
    <2> QED BY <1>2, <2>1, <2>2
  <1>7. items' = BasketOf(current)' /\ items' \in SUBSET Change
    <2>1. CASE current = i
      <3>1. items' = next /\ BasketOf(current)' = next
        BY <1>2, <1>4, <2>1
      <3> QED BY <3>1
    <2>2. CASE current = None
      <3>1. BasketOf(current) = {} /\ BasketOf(current)' = {}
        BY <2>2 DEF BasketOf
      <3> QED BY <1>1, <1>2, <2>2, <3>1
    <2>3. CASE current \in Instance \ {i}
      <3>1. BasketOf(current)' = BasketOf(current)
        <4> DEFINE j == current
        <4>1. BasketOf(j)' = BasketOf(j)
          BY <1>3, <2>3, NoneIsNone DEF BasketOf
        <4> QED BY <4>1
      <3> QED BY <1>2, <2>3, <3>1, BasketType DEF BasketInv
    <2> QED BY <2>1, <2>2, <2>3 DEF BasketInv, Place
  <1>8. BasketInv'
    BY <1>3, <1>6, <1>7 DEF BasketInv
  <1> QED BY <1>1, <1>2, <1>3, <1>4, <1>5, <1>8

(* The baskets, when none is written                                         *)
LEMMA SameBaskets ==
  ASSUME UNCHANGED <<store, session>>
  PROVE  \A i : BasketOf(i)' = BasketOf(i)
  BY DEF BasketOf

(* The requests of a handler share out its items                             *)
LEMMA GroupsCover ==
  ASSUME NEW cs \in SUBSET Change
  PROVE  Groups(cs) \subseteq SUBSET cs /\ UNION Groups(cs) = cs
  <1>1. \A c \in cs : c \in {x \in cs : DatabaseOf[x] = DatabaseOf[c]} /\ DatabaseOf[c] \in Database
    BY BasketConstants
  <1> QED BY <1>1 DEF Groups

-----------------------------------------------------------------------------
(* A list is fetched: the instance stays, or the handler and the preview are *)
(* marked                                                                    *)
LEMMA RefetchMarks ==
  ASSUME IInv, NEW list \in SUBSET Instance, Refetch(list)
  PROVE  /\ current' \in Place
         /\ current' = current => items' = items /\ task' = task /\ results' = results
         /\ current' # current =>
              /\ items' = BasketOf(current')
              /\ task' = IF task # None THEN [task EXCEPT !.lost = TRUE] ELSE task
              /\ results' = IF results # None THEN [results EXCEPT !.lost = TRUE] ELSE results
  <1>1. current' \in Place /\ (chosen \in list => current' = chosen)
    BY DEF Refetch, Selected, Place
  <1>2. CASE current' = current
    BY <1>1, <1>2 DEF Refetch, Lost
  <1>3. CASE current' # current
    <2>1. ~(chosen = current /\ chosen \in list)
      BY <1>1, <1>3
    <2> QED BY <1>1, <1>3, <2>1 DEF Refetch, Lost
  <1> QED BY <1>2, <1>3

LEMMA RefetchStep ==
  ASSUME IInv, NEW list \in SUBSET Instance, Refetch(list)
  PROVE  IInv'
  <1>1. /\ UNCHANGED <<store, session, open, stage, orphan, home, removed, applied, rash, unsaved, stale>>
        /\ \A i : BasketOf(i)' = BasketOf(i)
    BY SameBaskets DEF Refetch, history
  <1>2. CASE current' = current
    <2>1. items' = items /\ task' = task /\ results' = results
      BY <1>2, RefetchMarks
    <2>2. BasketInv'
      BY <1>1, <1>2, <2>1 DEF IInv, BasketInv
    <2>3. VarType' /\ HomeInv' /\ AppliedInv'
      BY <1>1, <1>2, <2>1 DEF IInv, VarType, HomeInv, AppliedInv, Task
    <2>4. ASSUME Careful PROVE Careful'
      BY <1>1, <1>2, <2>1, <2>4 DEF Careful, TaskInv, PreviewInv, OrphanInv, KeptInv, CanRun, ShownAt
    <2> QED BY <1>1, <2>2, <2>3, <2>4 DEF IInv
  <1>3. CASE current' # current
    <2>1. /\ current' \in Place /\ items' = BasketOf(current')
          /\ task' = IF task # None THEN [task EXCEPT !.lost = TRUE] ELSE task
          /\ results' = IF results # None THEN [results EXCEPT !.lost = TRUE] ELSE results
      BY <1>3, RefetchMarks
    <2>2. items' \in SUBSET Change
      BY <2>1, BasketType DEF IInv
    <2>3. BasketInv'
      <3>1. items' = BasketOf(current)'
        BY <2>1, <1>1 DEF BasketOf
      <3> QED BY <1>1, <2>1, <2>2, <3>1 DEF IInv, BasketInv
    <2>4. task' # None =>
            /\ task # None /\ Task(task') /\ task'.lost /\ task'.items = task.items /\ task'.key = task.key
      <3> SUFFICES ASSUME task # None
                   PROVE  Task(task') /\ task'.lost /\ task'.items = task.items /\ task'.key = task.key
        BY <2>1
      <3>1. Task(task) /\ task' = [task EXCEPT !.lost = TRUE]
        BY <2>1 DEF IInv, VarType
      <3> QED BY <3>1 DEF Task, TaskRecord
    <2>5. results' # None => results' \in ResultRecord /\ results'.lost
      <3> SUFFICES ASSUME results # None PROVE results' \in ResultRecord /\ results'.lost
        BY <2>1
      <3>1. results \in ResultRecord /\ results' = [results EXCEPT !.lost = TRUE]
        BY <2>1 DEF IInv, VarType
      <3> QED BY <3>1 DEF ResultRecord
    <2>6. VarType'
      BY <1>1, <2>4, <2>5 DEF IInv, VarType
    <2>7. HomeInv'
      <3>1. \A c \in items' : home[c] = current'
        BY <2>1 DEF IInv, HomeInv, Place, BasketOf
      <3> QED BY <1>1, <2>4, <3>1 DEF IInv, HomeInv
    <2>8. AppliedInv'
      BY <1>1, <2>4 DEF IInv, AppliedInv
    <2>9. ASSUME Careful PROVE Careful'
      <3>1. TaskInv'
        BY <1>1, <2>4, <2>9 DEF Careful, TaskInv
      <3>2. PreviewInv'
        BY <1>1, <2>5, <2>9 DEF Careful, PreviewInv, CanRun
      <3> QED BY <1>1, <2>9, <3>1, <3>2 DEF Careful, OrphanInv, KeptInv, ShownAt
    <2> QED BY <1>1, <2>3, <2>6, <2>7, <2>8, <2>9 DEF IInv
  <1> QED BY <1>2, <1>3

(* The user selects another instance                                         *)
LEMMA SelectStep ==
  ASSUME IInv, NEW i \in Instance, Select(i)
  PROVE  IInv'
  <1>1. /\ UNCHANGED <<store, session, open, stage, results, task, orphan, home, removed, applied, unsaved, stale>>
        /\ \A j : BasketOf(j)' = BasketOf(j)
        /\ ~open /\ rash' = (rash \/ task # None) /\ current' = i
        /\ items' = IF i = current THEN items ELSE BasketOf(i)
    BY SameBaskets DEF Select, UserActs, ui
  <1>2. BasketInv'
    <2>1. BasketOf(i) \in SUBSET Change
      BY BasketType DEF IInv, Place
    <2>2. items' = BasketOf(current)' \/ current' \in stale'
      BY <1>1 DEF IInv, BasketInv, BasketOf
    <2> QED BY <1>1, <2>1, <2>2 DEF IInv, BasketInv, Place
  <1>3. VarType' /\ HomeInv' /\ AppliedInv'
    <2>1. VarType' /\ AppliedInv'
      BY <1>1 DEF IInv, VarType, AppliedInv, Task
    <2>2. \A c \in items' : home[c] = current'
      BY <1>1 DEF IInv, HomeInv
    <2> QED BY <1>1, <2>1, <2>2 DEF IInv, HomeInv
  <1>4. ASSUME ~rash' PROVE Careful'
    <2>1. Careful /\ task = None
      BY <1>1, <1>4 DEF IInv
    <2> QED BY <1>1, <2>1 DEF Careful, TaskInv, PreviewInv, OrphanInv, KeptInv, ShownAt
  <1> QED BY <1>2, <1>3, <1>4 DEF IInv

(* An editor adds its operations                                             *)
LEMMA AddStep ==
  ASSUME IInv, NEW ops \in SUBSET Change, NEW last \in Change, Add(ops, last)
  PROVE  IInv'
  <1>1. /\ UNCHANGED <<current, open, stage, results, task, orphan, removed, applied>>
        /\ current \in Instance /\ items \cup {last} \in SUBSET Change
        /\ Persist(current, items \cup {last})
        /\ last \in ops /\ home' = [c \in Change |-> IF c \in ops THEN current ELSE home[c]]
        /\ \A c \in ops : home[c] = None
        /\ ~open
    BY DEF Add, IInv, BasketInv, Place, instances, ui
  <1>2. /\ BasketInv' /\ stale' = stale
        /\ BasketOf(current)' = items \cup {last} /\ session'[current] \in {session[current], items \cup {last}}
        /\ \A i \in Instance \ {current} : BasketOf(i)' = BasketOf(i) /\ session'[i] = session[i]
        /\ items' = items \cup {last}
    <2> DEFINE i == current
               next == items \cup {last}
    <2>1. i \in Instance /\ next \in SUBSET Change /\ Persist(i, next) /\ current' = current /\ BasketInv
      BY <1>1 DEF IInv
    <2> HIDE DEF next
    <2>2. /\ BasketInv' /\ stale' = stale
          /\ BasketOf(i)' = next /\ session'[i] \in {session[i], next}
          /\ \A j \in Instance \ {i} : BasketOf(j)' = BasketOf(j) /\ session'[j] = session[j]
          /\ items' = IF i = current THEN next ELSE BasketOf(current)
      BY <2>1, PersistWrites
    <2> QED BY <1>1, <2>2 DEF next, BasketOf
  <1>3. VarType'
    BY <1>1 DEF IInv, VarType, Add, Task, Place
  <1>4. /\ home'[last] = current /\ home[last] = None /\ current # None
        /\ \A c \in Change : home[c] # None => home'[c] = home[c]
    BY <1>1, NoneIsNone
  <1>5. HomeInv'
    <2>1. ASSUME NEW i \in Instance, NEW c \in session'[i] \cup BasketOf(i)' PROVE home'[c] = i
      <3>1. CASE i # current
        <4>1. c \in session[i] \cup BasketOf(i) /\ c \in Change
          BY <1>2, <2>1, <3>1, BasketType DEF IInv, BasketInv, Place
        <4>2. home[c] = i
          BY <4>1 DEF IInv, HomeInv
        <4> QED BY <1>4, <4>1, <4>2, NoneIsNone
      <3>2. CASE i = current
        <4>1. BasketOf(i)' = BasketOf(current)'
          BY <1>1, <3>2 DEF BasketOf
        <4>2. c \in session[current] \cup items \cup {last} /\ c \in Change
          BY <1>1, <1>2, <2>1, <3>2, <4>1 DEF IInv, BasketInv
        <4>3. c = last \/ home[c] = current
          BY <1>1, <4>2 DEF IInv, HomeInv
        <4> QED BY <1>4, <3>2, <4>2, <4>3
      <3> QED BY <3>1, <3>2
    <2>2. ASSUME NEW c \in items' PROVE home'[c] = current'
      <3>1. c = last \/ (home[c] = current /\ c \in Change)
        BY <1>1, <1>2, <2>2 DEF IInv, HomeInv, BasketInv
      <3> QED BY <1>1, <1>4, <3>1
    <2>3. ASSUME task # None, NEW c \in task.items PROVE home'[c] = task.key
      <3>1. c \in Change /\ home[c] = task.key /\ task.key # None
        BY <2>3, NoneIsNone DEF IInv, VarType, HomeInv, Task, TaskRecord
      <3> QED BY <3>1, <1>4
    <2>4. ASSUME orphan # None, NEW c \in orphan.run.items PROVE home'[c] = orphan.run.key
      <3>1. c \in Change /\ home[c] = orphan.run.key /\ orphan.run.key # None
        BY <2>4, NoneIsNone DEF IInv, VarType, HomeInv, Task, TaskRecord
      <3> QED BY <3>1, <1>4
    <2>5. \A c \in removed \cup applied : home'[c] # None
      BY <1>4 DEF IInv, VarType, HomeInv
    <2> QED BY <1>1, <2>1, <2>2, <2>3, <2>4, <2>5 DEF HomeInv
  <1>6. items = BasketOf(current) \/ current \in stale
    BY DEF IInv, BasketInv
  <1>7. AppliedInv'
    <2>1. ASSUME NEW i \in Instance \ stale PROVE applied \cap BasketOf(i)' = {}
      <3>1. CASE i # current
        BY <1>2, <2>1, <3>1 DEF IInv, AppliedInv
      <3>2. CASE i = current
        <4>1. BasketOf(i)' = BasketOf(i) \cup {last}
          BY <1>1, <1>2, <1>6, <2>1, <3>2 DEF BasketOf
        <4>2. last \notin applied
          BY <1>4 DEF IInv, HomeInv
        <4> QED BY <4>1, <4>2 DEF IInv, AppliedInv
      <3> QED BY <3>1, <3>2
    <2> QED BY <1>1, <1>2, <2>1 DEF IInv, AppliedInv
  <1>8. ASSUME ~rash' PROVE Careful'
    <2>1. ~rash /\ task = None /\ Careful
      BY <1>8 DEF Add, IInv
    <2>2. ops = {last}
      <3>1. IsFiniteSet(ops)
        BY BasketConstants, FS_Subset
      <3>2. Cardinality(ops) <= 1
        <4>1. ~(Cardinality(ops) > 1)
          BY <1>8, Zenon DEF Add
        <4> QED BY <4>1, <3>1, FS_CardinalityType
      <3>3. last \in ops
        BY <1>1
      <3>4. {last} \subseteq ops /\ Cardinality({last}) = 1
        BY <3>3, FS_Singleton
      <3>5. Cardinality({last}) = Cardinality(ops)
        BY <3>1, <3>2, <3>4, FS_Subset, FS_CardinalityType
      <3> QED BY <3>1, <3>4, <3>5, FS_Subset
    <2>3. TaskInv' /\ PreviewInv' /\ OrphanInv'
      BY <1>1, <2>1 DEF Careful, TaskInv, PreviewInv, OrphanInv, ShownAt
    <2>4. \A i \in Instance \ stale : BasketOf(i)' = IF i = current THEN BasketOf(i) \cup {last} ELSE BasketOf(i)
      BY <1>1, <1>2, <1>6 DEF BasketOf
    <2>5. last \notin removed
      BY <1>4 DEF IInv, HomeInv
    <2>6. ASSUME NEW i \in Instance \ stale, NEW c \in Change, home'[c] = i
          PROVE  c \in removed \cup applied \cup BasketOf(i)'
      <3>1. CASE c = last
        BY <1>4, <2>4, <2>6, <3>1
      <3>2. CASE c # last
        <4>1. home[c] = i
          BY <1>1, <2>2, <2>6, <3>2
        <4>2. c \in removed \cup applied \cup BasketOf(i)
          BY <2>1, <4>1 DEF Careful, KeptInv
        <4> QED BY <2>4, <4>2
      <3> QED BY <3>1, <3>2
    <2>7. KeptInv'
      <3>1. \A i \in Instance \ stale' : removed' \cap BasketOf(i)' = {}
        BY <1>1, <1>2, <2>1, <2>4, <2>5 DEF Careful, KeptInv
      <3>2. \A i \in Instance \ stale' : \A c \in Change : home'[c] = i =>
                c \in removed' \cup applied' \cup BasketOf(i)'
        BY <1>1, <1>2, <2>6
      <3> QED BY <3>1, <3>2 DEF KeptInv
    <2> QED BY <2>3, <2>7 DEF Careful
  <1> QED BY <1>2, <1>3, <1>5, <1>7, <1>8 DEF IInv

(* The modal opens and closes, and goes back to the list                     *)
LEMMA ModalStep ==
  ASSUME IInv, Open \/ Close \/ Back
  PROVE  IInv'
  <1>1. /\ UNCHANGED <<instances, store, session, items, task, orphan, home, removed, applied, unsaved, stale>>
        /\ \A i : BasketOf(i)' = BasketOf(i)
        /\ open' \in BOOLEAN /\ rash' \in BOOLEAN /\ (results' = results \/ results' = None)
    BY SameBaskets DEF IInv, VarType, Open, Close, Back, UserActs, history, baskets
  <1>2. BasketInv'
    BY <1>1 DEF IInv, BasketInv, instances
  <1>3. VarType' /\ HomeInv' /\ AppliedInv'
    BY <1>1 DEF IInv, VarType, HomeInv, AppliedInv, Task, instances
  <1>4. ASSUME ~rash' PROVE Careful'
    <2>1. Careful
      BY <1>4 DEF IInv, Open, Close, Back, UserActs, history
    <2>2. OrphanInv' /\ KeptInv'
      BY <1>1, <2>1 DEF Careful, OrphanInv, KeptInv, ShownAt
    <2>3. TaskInv' /\ PreviewInv'
      BY <1>1, <1>4, <2>1 DEF Careful, TaskInv, PreviewInv, Open, Close, Back, UserActs, CanRun, ShownAt, instances, history
    <2> QED BY <2>1, <2>2, <2>3 DEF Careful
  <1> QED BY <1>2, <1>3, <1>4 DEF IInv

(* The user takes changes out                                                *)
LEMMA RemoveStep ==
  ASSUME IInv, NEW cs \in SUBSET Change, Remove(cs)
  PROVE  IInv'
  <1> DEFINE k == current
             next == items \ cs
  <1>1. /\ UNCHANGED <<current, open, stage, results, task, orphan, home, applied>>
        /\ removed' = removed \cup cs /\ cs \subseteq items /\ cs # {} /\ stage = "edit"
        /\ Persist(k, next) /\ rash' = (rash \/ task # None) /\ next \in SUBSET Change
    BY DEF Remove, UserActs, IInv, BasketInv, instances, ui
  <1>2. k \in Instance /\ (items = BasketOf(k) \/ k \in stale)
    <2>1. items # {}
      BY <1>1
    <2> QED BY <2>1 DEF IInv, BasketInv, BasketOf, Place
  <1> HIDE DEF next
  <1>3. /\ BasketInv' /\ stale' = stale
        /\ BasketOf(k)' = next /\ session'[k] \in {session[k], next}
        /\ \A i \in Instance \ {k} : BasketOf(i)' = BasketOf(i) /\ session'[i] = session[i]
        /\ items' = next
    <2>1. BasketInv /\ current' = current
      BY <1>1 DEF IInv
    <2> QED BY <1>1, <1>2, <2>1, PersistWrites
  <1>4. \A i \in Instance \ {k} : BasketOf(i)' = BasketOf(i)
    BY <1>3
  <1>5. next \subseteq items /\ next \cap cs = {} /\ items \subseteq next \cup cs
    BY DEF next
  <1>6. \A c \in cs : c \in Change /\ home[c] = k /\ k # None
    BY <1>1, <1>2, NoneIsNone DEF IInv, HomeInv
  <1>7. VarType'
    BY <1>1 DEF IInv, VarType, Task
  <1>8. HomeInv'
    <2>1. \A c \in items : home[c] = k
      BY DEF IInv, HomeInv
    <2>2. ASSUME NEW i \in Instance, NEW c \in session'[i] \cup BasketOf(i)' PROVE home[c] = i
      <3>1. CASE i = k
        <4>1. BasketOf(i)' = next
          BY <1>1, <1>3, <3>1 DEF BasketOf
        <4>2. session'[i] \in {session[i], next}
          BY <1>3, <3>1
        <4>3. c \in session[i] \cup items
          BY <1>5, <2>2, <4>1, <4>2
        <4> QED BY <2>1, <3>1, <4>3 DEF IInv, HomeInv
      <3>2. CASE i # k
        BY <1>3, <2>2, <3>2 DEF IInv, HomeInv
      <3> QED BY <3>1, <3>2
    <2>3. \A c \in items' : home[c] = current'
      BY <1>1, <1>3, <1>5, <2>1
    <2> QED BY <1>1, <1>6, <2>2, <2>3 DEF IInv, HomeInv
  <1>9. \A i \in Instance \ stale : BasketOf(i)' = IF i = k THEN BasketOf(i) \ cs ELSE BasketOf(i)
    <2>1. ASSUME NEW i \in Instance \ stale, i = k PROVE BasketOf(i)' = BasketOf(i) \ cs
      <3>1. BasketOf(i)' = next
        BY <1>1, <1>3, <2>1 DEF BasketOf
      <3> QED BY <1>2, <2>1, <3>1 DEF next
    <2> QED BY <1>4, <2>1
  <1>10. AppliedInv'
    BY <1>1, <1>3, <1>9 DEF IInv, AppliedInv
  <1>11. ASSUME ~rash' PROVE Careful'
    <2>1. ~rash /\ task = None /\ Careful
      BY <1>1, <1>11 DEF IInv
    <2>2. TaskInv' /\ PreviewInv' /\ OrphanInv'
      BY <1>1, <2>1 DEF Careful, TaskInv, PreviewInv, OrphanInv, ShownAt
    <2>3. \A i \in Instance \ stale : i # k => cs \cap BasketOf(i) = {}
      BY <1>6 DEF IInv, HomeInv
    <2>4. KeptInv'
      BY <1>1, <1>3, <1>6, <1>9, <2>1, <2>3 DEF Careful, KeptInv
    <2> QED BY <2>2, <2>4 DEF Careful
  <1> QED BY <1>3, <1>7, <1>8, <1>10, <1>11 DEF IInv

-----------------------------------------------------------------------------
(* A handler at the click: it holds what is on the screen, and will send all *)
(* of it                                                                     *)
LEMMA ClickTask ==
  ASSUME BasketInv, VarType, NEW kind \in {"preview", "run"}, kind = "run" => CanRun,
         NEW g \in Groups(items), NEW t, t = Post(NewTask(kind), g, current)
  PROVE  /\ Task(t) /\ t.kind = kind /\ t.key = current /\ t.on = current
         /\ t.items = items /\ t.group \cup UNION t.left = t.items
         /\ t.shown = (IF kind = "run" THEN results.shown ELSE {})
         /\ t.lost = (kind = "run" /\ results.lost)
         /\ current \in Instance
  <1>1. items \subseteq Change /\ current \in Instance
    <2>1. items # {}
      BY DEF Groups
    <2> QED BY <2>1 DEF BasketInv, BasketOf, Place
  <1>2. Groups(items) \subseteq SUBSET items /\ UNION Groups(items) = items
    BY <1>1, GroupsCover
  <1>3. kind = "run" => results.shown \in Shown /\ results.lost \in BOOLEAN
    BY DEF VarType, CanRun, ResultRecord
  <1>4. /\ (IF kind = "run" THEN results.shown ELSE {}) \in Shown
        /\ (kind = "run" /\ results.lost) \in BOOLEAN
    BY <1>3 DEF Shown
  <1>5. NewTask(kind) \in TaskRecord
    <2>1. {} \in Shown
      BY DEF Shown
    <2> QED BY <1>1, <1>2, <1>4, <2>1 DEF NewTask, TaskRecord, Place
  <1>6. /\ t.kind = kind /\ t.key = current /\ t.on = current /\ t.items = items /\ t.good = {}
        /\ t.left = Groups(items) \ {g} /\ t.group = g
        /\ t.shown = (IF kind = "run" THEN results.shown ELSE {})
        /\ t.lost = (kind = "run" /\ results.lost)
    BY DEF Post, NewTask
  <1>7. t \in TaskRecord
    <2>1. t = [NewTask(kind) EXCEPT !.left = t.left, !.group = g, !.on = current]
      BY DEF Post, NewTask
    <2>2. t.left \in SUBSET SUBSET Change /\ g \in SUBSET Change /\ current \in Place
      BY <1>1, <1>2, <1>6 DEF Place
    <2> HIDE DEF NewTask
    <2> QED BY <1>5, <2>1, <2>2 DEF TaskRecord
  <1>8. t.group \cup UNION t.left = items
    BY <1>2, <1>6
  <1> QED BY <1>1, <1>2, <1>6, <1>7, <1>8 DEF Task

(* A handler after an answer                                                 *)
LEMMA AnsweredTask ==
  ASSUME NEW u, Task(u), NEW outcome \in Outcomes(u), NEW t, t = Answered(u, outcome)
  PROVE  /\ Task(t) /\ t.kind = u.kind /\ t.key = u.key /\ t.on = u.on /\ t.items = u.items
         /\ t.left = u.left /\ t.group = u.group /\ t.shown = u.shown /\ t.lost = u.lost
         /\ t.good = (IF outcome = "ok" THEN u.good \cup {<<c, u.on>> : c \in u.group} ELSE u.good)
         /\ t.error = (u.error \/ outcome = "error")
         /\ u.kind = "preview" => outcome \in {"ok", "error"}
  <1>1. u \in TaskRecord
    BY DEF Task
  <1>2. /\ t.kind = u.kind /\ t.key = u.key /\ t.on = u.on /\ t.items = u.items
        /\ t.left = u.left /\ t.group = u.group /\ t.shown = u.shown /\ t.lost = u.lost
        /\ t.good = (IF outcome = "ok" THEN u.good \cup {<<c, u.on>> : c \in u.group} ELSE u.good)
        /\ t.error = (u.error \/ outcome = "error")
    BY <1>1 DEF TaskRecord, Answered
  <1>3. t.good \in Shown /\ \A p \in t.good : p[1] \in t.items
    BY <1>1, <1>2 DEF Task, TaskRecord, Shown
  <1>4. t.error \in BOOLEAN
    BY <1>2
  <1>5. t \in TaskRecord
    BY <1>1, <1>3, <1>4 DEF TaskRecord, Answered
  <1>6. u.kind = "preview" => outcome \in {"ok", "error"}
    BY DEF Outcomes
  <1> QED BY <1>1, <1>2, <1>3, <1>5, <1>6 DEF Task

(* A handler that posts its next request                                     *)
LEMMA PostedTask ==
  ASSUME NEW u, Task(u), NEW g \in u.left, NEW i \in Place, NEW t, t = Post(u, g, i)
  PROVE  /\ Task(t) /\ t.kind = u.kind /\ t.key = u.key /\ t.items = u.items /\ t.good = u.good
         /\ t.error = u.error /\ t.shown = u.shown /\ t.lost = u.lost
         /\ t.left = u.left \ {g} /\ t.group = g /\ t.on = i
  <1>1. u \in TaskRecord
    BY DEF Task
  <1>2. /\ t.kind = u.kind /\ t.key = u.key /\ t.items = u.items /\ t.good = u.good
        /\ t.error = u.error /\ t.shown = u.shown /\ t.lost = u.lost
        /\ t.left = u.left \ {g} /\ t.group = g /\ t.on = i
    BY <1>1 DEF TaskRecord, Post
  <1>3. t \in TaskRecord
    BY <1>1, <1>2 DEF TaskRecord, Post
  <1> QED BY <1>2, <1>3 DEF Task

(* What a handler was told is applied                                        *)
LEMMA DoneItems ==
  ASSUME NEW u, Task(u), NEW outcome \in Outcomes(u)
  PROVE  Done(u, outcome) \subseteq u.items /\ u.items \subseteq Change /\ u.key \in Instance
  <1> DEFINE t == Answered(u, outcome)
  <1>1. Task(t) /\ t.items = u.items
    BY AnsweredTask
  <1> HIDE DEF t
  <1>2. \A p \in t.good : p[1] \in u.items
    BY <1>1 DEF Task
  <1>3. Done(u, outcome) = {p[1] : p \in t.good}
    BY DEF Done, t
  <1> QED BY <1>2, <1>3 DEF Task, TaskRecord

(* The user asks for a preview                                               *)
LEMMA PreviewStep ==
  ASSUME IInv, Preview
  PROVE  IInv'
  <1>1. PICK g \in Groups(items) : task' = Post(NewTask("preview"), g, current)
    BY DEF Preview
  <1>2. /\ UNCHANGED <<instances, store, session, items, open, stage, results, orphan, home, removed,
                      applied, rash, unsaved, stale>>
        /\ \A i : BasketOf(i)' = BasketOf(i)
        /\ open /\ stage = "edit"
    BY SameBaskets DEF Preview, ui, history
  <1>3. /\ Task(task') /\ task'.kind = "preview" /\ task'.key = current /\ task'.on = current
        /\ task'.items = items /\ task'.group \cup UNION task'.left = task'.items
        /\ task'.lost = FALSE
    BY <1>1, ClickTask DEF IInv
  <1>4. BasketInv'
    BY <1>2 DEF IInv, BasketInv, instances
  <1>5. VarType' /\ HomeInv'
    BY <1>2, <1>3 DEF IInv, VarType, HomeInv, Task, instances
  <1>6. items = BasketOf(current) \/ current \in stale
    BY DEF IInv, BasketInv
  <1>7. AppliedInv'
    BY <1>2, <1>3, <1>6 DEF IInv, AppliedInv, Task, TaskRecord
  <1>8. ASSUME ~rash' PROVE Careful'
    <2>1. Careful
      BY <1>2, <1>8 DEF IInv
    <2>2. TaskInv'
      BY <1>2, <1>3, <1>6 DEF TaskInv, ShownAt, instances
    <2> QED BY <1>2, <2>1, <2>2 DEF Careful, PreviewInv, OrphanInv, KeptInv, ShownAt
  <1> QED BY <1>4, <1>5, <1>7, <1>8 DEF IInv

(* The user confirms: nothing is left to send ...                            *)
LEMMA RunNothing ==
  ASSUME IInv, Run, items = {}
  PROVE  IInv'
  <1>1. /\ UNCHANGED <<current, open, task, orphan, home, removed, applied, rash>>
        /\ stage' = "done" /\ results' = None /\ Persist(current, {})
    BY DEF Run, instances
  <1>2. /\ BasketInv' /\ stale' = stale /\ items' = items
        /\ \A i \in Instance : session'[i] \subseteq session[i] /\ BasketOf(i)' \subseteq BasketOf(i)
        /\ \A i \in Instance \ stale : BasketOf(i)' = BasketOf(i)
    <2>1. CASE current = None
      <3>1. UNCHANGED <<store, session, items, unsaved, stale>> /\ \A i : BasketOf(i)' = BasketOf(i)
        BY <1>1, <2>1, SameBaskets DEF Persist, baskets
      <3> QED BY <1>1, <3>1 DEF IInv, BasketInv
    <2>2. CASE current \in Instance
      <3> DEFINE k == current
                 next == {}
      <3>1. k \in Instance /\ next \in SUBSET Change /\ Persist(k, next) /\ current' = current /\ BasketInv
        BY <1>1, <2>2 DEF IInv
      <3> HIDE DEF next
      <3>2. /\ BasketInv' /\ stale' = stale
            /\ BasketOf(k)' = next /\ session'[k] \in {session[k], next}
            /\ \A j \in Instance \ {k} : BasketOf(j)' = BasketOf(j) /\ session'[j] = session[j]
            /\ items' = IF k = current THEN next ELSE BasketOf(current)
        BY <3>1, PersistWrites
      <3>3. ASSUME NEW i \in Instance
            PROVE  /\ session'[i] \subseteq session[i] /\ BasketOf(i)' \subseteq BasketOf(i)
                   /\ i \notin stale => BasketOf(i)' = BasketOf(i)
        <4>1. CASE i = k
          <5>1. BasketOf(i)' = {}
            BY <1>1, <3>2, <4>1 DEF BasketOf, next
          <5>2. items = BasketOf(i) \/ i \in stale
            BY <3>1, <4>1 DEF BasketInv
          <5> QED BY <3>2, <4>1, <5>1, <5>2 DEF next
        <4>2. CASE i # k
          BY <3>2, <4>2
        <4> QED BY <4>1, <4>2
      <3> QED BY <3>2, <3>3 DEF next
    <2> QED BY <2>1, <2>2 DEF IInv, BasketInv, Place
  <1>3. VarType'
    BY <1>1 DEF IInv, VarType, Task
  <1>4. HomeInv' /\ AppliedInv'
    BY <1>1, <1>2 DEF IInv, HomeInv, AppliedInv
  <1>5. task = None
    BY DEF Run
  <1>6. ASSUME ~rash' PROVE Careful'
    <2>1. Careful
      BY <1>1, <1>6 DEF IInv
    <2>2. TaskInv' /\ PreviewInv' /\ OrphanInv'
      BY <1>1, <1>5, <2>1 DEF Careful, TaskInv, PreviewInv, OrphanInv, ShownAt
    <2>3. KeptInv'
      BY <1>1, <1>2, <2>1 DEF Careful, KeptInv
    <2> QED BY <2>2, <2>3 DEF Careful
  <1> QED BY <1>2, <1>3, <1>4, <1>6 DEF IInv

(* ... or the first request goes out, with what the preview showed           *)
LEMMA RunStep ==
  ASSUME IInv, Run, items # {}
  PROVE  IInv'
  <1>1. PICK g \in Groups(items) : task' = Post(NewTask("run"), g, current)
    BY DEF Run
  <1>2. /\ UNCHANGED <<instances, store, session, items, open, stage, results, orphan, home, removed,
                      applied, rash, unsaved, stale>>
        /\ \A i : BasketOf(i)' = BasketOf(i)
        /\ open /\ stage = "preview" /\ CanRun
    BY SameBaskets DEF Run, baskets
  <1>3. /\ Task(task') /\ task'.kind = "run" /\ task'.key = current /\ task'.on = current
        /\ task'.items = items /\ task'.group \cup UNION task'.left = task'.items
        /\ task'.shown = results.shown /\ task'.lost = results.lost
    <2>1. results.lost \in BOOLEAN
      BY <1>2 DEF IInv, VarType, CanRun, ResultRecord
    <2>2. /\ Task(task') /\ task'.kind = "run" /\ task'.key = current /\ task'.on = current
          /\ task'.items = items /\ task'.group \cup UNION task'.left = task'.items
          /\ task'.shown = (IF "run" = "run" THEN results.shown ELSE {})
          /\ task'.lost = ("run" = "run" /\ results.lost)
      BY <1>1, <1>2, ClickTask DEF IInv
    <2> QED BY <2>1, <2>2
  <1>4. BasketInv'
    BY <1>2 DEF IInv, BasketInv, instances
  <1>5. VarType' /\ HomeInv'
    BY <1>2, <1>3 DEF IInv, VarType, HomeInv, Task, instances
  <1>6. items = BasketOf(current) \/ current \in stale
    BY DEF IInv, BasketInv
  <1>7. AppliedInv'
    BY <1>2, <1>3, <1>6 DEF IInv, AppliedInv, Task, TaskRecord
  <1>8. ASSUME ~rash' PROVE Careful'
    <2>1. Careful
      BY <1>2, <1>8 DEF IInv
    <2>2. ~results.lost => ShownAt(results.shown, items, current)
      BY <1>2, <2>1 DEF Careful, PreviewInv
    <2>3. TaskInv'
      BY <1>2, <1>3, <1>6, <2>2 DEF TaskInv, ShownAt, instances
    <2>4. PreviewInv'
      BY <1>2, <2>1 DEF Careful, PreviewInv, ShownAt, CanRun, instances
    <2> QED BY <1>2, <2>1, <2>3, <2>4 DEF Careful, OrphanInv, KeptInv, ShownAt
  <1> QED BY <1>4, <1>5, <1>7, <1>8 DEF IInv

(* An answer arrives and the next request goes out                           *)
LEMMA NextRequestStep ==
  ASSUME IInv, NextRequest
  PROVE  IInv'
  <1>1. PICK outcome \in Outcomes(task), g \in task.left : task' = Post(Answered(task, outcome), g, current)
    BY DEF NextRequest
  <1> DEFINE u == Answered(task, outcome)
  <1>2. /\ UNCHANGED <<instances, store, session, items, open, stage, results, orphan, home, removed,
                      applied, rash, unsaved, stale>>
        /\ \A i : BasketOf(i)' = BasketOf(i)
        /\ task # None /\ Task(task) /\ current \in Place
    BY SameBaskets DEF NextRequest, ui, history, IInv, VarType, BasketInv
  <1>3. /\ Task(u) /\ u.kind = task.kind /\ u.key = task.key /\ u.items = task.items
        /\ u.left = task.left /\ u.shown = task.shown /\ u.lost = task.lost
        /\ u.good = (IF outcome = "ok" THEN task.good \cup {<<c, task.on>> : c \in task.group} ELSE task.good)
        /\ u.error = (task.error \/ outcome = "error")
        /\ task.kind = "preview" => outcome \in {"ok", "error"}
    BY <1>2, AnsweredTask
  <1>4. task' = Post(u, g, current) /\ g \in u.left
    BY <1>1, <1>3
  <1> HIDE DEF u
  <1>5. /\ Task(task') /\ task'.kind = task.kind /\ task'.key = task.key /\ task'.items = task.items
        /\ task'.good = u.good /\ task'.error = u.error /\ task'.shown = task.shown /\ task'.lost = task.lost
        /\ task'.left = task.left \ {g} /\ task'.group = g /\ task'.on = current
    BY <1>2, <1>3, <1>4, PostedTask
  <1>6. BasketInv'
    BY <1>2 DEF IInv, BasketInv, instances
  <1>7. VarType' /\ HomeInv' /\ AppliedInv'
    BY <1>2, <1>5 DEF IInv, VarType, HomeInv, AppliedInv, Task, instances
  <1>8. ASSUME ~rash' PROVE Careful'
    <2>1. Careful
      BY <1>2, <1>8 DEF IInv
    <2>2. ASSUME ~task.lost, task.kind = "preview", ~task'.error
          PROVE  ShownAt(task'.good, task.items \ (task'.group \cup UNION task'.left), current)
      <3>1. outcome = "ok" /\ ~task.error /\ task.on = current
        BY <1>2, <1>3, <1>5, <2>1, <2>2 DEF Careful, TaskInv
      <3>2. ShownAt(task.good, task.items \ (task.group \cup UNION task.left), current)
        BY <1>2, <2>1, <2>2, <3>1 DEF Careful, TaskInv
      <3>3. task'.good = task.good \cup {<<c, current>> : c \in task.group}
        BY <1>3, <1>5, <3>1
      <3>4. UNION task.left \subseteq task'.group \cup UNION task'.left
        BY <1>5
      <3> QED BY <3>2, <3>3, <3>4 DEF ShownAt
    <2>3. TaskInv'
      BY <1>2, <1>5, <2>1, <2>2 DEF Careful, TaskInv, ShownAt, instances
    <2> QED BY <1>2, <2>1, <2>3 DEF Careful, PreviewInv, OrphanInv, KeptInv, ShownAt, CanRun, instances
  <1> QED BY <1>6, <1>7, <1>8 DEF IInv

(* The last plan of a preview arrives                                        *)
LEMMA PreviewEndsStep ==
  ASSUME IInv, PreviewEnds
  PROVE  IInv'
  <1>1. PICK outcome \in Outcomes(task) :
           results' = [shown |-> Answered(task, outcome).good, error |-> Answered(task, outcome).error,
                       lost |-> Answered(task, outcome).lost]
    BY DEF PreviewEnds
  <1> DEFINE u == Answered(task, outcome)
  <1>2. /\ UNCHANGED <<instances, store, session, items, open, orphan, home, removed, applied, rash, unsaved, stale>>
        /\ \A i : BasketOf(i)' = BasketOf(i)
        /\ task # None /\ Task(task) /\ task.kind = "preview" /\ task.left = {}
        /\ task' = None
    BY SameBaskets DEF PreviewEnds, history, IInv, VarType
  <1>3. /\ Task(u) /\ u.lost = task.lost
        /\ u.good = (IF outcome = "ok" THEN task.good \cup {<<c, task.on>> : c \in task.group} ELSE task.good)
        /\ u.error = (task.error \/ outcome = "error")
        /\ outcome \in {"ok", "error"}
    BY <1>2, AnsweredTask
  <1>4. results' = [shown |-> u.good, error |-> u.error, lost |-> u.lost]
    BY <1>1
  <1> HIDE DEF u
  <1>5. results' \in ResultRecord
    BY <1>3, <1>4 DEF Task, TaskRecord, ResultRecord
  <1>6. BasketInv'
    BY <1>2 DEF IInv, BasketInv, instances
  <1>7. VarType' /\ HomeInv' /\ AppliedInv'
    BY <1>2, <1>5 DEF IInv, VarType, HomeInv, AppliedInv, Task, instances
  <1>8. ASSUME ~rash' PROVE Careful'
    <2>1. Careful
      BY <1>2, <1>8 DEF IInv
    <2>2. ASSUME CanRun', ~results'.lost
          PROVE  ShownAt(results'.shown, items, current)
      <3>1. ~u.error /\ ~u.lost
        BY <1>4, <2>2 DEF CanRun
      <3>2. outcome = "ok" /\ ~task.error /\ ~task.lost
        BY <1>3, <3>1
      <3>3. task.on = current /\ task.items = items
            /\ ShownAt(task.good, task.items \ (task.group \cup UNION task.left), current)
        BY <1>2, <2>1, <3>2 DEF Careful, TaskInv
      <3>4. results'.shown = task.good \cup {<<c, current>> : c \in task.group}
        BY <1>3, <1>4, <3>2, <3>3
      <3> QED BY <1>2, <3>3, <3>4 DEF ShownAt
    <2>3. TaskInv' /\ PreviewInv'
      <3>1. open
        BY <1>2, <2>1 DEF Careful, TaskInv
      <3> QED BY <1>2, <2>2, <3>1 DEF TaskInv, PreviewInv, ShownAt, instances
    <2> QED BY <1>2, <2>1, <2>3 DEF Careful, OrphanInv, KeptInv, ShownAt
  <1> QED BY <1>6, <1>7, <1>8 DEF IInv

(* The last answer of a run arrives: what is applied leaves                  *)
LEMMA RunEndsStep ==
  ASSUME IInv, RunEnds
  PROVE  IInv'
  <1>1. PICK outcome \in Outcomes(task) :
           /\ Persist(task.key, Kept(task, Done(task, outcome)))
           /\ applied' = applied \cup Done(task, outcome)
    BY DEF RunEnds
  <1> DEFINE done == Done(task, outcome)
             next == task.items \ done
  <1>2. /\ UNCHANGED <<current, open, orphan, home, removed, rash>>
        /\ task # None /\ Task(task) /\ task' = None /\ results' = None /\ stage' = "done"
    BY DEF RunEnds, instances, IInv, VarType
  <1>key. PICK k \in Instance : k = task.key
    BY <1>2, DoneItems
  <1>3. done \subseteq task.items /\ task.items \subseteq Change
    BY <1>2, DoneItems
  <1>4. Persist(k, next) /\ applied' = applied \cup done
    BY <1>1, <1>key DEF Kept
  <1> HIDE DEF done
  <1>5. /\ BasketInv' /\ stale' = stale
        /\ BasketOf(k)' = next /\ session'[k] \in {session[k], next}
        /\ \A j \in Instance \ {k} : BasketOf(j)' = BasketOf(j) /\ session'[j] = session[j]
        /\ items' = IF k = current THEN next ELSE BasketOf(current)
    <2>1. BasketInv /\ current' = current /\ next \in SUBSET Change
      BY <1>2, <1>3 DEF IInv
    <2> HIDE DEF next
    <2> QED BY <1>3, <1>4, <2>1, PersistWrites
  <1>6. \A c \in task.items : home[c] = k /\ home[c] # None
    BY <1>2, <1>key, NoneIsNone DEF IInv, HomeInv
  <1>7. VarType'
    BY <1>2, <1>3, <1>4 DEF IInv, VarType, Task
  <1>8. HomeInv'
    <2>1. ASSUME NEW i \in Instance, NEW c \in session'[i] \cup BasketOf(i)' PROVE home[c] = i
      <3>1. CASE i = k
        <4>1. BasketOf(i)' = next /\ session'[i] \in {session[i], next}
          BY <1>5, <3>1
        <4>2. c \in session[i] \cup task.items
          BY <2>1, <4>1
        <4> QED BY <1>6, <3>1, <4>2 DEF IInv, HomeInv
      <3>2. CASE i # k
        BY <1>5, <2>1, <3>2 DEF IInv, HomeInv
      <3> QED BY <3>1, <3>2
    <2>2. \A c \in items' : home[c] = current
      <3>1. CASE k = current
        BY <1>5, <1>6, <3>1
      <3>2. CASE k # current
        <4>1. items' = BasketOf(current)
          BY <1>5, <3>2
        <4>2. \A c \in BasketOf(current) : home[c] = current
          BY DEF IInv, BasketInv, HomeInv, Place, BasketOf
        <4> QED BY <4>1, <4>2
      <3> QED BY <3>1, <3>2
    <2> QED BY <1>2, <1>3, <1>4, <1>6, <2>1, <2>2 DEF IInv, HomeInv
  <1>9. AppliedInv'
    <2>1. \A i \in Instance \ {k} : done \cap BasketOf(i) = {}
      BY <1>3, <1>6 DEF IInv, HomeInv
    <2>2. k \notin stale => applied \cap task.items = {}
      BY <1>2, <1>key DEF IInv, AppliedInv
    <2> QED BY <1>2, <1>4, <1>5, <2>1, <2>2 DEF IInv, AppliedInv
  <1>10. ASSUME ~rash' PROVE Careful'
    <2>1. Careful
      BY <1>2, <1>10 DEF IInv
    <2>2. k \notin stale => task.items = BasketOf(k)
      BY <1>2, <1>key, <2>1 DEF Careful, TaskInv
    <2>3. TaskInv' /\ PreviewInv' /\ OrphanInv'
      BY <1>2, <2>1 DEF Careful, TaskInv, PreviewInv, OrphanInv, ShownAt
    <2>4. KeptInv'
      <3>1. ASSUME NEW i \in Instance \ stale
            PROVE  BasketOf(i)' \cup done = BasketOf(i) \cup done /\ BasketOf(i)' \subseteq BasketOf(i)
        <4>1. CASE i = k
          <5>1. BasketOf(i) = task.items
            BY <2>2, <3>1, <4>1
          <5>2. BasketOf(i)' = next
            BY <1>5, <4>1
          <5> QED BY <1>3, <5>1, <5>2
        <4>2. CASE i # k
          BY <1>5, <3>1, <4>2
        <4> QED BY <4>1, <4>2
      <3> QED BY <1>2, <1>4, <1>5, <2>1, <3>1 DEF Careful, KeptInv
    <2> QED BY <2>3, <2>4 DEF Careful
  <1> QED BY <1>5, <1>7, <1>8, <1>9, <1>10 DEF IInv

-----------------------------------------------------------------------------
(* The provider is mounted anew; a run may be left without its page          *)
LEMMA MountStep ==
  ASSUME IInv, Reload \/ SignOut
  PROVE  IInv'
  <1>1. Mount
    BY DEF Reload, SignOut
  <1>2. /\ current' = None /\ items' = {} /\ open' = FALSE /\ stage' = "edit" /\ results' = None /\ task' = None
        /\ store' = [i \in Instance |-> None]
        /\ stale' = stale \cup unsaved /\ unsaved' = {}
        /\ UNCHANGED <<session, home, removed, applied, rash>>
    BY <1>1 DEF Mount
  <1>3. \A i \in Instance : BasketOf(i)' = session[i] /\ (i \notin stale' => BasketOf(i) = session[i])
    <2>1. \A i \in Instance : BasketOf(i)' = session[i]
      BY <1>2, NoneIsNone DEF BasketOf
    <2>2. \A i \in Instance : i \notin stale' => BasketOf(i) = session[i]
      BY <1>2, NoneIsNone DEF BasketOf, IInv, BasketInv
    <2> QED BY <2>1, <2>2
  <1>4. \/ orphan' = None \/ orphan' = orphan
        \/ task # None /\ task.kind = "run" /\ \E i \in {current, None} : orphan' = [run |-> task, to |-> i]
    <2>1. task # None => task.kind \in {"preview", "run"}
      BY DEF IInv, VarType, Task, TaskRecord
    <2> QED BY <2>1 DEF Reload, SignOut
  <1>5. orphan' # None =>
          \/ orphan' = orphan
          \/ /\ task # None /\ task.kind = "run" /\ orphan'.run = task /\ orphan'.to \in {current, None}
             /\ Task(task) /\ orphan' \in [run : TaskRecord, to : Place]
    <2> SUFFICES ASSUME task # None, task.kind = "run", NEW i \in {current, None},
                        orphan' = [run |-> task, to |-> i]
                 PROVE  /\ orphan'.run = task /\ orphan'.to \in {current, None}
                        /\ Task(task) /\ orphan' \in [run : TaskRecord, to : Place]
      BY <1>4
    <2>1. Task(task) /\ task \in TaskRecord /\ i \in Place
      BY DEF IInv, VarType, BasketInv, Task, Place
    <2> QED BY <2>1
  <1>6. BasketInv'
    <2>1. items' = BasketOf(current)'
      BY <1>2 DEF BasketOf
    <2> QED BY <1>2, <2>1 DEF IInv, BasketInv, Place
  <1>7. VarType'
    <2>1. orphan' # None =>
            Task(orphan'.run) /\ orphan'.run.kind = "run" /\ orphan' \in [run : TaskRecord, to : Place]
      BY <1>5 DEF IInv, VarType
    <2> QED BY <1>2, <2>1 DEF IInv, VarType, Task
  <1>8. HomeInv'
    <2>1. orphan' # None => \A c \in orphan'.run.items : home[c] = orphan'.run.key
      BY <1>5 DEF IInv, HomeInv
    <2> QED BY <1>2, <1>3, <2>1 DEF IInv, HomeInv
  <1>9. AppliedInv'
    BY <1>2, <1>3 DEF IInv, AppliedInv
  <1>10. ASSUME ~rash' PROVE Careful'
    <2>1. Careful
      BY <1>2, <1>10 DEF IInv
    <2>2. TaskInv' /\ PreviewInv'
      BY <1>2 DEF TaskInv, PreviewInv
    <2>3. ASSUME orphan' # None, ~orphan'.run.lost
          PROVE  /\ orphan'.to \in {orphan'.run.key, None} /\ orphan'.run.on \in {orphan'.run.key, None}
                 /\ ShownAt(orphan'.run.shown, orphan'.run.items, orphan'.run.key)
      <3>1. CASE orphan' = orphan
        BY <2>1, <2>3, <3>1 DEF Careful, OrphanInv
      <3>2. CASE orphan' # orphan
        BY <1>5, <2>1, <2>3, <3>2 DEF Careful, TaskInv
      <3> QED BY <3>1, <3>2
    <2>4. OrphanInv'
      BY <2>3 DEF OrphanInv, ShownAt
    <2>5. KeptInv'
      BY <1>2, <1>3, <2>1 DEF Careful, KeptInv
    <2> QED BY <2>2, <2>4, <2>5 DEF Careful
  <1> QED BY <1>6, <1>7, <1>8, <1>9, <1>10 DEF IInv

(* A run whose page is gone posts its next request                           *)
LEMMA OrphanNextStep ==
  ASSUME IInv, OrphanNext
  PROVE  IInv'
  <1>run. PICK w : w = orphan.run
    OBVIOUS
  <1>1. PICK outcome \in Outcomes(w), g \in w.left :
           orphan' = [orphan EXCEPT !.run = Post(Answered(w, outcome), g, orphan.to)]
    BY <1>run DEF OrphanNext
  <1>2. /\ UNCHANGED <<instances, store, session, items, open, stage, results, task, home, removed,
                      applied, rash, unsaved, stale>>
        /\ \A i : BasketOf(i)' = BasketOf(i)
    BY SameBaskets DEF OrphanNext, ui, history
  <1>3. /\ orphan # None /\ Task(orphan.run) /\ orphan.run.kind = "run"
        /\ orphan \in [run : TaskRecord, to : Place]
    BY DEF OrphanNext, IInv, VarType
  <1> DEFINE u == Answered(w, outcome)
             v == Post(u, g, orphan.to)
  <1>4. /\ Task(u) /\ u.kind = "run" /\ u.key = w.key /\ u.items = w.items
        /\ u.left = w.left /\ u.shown = w.shown /\ u.lost = w.lost
    <2>1. Task(w) /\ w.kind = "run"
      BY <1>run, <1>3
    <2>2. /\ Task(u) /\ u.kind = w.kind /\ u.key = w.key /\ u.items = w.items
          /\ u.left = w.left /\ u.shown = w.shown /\ u.lost = w.lost
          /\ u.good = (IF outcome = "ok" THEN w.good \cup {<<c, w.on>> : c \in w.group} ELSE w.good)
          /\ u.error = (w.error \/ outcome = "error")
      BY <2>1, AnsweredTask
    <2> QED BY <2>1, <2>2
  <1>5. orphan' = [orphan EXCEPT !.run = v] /\ g \in u.left /\ orphan.to \in Place
    BY <1>1, <1>3, <1>4
  <1> HIDE DEF u
  <1>6. /\ Task(v) /\ v.kind = "run" /\ v.key = w.key /\ v.items = w.items
        /\ v.shown = w.shown /\ v.lost = w.lost /\ v.on = orphan.to
    BY <1>4, <1>5, PostedTask
  <1> HIDE DEF v
  <1>7. orphan'.run = v /\ orphan'.to = orphan.to /\ orphan' \in [run : TaskRecord, to : Place]
    <2>1. v \in TaskRecord
      BY <1>6 DEF Task
    <2> QED BY <1>3, <1>5, <2>1
  <1>8. BasketInv'
    BY <1>2 DEF IInv, BasketInv, instances
  <1>9. VarType'
    BY <1>2, <1>6, <1>7 DEF IInv, VarType, Task
  <1>10. HomeInv' /\ AppliedInv'
    BY <1>run, <1>2, <1>3, <1>6, <1>7 DEF IInv, HomeInv, AppliedInv, instances
  <1>11. ASSUME ~rash' PROVE Careful'
    <2>1. Careful
      BY <1>2, <1>11 DEF IInv
    <2>2. OrphanInv'
      BY <1>run, <1>3, <1>6, <1>7, <2>1 DEF Careful, OrphanInv, ShownAt
    <2> QED BY <1>2, <2>1, <2>2 DEF Careful, TaskInv, PreviewInv, KeptInv, ShownAt, CanRun, instances
  <1> QED BY <1>8, <1>9, <1>10, <1>11 DEF IInv

(* ... and writes what it kept                                               *)
LEMMA OrphanEndsStep ==
  ASSUME IInv, OrphanEnds
  PROVE  IInv'
  <1>1. /\ UNCHANGED <<instances, store, items, open, stage, results, task, home, removed, applied, rash>>
        /\ orphan # None /\ Task(orphan.run) /\ orphan' = None
    BY DEF OrphanEnds, ui, IInv, VarType
  <1>2. PICK outcome \in Outcomes(orphan.run) :
           LET i == orphan.run.key
               next == Kept(orphan.run, Done(orphan.run, outcome))
           IN  \/ /\ session' = [session EXCEPT ![i] = next]
                  /\ IF store[i] = None
                     THEN stale' = stale \cup {i} /\ UNCHANGED unsaved
                     ELSE unsaved' = unsaved \cup {i} /\ UNCHANGED stale
               \/ UNCHANGED <<session, unsaved, stale>>
    BY DEF OrphanEnds
  <1>3. PICK k \in Instance, next \in SUBSET Change :
           /\ next \subseteq orphan.run.items /\ k = orphan.run.key
           /\ \/ /\ session' = [session EXCEPT ![k] = next]
                 /\ IF store[k] = None
                    THEN stale' = stale \cup {k} /\ UNCHANGED unsaved
                    ELSE unsaved' = unsaved \cup {k} /\ UNCHANGED stale
              \/ UNCHANGED <<session, unsaved, stale>>
    <2>1. orphan.run.key \in Instance /\ orphan.run.items \subseteq Change
      BY <1>1, DoneItems
    <2>2. Kept(orphan.run, Done(orphan.run, outcome)) \subseteq orphan.run.items
      BY DEF Kept
    <2> QED BY <1>2, <2>1, <2>2
  <1>4. \A c \in next : home[c] = k
    BY <1>1, <1>3 DEF IInv, HomeInv
  <1>5. /\ session' \in [Instance -> SUBSET Change]
        /\ stale \subseteq stale' /\ stale' \subseteq Instance /\ unsaved \subseteq unsaved' /\ unsaved' \subseteq Instance
        /\ \A i \in Instance : session'[i] = session[i] \/ (i = k /\ session'[i] = next)
    BY <1>3 DEF IInv, BasketInv
  <1>6. \A i \in Instance :
          \/ BasketOf(i)' = BasketOf(i)
          \/ i = k /\ BasketOf(i)' = next /\ i \in stale'
    <2>1. ASSUME NEW i \in Instance
          PROVE  BasketOf(i)' = BasketOf(i) \/ (i = k /\ BasketOf(i)' = next /\ i \in stale')
      <3>1. CASE session'[i] = session[i] \/ store[i] # None
        BY <1>1, <3>1 DEF BasketOf
      <3>2. CASE session'[i] # session[i] /\ store[i] = None
        <4>1. i = k /\ session'[i] = next /\ i \in stale'
          BY <1>3, <1>5, <3>2
        <4> QED BY <1>1, <3>2, <4>1, NoneIsNone DEF BasketOf
      <3> QED BY <3>1, <3>2
    <2> QED BY <2>1
  <1>7. BasketInv'
    <2>1. items = BasketOf(current)' \/ current \in stale'
      <3>1. CASE current = None
        BY <1>1, <1>5, <3>1 DEF IInv, BasketInv, BasketOf, instances
      <3>2. CASE current \in Instance
        <4> PICK i \in Instance : i = current
          BY <3>2
        <4>1. BasketOf(i)' = BasketOf(i) \/ i \in stale'
          BY <1>6
        <4>2. BasketOf(i)' = BasketOf(current)'
          BY <1>1 DEF instances, BasketOf
        <4> QED BY <1>5, <4>1, <4>2 DEF IInv, BasketInv
      <3> QED BY <3>1, <3>2 DEF IInv, BasketInv, Place
    <2>2. \A i \in Instance : store[i] \in {None, session'[i]} \/ i \in unsaved'
      BY <1>3, <1>5 DEF IInv, BasketInv
    <2> QED BY <1>1, <1>5, <2>1, <2>2 DEF IInv, BasketInv, instances
  <1>8. VarType'
    BY <1>1 DEF IInv, VarType, Task
  <1>9. HomeInv'
    BY <1>1, <1>4, <1>5, <1>6 DEF IInv, HomeInv, instances
  <1>10. \A i \in Instance \ stale' : i \notin stale /\ BasketOf(i)' = BasketOf(i)
    <2>1. ASSUME NEW i \in Instance \ stale' PROVE BasketOf(i)' = BasketOf(i)
      BY <1>6, <2>1
    <2> QED BY <1>5, <2>1
  <1>11. AppliedInv'
    BY <1>1, <1>5, <1>10 DEF IInv, AppliedInv
  <1>12. ASSUME ~rash' PROVE Careful'
    <2>1. Careful
      BY <1>1, <1>12 DEF IInv
    <2>2. TaskInv'
      <3>1. task # None => task.key \in Instance
        BY DEF IInv, VarType, Task, TaskRecord
      <3>2. ASSUME task # None, task.key \notin stale' PROVE task.items = BasketOf(task.key)'
        <4> PICK i \in Instance : i = task.key
          BY <3>1, <3>2
        <4>1. task.items = BasketOf(i) /\ BasketOf(i)' = BasketOf(i)
          BY <1>5, <1>10, <2>1, <3>2 DEF Careful, TaskInv
        <4>2. BasketOf(i)' = BasketOf(task.key)'
          BY <1>1 DEF BasketOf
        <4> QED BY <4>1, <4>2
      <3> QED BY <1>1, <2>1, <3>2 DEF Careful, TaskInv, ShownAt, instances
    <2>3. PreviewInv' /\ OrphanInv'
      BY <1>1, <2>1 DEF Careful, PreviewInv, OrphanInv, ShownAt, CanRun, instances
    <2>4. KeptInv'
      BY <1>1, <1>10, <2>1 DEF Careful, KeptInv
    <2> QED BY <2>2, <2>3, <2>4 DEF Careful
  <1> QED BY <1>7, <1>8, <1>9, <1>11, <1>12 DEF IInv

-----------------------------------------------------------------------------
(* Nothing is pending at first                                               *)
LEMMA InitInv == Init => IInv
  <1> SUFFICES ASSUME Init PROVE IInv
    OBVIOUS
  <1>1. current = None /\ items = {} /\ BasketOf(current) = {}
    BY DEF Init, BasketOf
  <1>2. \A i \in Instance : store[i] = None /\ session[i] = {} /\ BasketOf(i) = {}
    BY DEF Init, BasketOf
  <1>3. BasketInv
    BY <1>1, <1>2 DEF Init, BasketInv, Place
  <1>4. VarType
    BY DEF Init, VarType, Place
  <1>5. HomeInv /\ AppliedInv
    BY <1>1, <1>2 DEF Init, HomeInv, AppliedInv
  <1>6. Careful
    BY <1>2, NoneIsNone DEF Init, Careful, TaskInv, PreviewInv, OrphanInv, KeptInv
  <1> QED BY <1>3, <1>4, <1>5, <1>6 DEF IInv

(* Every step keeps the invariant                                            *)
LEMMA NextInv == IInv /\ [Next]_vars => IInv'
  <1> SUFFICES ASSUME IInv, [Next]_vars PROVE IInv'
    OBVIOUS
  <1>1. CASE UNCHANGED vars
    <2>1. /\ UNCHANGED <<current, store, session, items, open, stage, results, task, orphan, home, removed,
                        applied, rash, unsaved, stale>>
          /\ \A i : BasketOf(i)' = BasketOf(i)
      BY <1>1, SameBaskets DEF vars, history, ui, instances
    <2>2. BasketInv'
      BY <2>1 DEF IInv, BasketInv
    <2>3. VarType' /\ HomeInv' /\ AppliedInv'
      BY <2>1 DEF IInv, VarType, HomeInv, AppliedInv, Task
    <2>4. ASSUME Careful PROVE Careful'
      BY <2>1, <2>4 DEF Careful, TaskInv, PreviewInv, OrphanInv, KeptInv, CanRun, ShownAt
    <2> QED BY <2>1, <2>2, <2>3, <2>4 DEF IInv
  <1>2. CASE Next
    BY <1>2, RefetchStep, SelectStep, AddStep, ModalStep, RemoveStep, PreviewStep, RunNothing, RunStep,
       NextRequestStep, PreviewEndsStep, RunEndsStep, MountStep, OrphanNextStep, OrphanEndsStep DEF Next
  <1> QED BY <1>1, <1>2

(* The invariant holds throughout                                            *)
LEMMA Invariance == Spec => []IInv
  BY InitInv, NextInv, PTL DEF Spec

(* What is pending, the baskets on the screen and in the store alike         *)
LEMMA PendingBasket ==
  ASSUME BasketInv, NEW i \in Instance \ stale
  PROVE  Pending(i) = BasketOf(i)
  BY DEF BasketInv, Pending

-----------------------------------------------------------------------------
(* What a run told its page is applied is never pending again (Basket.tsx:70), *)
(* unless the basket is read where a write had failed or a run of a page that  *)
(* is gone had written.                                                        *)
THEOREM AppliedChangesLeave == Spec => []AppliedLeaves
  <1>1. IInv => AppliedLeaves
    BY PendingBasket DEF IInv, AppliedInv, AppliedLeaves
  <1> QED BY <1>1, Invariance, PTL

(* A reload brings back every basket as it was (BasketProvider.tsx:5), unless *)
(* the last write to sessionStorage failed or was of a run whose page is gone. *)
THEOREM BasketsSurviveReload == Spec => ReloadKeepsBasket
  <1>1. IInv /\ [Next]_vars =>
          [\A i \in Instance \ unsaved :
              store[i] # None /\ store'[i] = None => session'[i] = store[i]]_vars
    <2> SUFFICES ASSUME IInv, Next, NEW i \in Instance \ unsaved, store[i] # None, store'[i] = None
                 PROVE  session'[i] = store[i]
      OBVIOUS
    <2>1. store[i] = session[i]
      BY DEF IInv, BasketInv
    <2>2. ASSUME NEW key \in Instance, NEW next \in SUBSET Change, Persist(key, next)
          PROVE  FALSE
      <3>1. store' = [store EXCEPT ![key] = next] /\ next # None
        BY <2>2, NoneIsNone DEF Persist
      <3> QED BY <3>1 DEF IInv, BasketInv
    <2>3. items \subseteq Change /\ current \in Place /\ UNCHANGED store => FALSE
      BY DEF IInv, BasketInv
    <2>4. ASSUME NEW ops \in SUBSET Change, NEW c \in Change, Add(ops, c) PROVE FALSE
      <3>1. current \in Instance /\ items \cup {c} \in SUBSET Change
        BY <2>4 DEF Add, IInv, BasketInv, Place
      <3> QED BY <2>2, <2>4, <3>1 DEF Add
    <2>5. ASSUME NEW cs \in SUBSET Change, Remove(cs) PROVE FALSE
      <3>1. items \ cs \in SUBSET Change /\ current \in Instance
        BY <2>5 DEF Remove, IInv, BasketInv, BasketOf, Place
      <3> QED BY <2>2, <2>5, <3>1 DEF Remove
    <2>6. ASSUME Run, items = {} PROVE FALSE
      <3>1. Persist(current, {})
        BY <2>6 DEF Run
      <3>2. CASE current \in Instance
        BY <2>2, <3>1, <3>2
      <3>3. CASE current = None
        BY <3>1, <3>3 DEF Persist, baskets
      <3> QED BY <3>2, <3>3 DEF IInv, BasketInv, Place
    <2>7. ASSUME RunEnds PROVE FALSE
      <3>1. PICK outcome \in Outcomes(task) : Persist(task.key, Kept(task, Done(task, outcome)))
        BY <2>7 DEF RunEnds
      <3>2. Task(task)
        BY <2>7 DEF RunEnds, IInv, VarType
      <3>3. task.key \in Instance /\ Kept(task, Done(task, outcome)) \in SUBSET Change
        BY <3>2 DEF Task, TaskRecord, Kept
      <3> QED BY <2>2, <3>1, <3>3
    <2>8. UNCHANGED store => FALSE
      OBVIOUS
    <2>9. CASE Reload \/ SignOut
      BY <2>1, <2>9 DEF Reload, SignOut, Mount
    <2> QED BY <2>4, <2>5, <2>6, <2>7, <2>8, <2>9
            DEF Next, Refetch, Select, Open, Close, Back, Preview, Run, NextRequest, PreviewEnds, baskets,
                OrphanNext, OrphanEnds
  <1> QED BY <1>1, Invariance, PTL DEF Spec, ReloadKeepsBasket

(* The user who waits for handlers to end loses no change: what was added is *)
(* pending until it is removed or applied (Basket.tsx:44-72).                *)
THEOREM CarefulUserLosesNothing == Spec => []CarefulLosesNothing
  <1>1. ASSUME IInv, ~rash, NEW c \in Change, home[c] \notin stale \cup {None}
        PROVE  c \in removed \cup applied \/ c \in Pending(home[c])
    <2> PICK i \in Instance \ stale : home[c] = i
      BY <1>1 DEF IInv, VarType, Place
    <2>1. c \in removed \cup applied \cup BasketOf(i)
      BY <1>1 DEF IInv, Careful, KeptInv
    <2> QED BY <1>1, <2>1, PendingBasket DEF IInv
  <1>2. IInv => CarefulLosesNothing
    BY <1>1 DEF CarefulLosesNothing, NoChangeLost
  <1> QED BY <1>2, Invariance, PTL

(* ... sees nothing come back that was taken out,                            *)
THEOREM CarefulUserRemoves == Spec => []CarefulRemovalStays
  <1>1. IInv => CarefulRemovalStays
    BY PendingBasket DEF IInv, Careful, KeptInv, CarefulRemovalStays
  <1> QED BY <1>1, Invariance, PTL

(* A request of a run is the one of the page or of a page that is gone       *)
LEMMA RunInv ==
  ASSUME IInv, ~rash, NEW t \in Requests, ~t.lost
  PROVE  /\ t.on \in {t.key, None}
         /\ \A c \in t.group : home[c] = t.key /\ <<c, t.key>> \in t.shown
  <1>1. CASE t = task
    <2>1. task # None /\ task.kind = "run" /\ Task(task) /\ Careful
      BY <1>1 DEF Requests, IInv, VarType
    <2>2. task.group \subseteq task.items /\ \A c \in task.items : home[c] = task.key
      BY <2>1 DEF Task, IInv, HomeInv
    <2>3. task.on = task.key /\ ShownAt(task.shown, task.items, task.key)
      BY <1>1, <2>1 DEF Careful, TaskInv
    <2> QED BY <1>1, <2>2, <2>3 DEF ShownAt
  <1>2. CASE orphan # None /\ t = orphan.run
    <2>1. Task(orphan.run) /\ Careful
      BY <1>2 DEF IInv, VarType
    <2>2. orphan.run.group \subseteq orphan.run.items /\ \A c \in orphan.run.items : home[c] = orphan.run.key
      BY <1>2, <2>1 DEF Task, IInv, HomeInv
    <2>3. orphan.run.on \in {orphan.run.key, None} /\ ShownAt(orphan.run.shown, orphan.run.items, orphan.run.key)
      BY <1>2, <2>1 DEF Careful, OrphanInv
    <2> QED BY <1>2, <2>2, <2>3 DEF ShownAt
  <1> QED BY <1>1, <1>2 DEF Requests

(* ... sends each change where it was added, while profiles come and go,     *)
(* unless the page has changed the instance it shows,                        *)
THEOREM CarefulUserHitsInstance == Spec => []CarefulHitsInstance
  <1>1. IInv => CarefulHitsInstance
    BY RunInv DEF CarefulHitsInstance
  <1> QED BY <1>1, Invariance, PTL

(* ... and sends only what the confirmed preview showed (README.md:15), with *)
(* the same exception.                                                       *)
THEOREM CarefulUserAppliesShown == Spec => []CarefulAppliesShown
  <1>1. IInv => CarefulAppliesShown
    <2> SUFFICES ASSUME IInv, ~rash, NEW t \in Requests, ~t.lost, t.on # None, NEW c \in t.group
                 PROVE  <<c, t.on>> \in t.shown
      BY DEF CarefulAppliesShown
    <2>1. t.on = t.key /\ <<c, t.key>> \in t.shown
      BY RunInv
    <2> QED BY <2>1
  <1> QED BY <1>1, Invariance, PTL
====

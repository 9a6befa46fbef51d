----------------------------- MODULE PagesProofs ----------------------------
(***************************************************************************)
(* Proofs about Pages, for any objects, roles, privileges, instances and   *)
(* users, from any catalogs, with any number of changes by others and of   *)
(* forms saved:                                                            *)
(*   - the grant editor and the role form send something exactly when the  *)
(*     user changed something (FormsSendWhatIsTouched);                    *)
(*   - what is applied leaves alone what nobody touched (UntouchedIsKept); *)
(*   - what was saved is what the page shows after it was applied          *)
(*     (SavedChangeIsApplied).                                             *)
(*                                                                         *)
(* A change is made when a form is saved and meets another catalog when it *)
(* is applied.  What a form is worth is therefore said of its change and   *)
(* every catalog (Item): each family of forms proves it of the changes its *)
(* handlers can send (...Saves, ...Presses), the invariant keeps it of the *)
(* basket, and it is used on the catalog a batch has come to.              *)
(***************************************************************************)
EXTENDS Pages, SequenceTheorems, WellFoundedInduction, TLAPS

-----------------------------------------------------------------------------
(* Grants                                                                  *)

(* Only the owner's grant can carry the grant option.                      *)
LEMMA BestIsOwners ==
  ASSUME NEW v \in [Grants!Grantor -> Grants!Level],
         \A r \in Grantee : v[r] # "option"
  PROVE  Grants!Best(v) = "option" <=> v[Owner] = "option"
  BY DEF Grants!Best, Grants!Grantor, Grants!Rows

(* What an operation writes are levels of the owner.                       *)
LEMMA WrittenIs ==
  ASSUME NEW cat \in Grants!Catalog, NEW op
  PROVE  LET new == Grants!Written(cat, op)
         IN  /\ new \in [Grants!Cell -> [Grants!Grantor -> Grants!Level]]
             /\ \A c \in Grants!Cell, r \in Grantee : new[c][r] = cat[c][r]
             /\ \A c \in Grants!Cell \ op.cells : new[c] = cat[c]
             /\ \A c \in Grants!Cell \cap op.cells :
                    new[c][Owner] = Grants!Given(cat[c][Owner], op)
  <1> DEFINE new == Grants!Written(cat, op)
  <1>1. \A c \in Grants!Cell :
           new[c] = IF c \in op.cells
                    THEN [cat[c] EXCEPT ![Owner] = Grants!Given(cat[c][Owner], op)] ELSE cat[c]
    BY DEF Grants!Written
  <1>2. \A c \in Grants!Cell : cat[c] \in [Grants!Grantor -> Grants!Level]
    BY DEF Grants!Catalog
  <1>3. Owner \in Grants!Grantor /\ Owner \notin Grantee /\ Grantee \subseteq Grants!Grantor
    BY PagesConstants DEF Grants!Grantor
  <1>4. \A l \in Grants!Level : Grants!Given(l, op) \in Grants!Level
    BY DEF Grants!Given, Grants!Level
  <1>0. DOMAIN new = Grants!Cell /\ new = [c \in Grants!Cell |-> new[c]]
    BY DEF Grants!Written
  <1> HIDE DEF new
  <1>5. \A c \in Grants!Cell : new[c] \in [Grants!Grantor -> Grants!Level]
    <2> TAKE c \in Grants!Cell
    <2>1. cat[c][Owner] \in Grants!Level
      BY <1>2, <1>3
    <2>2. Grants!Given(cat[c][Owner], op) \in Grants!Level
      BY <1>4, <2>1
    <2> QED BY <1>1, <1>2, <1>3, <2>2
  <1>6. new \in [Grants!Cell -> [Grants!Grantor -> Grants!Level]]
    BY <1>0, <1>5
  <1>7. \A c \in Grants!Cell, r \in Grantee : new[c][r] = cat[c][r]
    BY <1>1, <1>2, <1>3
  <1>8. \A c \in Grants!Cell \cap op.cells : new[c][Owner] = Grants!Given(cat[c][Owner], op)
    BY <1>1, <1>2, <1>3
  <1> QED BY <1>1, <1>6, <1>7, <1>8 DEF new

(* An operation leaves a catalog that is in order.                         *)
LEMMA GrantsEffect ==
  ASSUME NEW cat \in Grants!Catalog, NEW op
  PROVE  Grants!Effect(cat, op) \in Grants!Catalog
  <1> DEFINE new == Grants!Written(cat, op)
             eff == Grants!Effect(cat, op)
  <1>1. /\ new \in [Grants!Cell -> [Grants!Grantor -> Grants!Level]]
        /\ \A c \in Grants!Cell, r \in Grantee : new[c][r] = cat[c][r]
    BY WrittenIs
  <1>2. /\ eff = [c \in Grants!Cell |-> eff[c]]
        /\ \A c \in Grants!Cell : eff[c] =
              [r \in Grants!Grantor |-> IF Grants!Orphan(new, c, r) THEN "none" ELSE new[c][r]]
    BY DEF Grants!Effect
  <1>3. Owner \in Grants!Grantor /\ Owner \notin Grantee /\ Grantee \subseteq Grants!Grantor
    BY PagesConstants DEF Grants!Grantor
  <1>4. \A c \in Grants!Cell, r \in Grantee : cat[c][r] # "option"
    BY DEF Grants!Catalog
  <1> HIDE DEF new, eff
  <1>5. \A c \in Grants!Cell : eff[c] \in [Grants!Grantor -> Grants!Level]
    BY <1>1, <1>2 DEF Grants!Level
  <1>6. \A c \in Grants!Cell, r \in Grantee : eff[c][r] # "option"
    BY <1>1, <1>2, <1>3, <1>4
  <1>7. ASSUME NEW c \in Grants!Cell, NEW r \in Grantee, Grants!Orphan(eff, c, r)
        PROVE  FALSE
    <2> DEFINE d == <<c[1], r, c[3]>>
    <2>1. c \in Grants!ObjectCell /\ eff[c][r] # "none" /\ Grants!Best(eff[d]) # "option"
      BY <1>7 DEF Grants!Orphan
    <2>2. d \in Grants!Cell
      BY <2>1 DEF Grants!ObjectCell, Grants!Cell
    <2>3. ~Grants!Orphan(new, c, r) /\ new[c][r] # "none"
      BY <1>2, <1>3, <2>1
    <2>4. Grants!Best(new[d]) = "option"
      BY <2>1, <2>3 DEF Grants!Orphan
    <2>5. new[d][Owner] = "option"
      BY <1>1, <1>4, <2>2, <2>4, BestIsOwners
    <2>6. eff[d][Owner] = "option"
      BY <1>2, <1>3, <2>2, <2>5 DEF Grants!Orphan
    <2> QED BY <1>5, <1>6, <2>1, <2>2, <2>6, BestIsOwners
  <1>8. eff \in [Grants!Cell -> [Grants!Grantor -> Grants!Level]]
    BY <1>2, <1>5
  <1> QED BY <1>6, <1>7, <1>8 DEF eff, Grants!Catalog

(* So do the others, whose grants nobody depends on.                       *)
LEMMA GrantsForeign ==
  ASSUME NEW cat \in Grants!Catalog, NEW new \in Grants!Foreign(cat)
  PROVE  new \in Grants!Catalog
  <1>1. \/ \E op : new = Grants!Effect(cat, op)
        \/ \E y \in Grants!ObjectCell \X Grantee :
              /\ new = [cat EXCEPT ![y[1]][y[2]] = "plain"]
              /\ Grants!Best(cat[<<y[1][1], y[2], y[1][3]>>]) = "option"
    <2>1. CASE new \in {Grants!Effect(cat, op) : op \in Grants!Commands}
      BY <2>1
    <2>2. CASE new \in {[cat EXCEPT ![x[1]][x[2]] = "plain"] : x \in Grants!Regrants(cat)}
      <3>1. PICK x \in Grants!Regrants(cat) : new = [cat EXCEPT ![x[1]][x[2]] = "plain"]
        BY <2>2
      <3> QED BY <3>1 DEF Grants!Regrants
    <2> QED BY <2>1, <2>2 DEF Grants!Foreign
  <1>2. CASE \E op : new = Grants!Effect(cat, op)
    BY <1>2, GrantsEffect
  <1>3. ASSUME NEW c \in Grants!ObjectCell, NEW r \in Grantee,
               new = [cat EXCEPT ![c][r] = "plain"],
               Grants!Best(cat[<<c[1], r, c[3]>>]) = "option"
        PROVE  new \in Grants!Catalog
    <2>1. /\ cat \in [Grants!Cell -> [Grants!Grantor -> Grants!Level]]
          /\ \A b \in Grants!Cell, q \in Grantee : cat[b][q] # "option" /\ ~Grants!Orphan(cat, b, q)
      BY DEF Grants!Catalog
    <2>2. Owner \in Grants!Grantor /\ Owner \notin Grantee /\ Grantee \subseteq Grants!Grantor
      BY PagesConstants DEF Grants!Grantor
    <2>3. c \in Grants!Cell
      BY DEF Grants!Cell
    <2>4. /\ new \in [Grants!Cell -> [Grants!Grantor -> Grants!Level]]
          /\ \A b \in Grants!Cell, q \in Grants!Grantor :
                new[b][q] = IF b = c /\ q = r THEN "plain" ELSE cat[b][q]
      <3>1. "plain" \in Grants!Level
        BY DEF Grants!Level
      <3> QED BY <1>3, <2>1, <2>2, <2>3, <3>1
    <2>5. \A b \in Grants!Cell, q \in Grantee : new[b][q] # "option"
      BY <2>1, <2>2, <2>4
    <2>6. ASSUME NEW b \in Grants!Cell, NEW q \in Grantee, Grants!Orphan(new, b, q)
          PROVE  FALSE
      <3> DEFINE d == <<b[1], q, b[3]>>
      <3>1. b \in Grants!ObjectCell /\ new[b][q] # "none" /\ Grants!Best(new[d]) # "option"
        BY <2>6 DEF Grants!Orphan
      <3>2. d \in Grants!Cell
        BY <3>1 DEF Grants!ObjectCell, Grants!Cell
      <3>3. cat[d][Owner] # "option"
        BY <2>2, <2>4, <2>5, <3>1, <3>2, BestIsOwners
      <3>4. Grants!Best(cat[d]) # "option"
        BY <2>1, <3>2, <3>3, BestIsOwners
      <3>5. CASE b = c /\ q = r
        BY <1>3, <3>4, <3>5
      <3>6. CASE ~(b = c /\ q = r)
        <4>1. cat[b][q] # "none"
          BY <2>2, <2>4, <3>1, <3>6
        <4> QED BY <2>1, <3>1, <3>4, <4>1 DEF Grants!Orphan
      <3> QED BY <3>5, <3>6
    <2> QED BY <2>4, <2>5, <2>6 DEF Grants!Catalog
  <1>4. CASE \E y \in Grants!ObjectCell \X Grantee :
               /\ new = [cat EXCEPT ![y[1]][y[2]] = "plain"]
               /\ Grants!Best(cat[<<y[1][1], y[2], y[1][3]>>]) = "option"
    BY <1>3, <1>4
  <1> QED BY <1>1, <1>2, <1>4

(* What the grant editor holds.                                            *)
EditorDraft ==
    [editor : {"GrantEditor"}, object : Object, grantee : Grantee \cup {None},
     selected : SUBSET Privilege, option : BOOLEAN, cascade : BOOLEAN, mode : {"grant"},
     scope : {"any"}, listed : SUBSET Privilege, last : Grants!Grantor]

(* With grants of the owner alone, the level the editor shows is his.      *)
LEMMA SoleExisting ==
  ASSUME NEW from \in Grants!Catalog, NEW d \in EditorDraft, d.grantee # None,
         Grants!Direct(from, d), NEW p \in Privilege
  PROVE  LET v == Grants!ValueOf(from, d, p)
         IN  /\ Grants!Existing(from, d, p) = v[Owner]
             /\ v[Owner] \in Grants!Level
             /\ \A r \in Grants!Grantor : v[r] # "none" => r = Owner
  <1> DEFINE v == Grants!ValueOf(from, d, p)
  <1>1. v \in [Grants!Grantor -> Grants!Level]
    <2>1. <<d.object, d.grantee, p>> \in Grants!Cell
      BY DEF EditorDraft, Grants!Cell, Grants!ObjectCell
    <2> QED BY <2>1 DEF Grants!Catalog, Grants!ValueOf
  <1>2. Grants!Rows(v) \subseteq {Owner}
    <2>1. d.editor = "GrantEditor"
      BY DEF EditorDraft
    <2> QED BY <2>1 DEF Grants!Direct, Grants!Sole
  <1>3. Owner \in Grants!Grantor /\ d.last \in Grants!Grantor
    BY DEF EditorDraft, Grants!Grantor
  <1>4. Grants!Existing(from, d, p) = IF Grants!Rows(v) = {} THEN "none"
                                     ELSE IF v[d.last] # "none" THEN v[d.last]
                                     ELSE v[CHOOSE r \in Grants!Rows(v) : TRUE]
    BY DEF Grants!Existing
  <1> HIDE DEF v
  <1>5. \A r \in Grants!Grantor : v[r] # "none" <=> r \in Grants!Rows(v)
    BY DEF Grants!Rows
  <1>6. CASE Grants!Rows(v) = {}
    BY <1>1, <1>3, <1>4, <1>5, <1>6 DEF v
  <1>7. CASE Grants!Rows(v) = {Owner}
    <2>1. (CHOOSE r \in Grants!Rows(v) : TRUE) = Owner
      BY <1>7
    <2>2. v[d.last] # "none" => d.last = Owner
      BY <1>3, <1>5, <1>7
    <2> QED BY <1>1, <1>3, <1>4, <1>5, <1>7, <2>1, <2>2 DEF v
  <1> QED BY <1>2, <1>6, <1>7

(* So the editor opens with the ticks of what the grantee holds, and with  *)
(* the option exactly if he holds all of it with the grant option.         *)
LEMMA SoleLoaded ==
  ASSUME NEW from \in Grants!Catalog, NEW d \in EditorDraft, d.grantee # None,
         Grants!Direct(from, d)
  PROVE  LET first == Grants!Loaded(from, d)
         IN  /\ first \in EditorDraft /\ Grants!Direct(from, first)
             /\ first.object = d.object /\ first.grantee = d.grantee
             /\ first.listed = d.listed /\ first.last = d.last
             /\ first.selected = Grants!Held(from, d)
             /\ first.option = Grants!AllGrantable(from, d)
  <1> DEFINE rows == {x \in Privilege \X Grants!Grantor : Grants!ValueOf(from, d, x[1])[x[2]] # "none"}
             first == Grants!Loaded(from, d)
  <1>1. d.editor = "GrantEditor" /\ [d EXCEPT !.grantee = d.grantee] = d
    BY DEF EditorDraft
  <1>2. first = [d EXCEPT !.selected = {x[1] : x \in rows},
                          !.option = rows # {} /\ \A x \in rows : Grants!ValueOf(from, d, x[1])[x[2]] = "option"]
    BY <1>1 DEF Grants!Loaded, Grants!PickGrantee
  <1>3. \A p \in Privilege : /\ Grants!Existing(from, d, p) = Grants!ValueOf(from, d, p)[Owner]
                             /\ \A r \in Grants!Grantor : Grants!ValueOf(from, d, p)[r] # "none" => r = Owner
    BY SoleExisting
  <1>4. \A x \in rows : x[1] \in Grants!Held(from, d) /\ x[2] = Owner
    BY <1>3 DEF Grants!Held
  <1>5. \A p \in Grants!Held(from, d) : <<p, Owner>> \in rows
    BY <1>3 DEF Grants!Held, Grants!Grantor
  <1> HIDE DEF rows, first
  <1>6. {x[1] : x \in rows} = Grants!Held(from, d)
    <2>1. \A p \in Grants!Held(from, d) : \E x \in rows : p = x[1]
      BY <1>5
    <2> QED BY <1>4, <2>1
  <1>7. (rows # {} /\ \A x \in rows : Grants!ValueOf(from, d, x[1])[x[2]] = "option")
           = Grants!AllGrantable(from, d)
    <2>1. rows # {} <=> Grants!Held(from, d) # {}
      BY <1>4, <1>5
    <2>2. ASSUME \A x \in rows : Grants!ValueOf(from, d, x[1])[x[2]] = "option",
                 NEW p \in Grants!Held(from, d)
          PROVE  Grants!Existing(from, d, p) = "option"
      <3>1. <<p, Owner>> \in rows /\ p \in Privilege
        BY <1>5 DEF Grants!Held
      <3>2. Grants!ValueOf(from, d, p)[Owner] = "option"
        BY <2>2, <3>1
      <3> QED BY <1>3, <3>1, <3>2
    <2>3. ASSUME \A p \in Grants!Held(from, d) : Grants!Existing(from, d, p) = "option",
                 NEW x \in rows
          PROVE  Grants!ValueOf(from, d, x[1])[x[2]] = "option"
      <3>1. x[1] \in Grants!Held(from, d) /\ x[2] = Owner /\ x[1] \in Privilege
        BY <1>4 DEF Grants!Held
      <3> QED BY <1>3, <2>3, <3>1
    <2> QED BY <2>1, <2>2, <2>3 DEF Grants!AllGrantable
  <1>8. first = [d EXCEPT !.selected = Grants!Held(from, d), !.option = Grants!AllGrantable(from, d)]
    BY <1>2, <1>6, <1>7
  <1>9. Grants!Held(from, d) \subseteq Privilege /\ Grants!AllGrantable(from, d) \in BOOLEAN
    BY DEF Grants!Held, Grants!AllGrantable
  <1>10. /\ first \in EditorDraft
         /\ first.object = d.object /\ first.grantee = d.grantee
         /\ first.listed = d.listed /\ first.last = d.last
         /\ first.selected = Grants!Held(from, d)
         /\ first.option = Grants!AllGrantable(from, d)
    BY <1>8, <1>9 DEF EditorDraft
  <1>11. Grants!Direct(from, first)
    BY <1>10 DEF Grants!Direct, Grants!ValueOf, EditorDraft
  <1> QED BY <1>10, <1>11 DEF first

(* The privileges the editor grants, takes the option from, and revokes.   *)
Gains(from, d) ==
    {p \in d.listed \cap d.selected : Grants!Existing(from, d, p) = "none"}
    \cup {p \in Grants!Kept(from, d) : d.option /\ Grants!Existing(from, d, p) = "plain"}
Narrows(from, d) == {p \in Grants!Kept(from, d) : ~d.option /\ Grants!Existing(from, d, p) = "option"}
Loses(from, d) == {p \in d.listed \ d.selected : Grants!Existing(from, d, p) # "none"}
EditorCells(d, ps) == {d.object} \X {d.grantee} \X ps

(* Those are the privileges of which it asks for another level than the    *)
(* one it shows.                                                           *)
LEMMA AskedDiffers ==
  ASSUME NEW from \in Grants!Catalog, NEW d \in EditorDraft, d.grantee # None,
         Grants!Direct(from, d), NEW p \in d.listed
  PROVE  Grants!Asked(from, d, p) # Grants!Existing(from, d, p)
            <=> p \in Gains(from, d) \cup Narrows(from, d) \cup Loses(from, d)
  <1>1. p \in Privilege /\ d.option \in BOOLEAN
    BY DEF EditorDraft
  <1>2. Grants!Existing(from, d, p) \in {"none", "plain", "option"}
    BY <1>1, SoleExisting DEF Grants!Level
  <1>3. Grants!Loaded(from, d).option = Grants!AllGrantable(from, d)
    BY SoleLoaded
  <1>4. Grants!AllGrantable(from, d) \in BOOLEAN
    BY DEF Grants!AllGrantable
  <1>5. p \in Grants!Kept(from, d)
           <=> /\ d.option # Grants!AllGrantable(from, d)
               /\ p \in d.selected /\ Grants!Existing(from, d, p) # "none"
    BY DEF Grants!Kept
  <1> QED BY <1>1, <1>2, <1>3, <1>4, <1>5 DEF Grants!Asked, Gains, Narrows, Loses

(* An editor nobody touched asks for what it shows.                        *)
LEMMA AskedFirst ==
  ASSUME NEW from \in Grants!Catalog, NEW d \in EditorDraft, d.grantee # None,
         Grants!Direct(from, d), NEW p \in d.listed
  PROVE  Grants!Asked(from, Grants!Loaded(from, d), p) = Grants!Existing(from, d, p)
  <1> DEFINE first == Grants!Loaded(from, d)
  <1>1. /\ first \in EditorDraft /\ Grants!Direct(from, first)
        /\ first.object = d.object /\ first.grantee = d.grantee
        /\ first.listed = d.listed /\ first.last = d.last
        /\ first.selected = Grants!Held(from, d)
        /\ first.option = Grants!AllGrantable(from, d)
    BY SoleLoaded
  <1> HIDE DEF first
  <1>2. \A q \in Privilege : Grants!Existing(from, first, q) = Grants!Existing(from, d, q)
    BY <1>1 DEF Grants!Existing, Grants!ValueOf
  <1>3. Grants!Held(from, first) = Grants!Held(from, d)
    BY <1>2 DEF Grants!Held
  <1>4. Grants!AllGrantable(from, first) = Grants!AllGrantable(from, d)
    <2>1. Grants!Held(from, d) \subseteq Privilege
      BY DEF Grants!Held
    <2> QED BY <1>2, <1>3, <2>1 DEF Grants!AllGrantable
  <1>5. Grants!Loaded(from, first).option = first.option
    BY <1>1, <1>4, SoleLoaded
  <1>6. p \in Privilege
    BY DEF EditorDraft
  <1>7. p \in first.selected <=> Grants!Existing(from, d, p) # "none"
    BY <1>1, <1>6 DEF Grants!Held
  <1> QED BY <1>2, <1>5, <1>6, <1>7 DEF Grants!Asked, first

(* What the user touched in it.                                            *)
LEMMA EditorTouched ==
  ASSUME NEW from \in Grants!Catalog, NEW d \in EditorDraft, d.grantee # None,
         Grants!Direct(from, d), page = "grants"
  PROVE  Touched(from, d) = EditorCells(d, Gains(from, d) \cup Narrows(from, d) \cup Loses(from, d))
  <1> DEFINE first == Grants!Loaded(from, d)
             now == Grants!Asks(from, d)
             then == Grants!Asks(from, first)
             differs == Gains(from, d) \cup Narrows(from, d) \cup Loses(from, d)
  <1>1. d.editor = "GrantEditor"
    BY DEF EditorDraft
  <1>2. /\ first \in EditorDraft /\ first.editor = "GrantEditor"
        /\ first.object = d.object /\ first.grantee = d.grantee /\ first.listed = d.listed
    BY SoleLoaded DEF EditorDraft
  <1>3. now = [c \in EditorCells(d, d.listed) |-> {Grants!Asked(from, d, c[3])}]
    BY <1>1 DEF Grants!Asks, EditorCells
  <1> HIDE DEF first
  <1>4. then = [c \in EditorCells(d, d.listed) |-> {Grants!Asked(from, first, c[3])}]
    BY <1>2 DEF Grants!Asks, EditorCells
  <1>5. Touched(from, d) = {c \in DOMAIN now : c \notin DOMAIN then \/ then[c] # now[c]}
    BY DEF Touched, Asks, Loaded, ForPage, first
  <1> HIDE DEF now, then
  <1>6. ASSUME NEW c \in EditorCells(d, d.listed)
        PROVE  c \in Touched(from, d) <=> c[3] \in differs
    <2>1. c[3] \in d.listed
      BY DEF EditorCells
    <2>2. now[c] = {Grants!Asked(from, d, c[3])} /\ then[c] = {Grants!Existing(from, d, c[3])}
      BY <1>3, <1>4, <2>1, AskedFirst DEF first
    <2>3. c \in DOMAIN now /\ c \in DOMAIN then
      BY <1>3, <1>4
    <2>4. then[c] # now[c] <=> Grants!Asked(from, d, c[3]) # Grants!Existing(from, d, c[3])
      BY <2>2
    <2> QED BY <1>5, <2>1, <2>3, <2>4, AskedDiffers
  <1>7. differs \subseteq d.listed
    BY DEF Gains, Narrows, Loses, Grants!Kept
  <1>8. Touched(from, d) \subseteq EditorCells(d, d.listed)
    BY <1>3, <1>5
  <1>9. \A c \in EditorCells(d, d.listed) : c[3] \in differs <=> c \in EditorCells(d, differs)
    BY DEF EditorCells
  <1>10. EditorCells(d, differs) \subseteq EditorCells(d, d.listed)
    BY <1>7 DEF EditorCells
  <1> HIDE DEF differs
  <1>11. Touched(from, d) = EditorCells(d, differs)
    BY <1>6, <1>8, <1>9, <1>10
  <1> QED BY <1>11 DEF differs

(* The operations of the editor are for those privileges, and there is     *)
(* none without one.                                                       *)
LEMMA EditorSends ==
  ASSUME NEW from, NEW d
  PROVE  LET g == Gains(from, d)  n == Narrows(from, d)  l == Loses(from, d)
             ops == Grants!EditorOps(from, d, Grants!Kept(from, d))
         IN  /\ ops = <<>> <=> g = {} /\ n = {} /\ l = {}
             /\ ops # <<>> =>
                  /\ Len(ops) \in Nat \ {0}
                  /\ ops[Len(ops)] \in {Grants!Grant(EditorCells(d, g), d.option),
                                        Grants!Revoke(EditorCells(d, n), TRUE, d.cascade),
                                        Grants!Revoke(EditorCells(d, l), FALSE, d.cascade)}
             /\ Len(ops) = 1 =>
                  \/ g # {} /\ n = {} /\ l = {} /\ ops = <<Grants!Grant(EditorCells(d, g), d.option)>>
                  \/ g = {} /\ n # {} /\ l = {} /\ ops = <<Grants!Revoke(EditorCells(d, n), TRUE, d.cascade)>>
                  \/ g = {} /\ n = {} /\ l # {} /\ ops = <<Grants!Revoke(EditorCells(d, l), FALSE, d.cascade)>>
  <1> DEFINE g == Gains(from, d)
             n == Narrows(from, d)
             l == Loses(from, d)
             G == Grants!Grant(EditorCells(d, g), d.option)
             M == Grants!Revoke(EditorCells(d, n), TRUE, d.cascade)
             L == Grants!Revoke(EditorCells(d, l), FALSE, d.cascade)
             ops == Grants!EditorOps(from, d, Grants!Kept(from, d))
  <1>1. ops = (IF g # {} THEN <<G>> ELSE <<>>) \o (IF n # {} THEN <<M>> ELSE <<>>)
                 \o (IF l # {} THEN <<L>> ELSE <<>>)
    BY DEF Grants!EditorOps, Gains, Narrows, Loses, EditorCells
  <1> HIDE DEF g, n, l, G, M, L, ops
  <1>2. ops = <<>> <=> g = {} /\ n = {} /\ l = {}
    BY <1>1
  <1>3. ops # <<>> => Len(ops) \in Nat \ {0} /\ ops[Len(ops)] \in {G, M, L}
    BY <1>1
  <1>4. Len(ops) = 1 => \/ g # {} /\ n = {} /\ l = {} /\ ops = <<G>>
                        \/ g = {} /\ n # {} /\ l = {} /\ ops = <<M>>
                        \/ g = {} /\ n = {} /\ l # {} /\ ops = <<L>>
    <2>1. ~(g = {} /\ n = {} /\ l = {}) \/ Len(ops) # 1
      BY <1>1
    <2>2. /\ g # {} /\ n # {} => Len(ops) # 1
          /\ g # {} /\ l # {} => Len(ops) # 1
          /\ n # {} /\ l # {} => Len(ops) # 1
      <3>1. CASE g # {} /\ n # {} /\ l = {}
        BY <1>1, <3>1
      <3>2. CASE g # {} /\ n = {} /\ l # {}
        BY <1>1, <3>2
      <3>3. CASE g = {} /\ n # {} /\ l # {}
        BY <1>1, <3>3
      <3>4. CASE g # {} /\ n # {} /\ l # {}
        BY <1>1, <3>4
      <3> QED BY <3>1, <3>2, <3>3, <3>4
    <2>3. CASE g # {} /\ n = {} /\ l = {}
      BY <1>1, <2>3
    <2>4. CASE g = {} /\ n # {} /\ l = {}
      BY <1>1, <2>4
    <2>5. CASE g = {} /\ n = {} /\ l # {}
      BY <1>1, <2>5
    <2> QED BY <2>1, <2>2, <2>3, <2>4, <2>5
  <1> QED BY <1>2, <1>3, <1>4 DEF g, n, l, G, M, L, ops

-----------------------------------------------------------------------------
(* Roles                                                                   *)

Attr(role, f) == <<"attr", role, f>>

(* The attributes a form about a role shows, and the level of each.        *)
LEMMA AttrsShown ==
  ASSUME NEW d, NEW role
  PROVE  LET asks == Roles!AsksAttrs(d, role)
         IN  /\ \A c \in DOMAIN asks : \E f \in {"login", "connlimit", "password"} : c = Attr(role, f)
             /\ Attr(role, "login") \in DOMAIN asks
             /\ Attr(role, "connlimit") \in DOMAIN asks <=> d.connlimit # ""
             /\ Attr(role, "password") \in DOMAIN asks <=> d.clear \/ d.typed
             /\ asks[Attr(role, "login")] = {d.login}
             /\ d.connlimit # "" => asks[Attr(role, "connlimit")] = {d.connlimit}
             /\ d.clear \/ d.typed =>
                  asks[Attr(role, "password")] = {IF d.clear THEN "none" ELSE "new"}
  <1> DEFINE shown == {<<"login", d.login>>} \cup Roles!Password(d)
                         \cup (IF d.connlimit = "" THEN {} ELSE {<<"connlimit", d.connlimit>>})
             F == {"login"} \cup (IF d.connlimit = "" THEN {} ELSE {"connlimit"})
                     \cup (IF d.clear \/ d.typed THEN {"password"} ELSE {})
             asks == Roles!AsksAttrs(d, role)
  <1>1. asks = [c \in {<<"attr", role, x[1]>> : x \in shown} |-> {(CHOOSE x \in shown : x[1] = c[3])[2]}]
    BY DEF Roles!AsksAttrs
  <1>2. /\ \A x \in shown : \/ x = <<"login", d.login>>
                            \/ x = <<"connlimit", d.connlimit>> /\ d.connlimit # ""
                            \/ x = <<"password", "none">> /\ d.clear
                            \/ x = <<"password", "new">> /\ ~d.clear /\ d.typed
        /\ <<"login", d.login>> \in shown
        /\ d.connlimit # "" => <<"connlimit", d.connlimit>> \in shown
        /\ d.clear => <<"password", "none">> \in shown
        /\ ~d.clear /\ d.typed => <<"password", "new">> \in shown
    BY DEF Roles!Password
  <1> HIDE DEF shown, asks
  <1>0. \A x \in shown : /\ x[1] = "login" => x = <<"login", d.login>>
                         /\ x[1] = "connlimit" => x = <<"connlimit", d.connlimit>> /\ d.connlimit # ""
                         /\ x[1] = "password" => \/ x = <<"password", "none">> /\ d.clear
                                                 \/ x = <<"password", "new">> /\ ~d.clear /\ d.typed
                         /\ x[1] \in {"login", "connlimit", "password"}
    <2> TAKE x \in shown
    <2>1. CASE x = <<"login", d.login>>
      BY <2>1
    <2>2. CASE x = <<"connlimit", d.connlimit>> /\ d.connlimit # ""
      BY <2>2
    <2>3. CASE x = <<"password", "none">> /\ d.clear
      BY <2>3
    <2>4. CASE x = <<"password", "new">> /\ ~d.clear /\ d.typed
      BY <2>4
    <2> QED BY <1>2, <2>1, <2>2, <2>3, <2>4
  <1>3. ASSUME NEW y \in shown
        PROVE  /\ Attr(role, y[1]) \in DOMAIN asks
               /\ asks[Attr(role, y[1])] = {y[2]}
    <2> DEFINE c == Attr(role, y[1])
    <2>1. c = <<"attr", role, y[1]>> /\ c[3] = y[1]
      BY DEF Attr
    <2>2. c \in {<<"attr", role, x[1]>> : x \in shown}
      BY <2>1
    <2>3. (CHOOSE x \in shown : x[1] = y[1]) = y
      <3>1. \A x \in shown : x[1] = y[1] => x = y
        <4>1. CASE y[1] = "login"
          BY <1>0, <4>1
        <4>2. CASE y[1] = "connlimit"
          BY <1>0, <4>2
        <4>3. CASE y[1] = "password"
          BY <1>0, <4>3
        <4> QED BY <1>0, <4>1, <4>2, <4>3
      <3> QED BY <3>1
    <2> HIDE DEF c
    <2> QED BY <1>1, <2>1, <2>2, <2>3 DEF c
  <1>4. ASSUME NEW c \in DOMAIN asks
        PROVE  \E f \in F : c = Attr(role, f)
    <2>1. PICK x \in shown : c = <<"attr", role, x[1]>>
      BY <1>1
    <2>2. x[1] \in F
      BY <1>0
    <2> QED BY <2>1, <2>2 DEF Attr
  <1>5. ASSUME NEW f \in F
        PROVE  \E x \in shown : f = x[1]
    BY <1>2
  <1>6. \A f \in {"login", "connlimit", "password"} : Attr(role, f) \in DOMAIN asks <=> f \in F
    <2>1. \A f \in F : Attr(role, f) \in DOMAIN asks
      <3> HIDE DEF F
      <3> QED BY <1>3, <1>5
    <2>2. \A f, h : Attr(role, f) = Attr(role, h) => f = h
      BY DEF Attr
    <2> HIDE DEF F
    <2> QED BY <1>4, <2>1, <2>2
  <1>10. \A c \in DOMAIN asks : \E f \in {"login", "connlimit", "password"} : c = Attr(role, f)
    BY <1>4
  <1>7. asks[Attr(role, "login")] = {d.login}
    BY <1>2, <1>3
  <1>8. ASSUME d.connlimit # "" PROVE asks[Attr(role, "connlimit")] = {d.connlimit}
    BY <1>2, <1>3, <1>8
  <1>9. ASSUME d.clear \/ d.typed PROVE asks[Attr(role, "password")] = {IF d.clear THEN "none" ELSE "new"}
    BY <1>2, <1>3, <1>9
  <1> QED BY <1>6, <1>7, <1>8, <1>9, <1>10 DEF asks

(* The attributes it sends, and the value of each.                         *)
SentIs(from, d, role) ==
    LET sets == Roles!Attrs(from, d, role)
    IN  /\ \A c \in DOMAIN sets : \E f \in {"login", "connlimit", "password"} : c = Attr(role, f)
        /\ Attr(role, "login") \in DOMAIN sets <=> d.role = None \/ from[Attr(d.role, "login")] # d.login
        /\ Attr(role, "connlimit") \in DOMAIN sets
             <=> ~(\/ d.connlimit \in {"", Roles!Fraction}
                   \/ d.role = None /\ d.connlimit = "-1"
                   \/ d.role # None /\ from[Attr(d.role, "connlimit")] = d.connlimit)
        /\ Attr(role, "password") \in DOMAIN sets <=> d.clear \/ d.typed
        /\ Attr(role, "login") \in DOMAIN sets => sets[Attr(role, "login")] = d.login
        /\ Attr(role, "connlimit") \in DOMAIN sets => sets[Attr(role, "connlimit")] = d.connlimit
        /\ Attr(role, "password") \in DOMAIN sets =>
             sets[Attr(role, "password")] = IF d.clear THEN "none" ELSE "new"

LEMMA AttrsSent ==
  ASSUME NEW from, NEW d, NEW role
  PROVE  SentIs(from, d, role)
  <1> DEFINE pairs == Roles!Login(from, d) \cup Roles!Limit(from, d) \cup Roles!Password(d)
             sets == Roles!Attrs(from, d, role)
             login == d.role = None \/ from[Attr(d.role, "login")] # d.login
             limit == ~(\/ d.connlimit \in {"", Roles!Fraction}
                        \/ d.role = None /\ d.connlimit = "-1"
                        \/ d.role # None /\ from[Attr(d.role, "connlimit")] = d.connlimit)
             F == (IF login THEN {"login"} ELSE {}) \cup (IF limit THEN {"connlimit"} ELSE {})
                    \cup (IF d.clear \/ d.typed THEN {"password"} ELSE {})
  <1>1. sets = [c \in {<<"attr", role, x[1]>> : x \in pairs} |-> (CHOOSE x \in pairs : x[1] = c[3])[2]]
    BY DEF Roles!Attrs
  <1>2. /\ \A x \in pairs : \/ x = <<"login", d.login>> /\ login
                            \/ x = <<"connlimit", d.connlimit>> /\ limit
                            \/ x = <<"password", "none">> /\ d.clear
                            \/ x = <<"password", "new">> /\ ~d.clear /\ d.typed
        /\ login => <<"login", d.login>> \in pairs
        /\ limit => <<"connlimit", d.connlimit>> \in pairs
        /\ d.clear => <<"password", "none">> \in pairs
        /\ ~d.clear /\ d.typed => <<"password", "new">> \in pairs
    BY DEF Roles!Password, Roles!Login, Roles!Limit, Attr
  <1> HIDE DEF pairs, sets, login, limit
  <1>3. ASSUME NEW y \in pairs
        PROVE  /\ Attr(role, y[1]) \in DOMAIN sets
               /\ sets[Attr(role, y[1])] = y[2]
    <2> DEFINE c == Attr(role, y[1])
    <2>1. c = <<"attr", role, y[1]>> /\ c[3] = y[1]
      BY DEF Attr
    <2>2. c \in {<<"attr", role, x[1]>> : x \in pairs}
      BY <2>1
    <2>3. (CHOOSE x \in pairs : x[1] = y[1]) = y
      <3>1. \A x \in pairs : x[1] = y[1] => x = y
        BY <1>2
      <3> QED BY <3>1
    <2> HIDE DEF c
    <2> QED BY <1>1, <2>1, <2>2, <2>3 DEF c
  <1>4. ASSUME NEW c \in DOMAIN sets
        PROVE  \E f \in F : c = Attr(role, f)
    <2>1. PICK x \in pairs : c = <<"attr", role, x[1]>>
      BY <1>1
    <2>2. x[1] \in F
      BY <1>2
    <2> QED BY <2>1, <2>2 DEF Attr
  <1>5. ASSUME NEW f \in F
        PROVE  \E x \in pairs : f = x[1]
    BY <1>2
  <1>6. \A f \in {"login", "connlimit", "password"} : Attr(role, f) \in DOMAIN sets <=> f \in F
    <2>1. \A f \in F : Attr(role, f) \in DOMAIN sets
      <3> HIDE DEF F
      <3> QED BY <1>3, <1>5
    <2>2. \A f, h : Attr(role, f) = Attr(role, h) => f = h
      BY DEF Attr
    <2> HIDE DEF F
    <2> QED BY <1>4, <2>1, <2>2
  <1>9. \A c \in DOMAIN sets : \E f \in {"login", "connlimit", "password"} : c = Attr(role, f)
    BY <1>4
  <1>7. ASSUME NEW f \in {"login", "connlimit", "password"}, Attr(role, f) \in DOMAIN sets
        PROVE  \E y \in pairs : f = y[1] /\ sets[Attr(role, f)] = y[2]
    <2>1. PICK y \in pairs : Attr(role, f) = <<"attr", role, y[1]>>
      BY <1>1, <1>7
    <2>2. f = y[1]
      BY <2>1 DEF Attr
    <2> QED BY <1>3, <2>2
  <1>8. /\ Attr(role, "login") \in DOMAIN sets => sets[Attr(role, "login")] = d.login
        /\ Attr(role, "connlimit") \in DOMAIN sets => sets[Attr(role, "connlimit")] = d.connlimit
        /\ Attr(role, "password") \in DOMAIN sets =>
             sets[Attr(role, "password")] = IF d.clear THEN "none" ELSE "new"
    BY <1>2, <1>7
  <1> QED BY <1>6, <1>8, <1>9 DEF SentIs, sets, login, limit

(* A limit that is no integer is all that is left out.                     *)
LEMMA LeftOut ==
  ASSUME NEW d, d.editor = "RoleForm", NEW role, role \in {d.role, d.name}
  PROVE  /\ Attr(role, "connlimit") \in Roles!Ignored(d) <=> d.connlimit = Roles!Fraction
         /\ Attr(role, "login") \notin Roles!Ignored(d)
         /\ Attr(role, "password") \notin Roles!Ignored(d)
  <1>1. ASSUME NEW c \in Roles!Ignored(d)
        PROVE  c[3] = "connlimit" /\ d.connlimit = Roles!Fraction
    BY DEF Roles!Ignored
  <1>2. \A f : Attr(role, f)[3] = f
    BY DEF Attr
  <1>3. ASSUME d.connlimit = Roles!Fraction
        PROVE  Attr(role, "connlimit") \in Roles!Ignored(d)
    BY <1>3 DEF Attr, Roles!Ignored
  <1> QED BY <1>1, <1>2, <1>3

(* On a role that exists, what is touched is what is sent, but for that.   *)
LEMMA RoleTouched ==
  ASSUME NEW from, NEW d, d.editor = "RoleForm", d.role # None, page = "roles"
  PROVE  Touched(from, d) \ Roles!Ignored(d) = DOMAIN Roles!Attrs(from, d, d.role)
  <1> DEFINE first == Roles!RoleDraft(from, d.role)
             now == Roles!AsksAttrs(d, d.role)
             then == Roles!AsksAttrs(first, d.role)
             sets == Roles!Attrs(from, d, d.role)
             A(f) == Attr(d.role, f)
  <1>1. /\ first.editor = "RoleForm" /\ first.role = d.role
        /\ first.clear = FALSE /\ first.typed = FALSE
        /\ first.login = from[A("login")] /\ first.connlimit = from[A("connlimit")]
    BY DEF Roles!RoleDraft, Attr
  <1> HIDE DEF first
  <1>2. Roles!Asks(from, d) = now /\ Roles!Asks(from, first) = then /\ Roles!Loaded(from, d) = first
    BY <1>1 DEF Roles!Asks, Roles!AsksRole, Roles!Loaded, first
  <1>3. Touched(from, d) = {c \in DOMAIN now : c \notin DOMAIN then \/ then[c] # now[c]}
    BY <1>2 DEF Touched, Asks, Loaded, ForPage
  <1>4. /\ \A c \in DOMAIN now : \E f \in {"login", "connlimit", "password"} : c = A(f)
        /\ A("login") \in DOMAIN now
        /\ A("connlimit") \in DOMAIN now <=> d.connlimit # ""
        /\ A("password") \in DOMAIN now <=> d.clear \/ d.typed
        /\ now[A("login")] = {d.login}
        /\ d.connlimit # "" => now[A("connlimit")] = {d.connlimit}
    BY AttrsShown
  <1>5. /\ A("login") \in DOMAIN then
        /\ A("connlimit") \in DOMAIN then <=> first.connlimit # ""
        /\ A("password") \notin DOMAIN then
        /\ then[A("login")] = {first.login}
        /\ first.connlimit # "" => then[A("connlimit")] = {first.connlimit}
    BY <1>1, AttrsShown
  <1>6. /\ \A c \in DOMAIN sets : \E f \in {"login", "connlimit", "password"} : c = A(f)
        /\ A("login") \in DOMAIN sets <=> from[A("login")] # d.login
        /\ A("connlimit") \in DOMAIN sets
             <=> d.connlimit \notin {"", Roles!Fraction} /\ from[A("connlimit")] # d.connlimit
        /\ A("password") \in DOMAIN sets <=> d.clear \/ d.typed
    <2>1. SentIs(from, d, d.role)
      BY AttrsSent
    <2> QED BY <2>1 DEF SentIs
  <1> DEFINE kept == Touched(from, d) \ Roles!Ignored(d)
  <1>7. /\ A("connlimit") \in Roles!Ignored(d) <=> d.connlimit = Roles!Fraction
        /\ A("login") \notin Roles!Ignored(d) /\ A("password") \notin Roles!Ignored(d)
    BY LeftOut
  <1> HIDE DEF now, then, sets, A
  <1>8. A("login") \in kept <=> A("login") \in DOMAIN sets
    BY <1>1, <1>3, <1>4, <1>5, <1>6, <1>7
  <1>9. A("connlimit") \in kept <=> A("connlimit") \in DOMAIN sets
    BY <1>1, <1>3, <1>4, <1>5, <1>6, <1>7
  <1>10. A("password") \in kept <=> A("password") \in DOMAIN sets
    BY <1>3, <1>4, <1>5, <1>6, <1>7
  <1>11. kept = DOMAIN sets
    <2>1. \A c \in kept : \E f \in {"login", "connlimit", "password"} : c = A(f)
      BY <1>3, <1>4
    <2>2. \A f \in {"login", "connlimit", "password"} : A(f) \in kept <=> A(f) \in DOMAIN sets
      BY <1>8, <1>9, <1>10
    <2> HIDE DEF kept
    <2> QED BY <1>6, <2>1, <2>2
  <1> QED BY <1>11 DEF sets

(* A new role is asked for whole.                                          *)
LEMMA NewRoleTouched ==
  ASSUME NEW from, NEW d, d.editor = "RoleForm", d.role = None, d.name # None, page = "roles"
  PROVE  /\ Touched(from, d) = DOMAIN Roles!AsksRole(d)
         /\ DOMAIN Roles!AsksRole(d) = DOMAIN Roles!AsksAttrs(d, d.name)
               \cup {<<"member", r, d.name, "us">> : r \in d.member_of} \cup {<<"role", d.name>>}
         /\ DOMAIN Roles!Attrs(from, d, d.name) \subseteq Touched(from, d)
  <1> DEFINE first == Roles!RoleDraft(from, d.role)
             now == Roles!AsksRole(d)
  <1>1. first.editor = "RoleForm" /\ first.role = None /\ first.name = None
    BY DEF Roles!RoleDraft
  <1>2. Roles!Asks(from, d) = now /\ Roles!Loaded(from, d) = first
    BY DEF Roles!Asks, Roles!Loaded
  <1> HIDE DEF first, now
  <1>3. Roles!Asks(from, first) = <<>>
    BY <1>1 DEF Roles!Asks, Roles!AsksRole
  <1>4. Touched(from, d) = DOMAIN now
    <2>1. Touched(from, d) = {c \in DOMAIN now : c \notin DOMAIN <<>> \/ <<>>[c] # now[c]}
      BY <1>2, <1>3 DEF Touched, Asks, Loaded, ForPage
    <2> QED BY <2>1
  <1>5. DOMAIN now = DOMAIN Roles!AsksAttrs(d, d.name)
               \cup {<<"member", r, d.name, "us">> : r \in d.member_of} \cup {<<"role", d.name>>}
    BY DEF Roles!AsksRole, now
  <1>6. DOMAIN Roles!Attrs(from, d, d.name) \subseteq DOMAIN Roles!AsksAttrs(d, d.name)
    <2> DEFINE A(f) == Attr(d.name, f)
               asks == Roles!AsksAttrs(d, d.name)
               sets == Roles!Attrs(from, d, d.name)
    <2>1. /\ A("login") \in DOMAIN asks
          /\ A("connlimit") \in DOMAIN asks <=> d.connlimit # ""
          /\ A("password") \in DOMAIN asks <=> d.clear \/ d.typed
      BY AttrsShown
    <2>2. /\ \A c \in DOMAIN sets : \E f \in {"login", "connlimit", "password"} : c = A(f)
          /\ A("connlimit") \in DOMAIN sets => d.connlimit # ""
          /\ A("password") \in DOMAIN sets <=> d.clear \/ d.typed
      <3>1. SentIs(from, d, d.name)
        BY AttrsSent
      <3> QED BY <3>1 DEF SentIs
    <2> HIDE DEF A, asks, sets
    <2>3. DOMAIN sets \subseteq DOMAIN asks
      BY <2>1, <2>2
    <2> QED BY <2>3 DEF asks, sets
  <1> QED BY <1>4, <1>5, <1>6 DEF now

-----------------------------------------------------------------------------
(* The invariant of the open form                                          *)

(* What is in every catalog of the family on show.                         *)
InOrder(cat) ==
    ForPage(cat \in Grants!Catalog,
            Roles!InOrder(cat),
            cat = [c \in Server!Cell |-> cat[c]],
            cat = [c \in Admin!Cell |-> cat[c]])

(* What the drafts of each family hold.                                    *)
ListDraft ==
    [editor : {"Bulk", "DefaultPrivilegesEditor"}, object : {None}, grantee : Grantee \cup {None},
     selected : SUBSET Privilege, option : BOOLEAN, cascade : BOOLEAN, mode : {"grant", "revoke"},
     scope : {"any", "schema"}, listed : SUBSET Privilege, last : Grants!Grantor]

MemberDraft ==
    [editor : {"AddMembership"}, role : Role \cup {None}, member : Role \cup {None}, pg16 : BOOLEAN,
     options : [{"admin", "inherit", "set"} -> {"", "true", "false"}]]

RolesDraft(d) ==
    \/ d \in MemberDraft
    \/ /\ "editor" \in DOMAIN d /\ d.editor \in {"RoleForm", "DropRole", "ReassignOwned", "ChangeOwner"}
       /\ d.editor = "ChangeOwner" => "row" \in DOMAIN d /\ d.row \in Roles!OwnerCell

ServerDraft(from, d) ==
    /\ DOMAIN d = {"editor", "row", "value", "reset", "cascade"}
    /\ d.editor \in {"SettingEditor", "OverrideEditor", "NewOverride", "InstallExtension",
                     "DropExtension", "DropSlot"}
    /\ d.editor = "InstallExtension" => d.row \in Server!Extension /\ from[Server!Ext(d.row)] = 0
    /\ d.editor = "DropSlot" => d.row = <<"slot", "s">>

AdminDraft(d) ==
    /\ "editor" \in DOMAIN d
    /\ d.editor \in {"ProfileForm", "CreateUser", "ResetPassword"}
    /\ d.editor = "ProfileForm" =>
         /\ "password" \in DOMAIN d /\ d.password \in {"none", "new"}
         /\ "secret" \in DOMAIN d /\ d.secret \in {"none", "new"}

Fits(from, d) ==
    ForPage(d \in EditorDraft \cup ListDraft, RolesDraft(d), ServerDraft(from, d), AdminDraft(d))

FormInv ==
    /\ page \in DOMAIN Start
    /\ InOrder(catalog) /\ InOrder(seen)
    /\ form # None => InOrder(form.from) /\ Fits(form.from, form.draft)

(* A form fits when it opens,                                              *)
LEMMA GrantsOpens ==
  ASSUME NEW from \in Grants!Catalog, NEW d \in Grants!Opens(from)
  PROVE  d \in EditorDraft \cup ListDraft
  <1>1. Owner \in Grants!Grantor /\ Grants!PrivilegesFor \subseteq SUBSET Privilege
    BY DEF Grants!Grantor, Grants!PrivilegesFor
  <1>2. \A o : Grants!Lasts(from, o) \subseteq Grants!Grantor
    BY <1>1 DEF Grants!Lasts, Grants!Rows
  <1>3. ASSUME NEW o \in Object, NEW l \in Grants!PrivilegesFor, NEW r \in Grants!Grantor
        PROVE  Grants!Fields("GrantEditor", o, l, r) \in EditorDraft
    BY <1>1 DEF Grants!Fields, EditorDraft
  <1>4. ASSUME NEW e \in {"Bulk", "DefaultPrivilegesEditor"}
        PROVE  Grants!Fields(e, None, Privilege, Owner) \in ListDraft
    BY <1>1 DEF Grants!Fields, ListDraft
  <1>5. CASE d \in Grants!OpensLists
    BY <1>4, <1>5 DEF Grants!OpensLists
  <1>6. ASSUME NEW o \in Object, d \in Grants!OpensEditor(from, o)
        PROVE  d \in EditorDraft
    <2>1. PICK l \in Grants!PrivilegesFor, r \in Grants!Lasts(from, o) :
             d = Grants!Fields("GrantEditor", o, l, r)
      BY <1>6 DEF Grants!OpensEditor
    <2> QED BY <1>2, <1>3, <2>1
  <1>7. d \in Grants!OpensLists \/ \E o \in Object : d \in Grants!OpensEditor(from, o)
    <2>1. CASE d \in Grants!OpensEditors(from)
      BY <2>1 DEF Grants!OpensEditors
    <2> QED BY <2>1 DEF Grants!Opens
  <1> QED BY <1>5, <1>6, <1>7

LEMMA RolesOpens ==
  ASSUME NEW from, NEW d \in Roles!Opens(from)
  PROVE  RolesDraft(d)
  <1>0. /\ \A r : RolesDraft(Roles!RoleDraft(from, r))
        /\ \A r : RolesDraft(Roles!Pick("DropRole", r)) /\ RolesDraft(Roles!Pick("ReassignOwned", r))
        /\ \A c \in Roles!OwnerCell : RolesDraft(Roles!Pick("ChangeOwner", c))
    BY DEF Roles!RoleDraft, Roles!Pick, RolesDraft
  <1>1. CASE d \in Roles!OpensAttributes(from)
    BY <1>0, <1>1 DEF Roles!OpensAttributes
  <1>2. CASE d \in Roles!OpensOwnership(from)
    <2>1. \/ \E r : d = Roles!Pick("ReassignOwned", r)
          \/ \E c \in Roles!OwnerCell : d = Roles!Pick("ChangeOwner", c)
      BY <1>2 DEF Roles!OpensOwnership
    <2> QED BY <1>0, <2>1
  <1>3. CASE d \in Roles!OpensMemberships
    <2>1. PICK b \in BOOLEAN : d = Roles!MemberDraft(b)
      BY <1>3 DEF Roles!OpensMemberships
    <2>2. d \in MemberDraft
      BY <2>1 DEF Roles!MemberDraft, MemberDraft
    <2> QED BY <2>2 DEF RolesDraft
  <1> QED BY <1>1, <1>2, <1>3 DEF Roles!Opens

LEMMA ServerOpens ==
  ASSUME NEW from, NEW d \in Server!Opens(from)
  PROVE  ServerDraft(from, d)
  <1>1. CASE d \in Server!OpensSettings(from)
    BY <1>1 DEF Server!OpensSettings, Server!Draft, ServerDraft
  <1>2. CASE d \in Server!OpensOverrides(from)
    <2>1. \A c, v : /\ ServerDraft(from, Server!Draft("OverrideEditor", c, v))
                    /\ ServerDraft(from, Server!Draft("NewOverride", c, v))
      BY DEF Server!Draft, ServerDraft
    <2> QED BY <1>2, <2>1 DEF Server!OpensOverrides
  <1>3. CASE d \in Server!OpensExtensions(from)
    BY <1>3 DEF Server!OpensExtensions, Server!Draft, ServerDraft
  <1>4. CASE d \in Server!OpensSlots(from)
    BY <1>4 DEF Server!OpensSlots, Server!SlotCell, Server!Draft, ServerDraft
  <1> QED BY <1>1, <1>2, <1>3, <1>4 DEF Server!Opens

LEMMA AdminOpens ==
  ASSUME NEW from, NEW d \in Admin!Opens(from)
  PROVE  AdminDraft(d)
  <1>1. CASE d \in Admin!OpensProfiles(from)
    <2>1. PICK p : d = Admin!ProfileDraft(from, p)
      BY <1>1 DEF Admin!OpensProfiles
    <2> QED BY <2>1 DEF Admin!ProfileDraft, AdminDraft
  <1>2. CASE d \in Admin!OpensUsers(from)
    BY <1>2 DEF Admin!OpensUsers, Admin!UserDraft, AdminDraft
  <1> QED BY <1>1, <1>2 DEF Admin!Opens

(* and after every change to it.                                           *)
LEMMA GrantsEdits ==
  ASSUME NEW from \in Grants!Catalog, NEW d \in EditorDraft \cup ListDraft, NEW e \in Grants!Edits(from, d)
  PROVE  e \in EditorDraft \cup ListDraft
  <1>1. CASE \E g \in Grantee : e = [d EXCEPT !.grantee = g]
    BY <1>1 DEF EditorDraft, ListDraft
  <1>2. CASE \E p \in d.listed : e = [d EXCEPT !.selected = Grants!Toggle(@, p)]
    <2>1. PICK p \in d.listed : e = [d EXCEPT !.selected = Grants!Toggle(d.selected, p)]
      BY <1>2
    <2>2. Grants!Toggle(d.selected, p) \in SUBSET Privilege
      BY DEF Grants!Toggle, EditorDraft, ListDraft
    <2> QED BY <2>1, <2>2 DEF EditorDraft, ListDraft
  <1>3. CASE e = [d EXCEPT !.option = ~@]
    BY <1>3 DEF EditorDraft, ListDraft
  <1>4. CASE e = [d EXCEPT !.cascade = ~@]
    BY <1>4 DEF EditorDraft, ListDraft
  <1>5. CASE d \in ListDraft /\ \E m \in {"grant", "revoke"} : e = [d EXCEPT !.mode = m]
    BY <1>5 DEF ListDraft
  <1>6. CASE d \in ListDraft /\ \E s \in {"any", "schema"} : e = [d EXCEPT !.scope = s]
    BY <1>6 DEF ListDraft
  <1>7. CASE \E g \in Grantee : e = Grants!PickGrantee(from, d, g)
    <2>1. PICK g \in Grantee : e = Grants!PickGrantee(from, d, g)
      BY <1>7
    <2> DEFINE b == [d EXCEPT !.grantee = g]
               rows == {x \in Privilege \X Grants!Grantor : Grants!ValueOf(from, b, x[1])[x[2]] # "none"}
               ticks == {x[1] : x \in rows}
               all == rows # {} /\ \A x \in rows : Grants!ValueOf(from, b, x[1])[x[2]] = "option"
    <2>2. e = b \/ e = [b EXCEPT !.selected = ticks, !.option = all]
      BY <2>1 DEF Grants!PickGrantee
    <2>3. ticks \in SUBSET Privilege /\ all \in BOOLEAN
      OBVIOUS
    <2>4. b \in EditorDraft \cup ListDraft
      BY DEF EditorDraft, ListDraft
    <2> HIDE DEF b, ticks, all
    <2> QED BY <2>2, <2>3, <2>4 DEF EditorDraft, ListDraft
  <1>8. CASE d.editor = "DefaultPrivilegesEditor"
    <2>1. d \in ListDraft
      BY <1>8 DEF EditorDraft
    <2>2. e \in Grants!DefaultEdits(d)
      BY <1>8 DEF Grants!Edits
    <2> QED BY <1>1, <1>2, <1>3, <1>5, <1>6, <2>1, <2>2 DEF Grants!DefaultEdits
  <1>9. CASE d.editor # "DefaultPrivilegesEditor"
    <2>1. e \in Grants!EditorEdits(from, d)
      BY <1>9 DEF Grants!Edits
    <2>2. d.editor = "Bulk" => d \in ListDraft
      BY DEF EditorDraft
    <2> QED BY <1>2, <1>3, <1>4, <1>5, <1>7, <2>1, <2>2 DEF Grants!EditorEdits
  <1> QED BY <1>8, <1>9

LEMMA RolesEdits ==
  ASSUME NEW from, NEW d, RolesDraft(d), NEW e \in Roles!Edits(from, d)
  PROVE  RolesDraft(e)
  <1>1. CASE d \in MemberDraft
    <2>1. e \in Roles!MemberEdits(from, d)
      BY <1>1 DEF Roles!Edits, MemberDraft
    <2>2. \A x : Roles!Roles(from, x) \subseteq Role
      BY DEF Roles!Roles
    <2>3. ASSUME NEW r \in Role, e = [d EXCEPT !.role = r] \/ e = [d EXCEPT !.member = r]
          PROVE  e \in MemberDraft
      BY <1>1, <2>3 DEF MemberDraft
    <2>4. ASSUME NEW o \in {"admin", "inherit", "set"}, NEW values \in SUBSET {"", "true", "false"},
                 e \in Roles!SetOption(d, o, values)
          PROVE  e \in MemberDraft
      <3>1. PICK v \in values : e = [d EXCEPT !.options = [d.options EXCEPT ![o] = v]]
        BY <2>4 DEF Roles!SetOption
      <3>2. [d.options EXCEPT ![o] = v] \in [{"admin", "inherit", "set"} -> {"", "true", "false"}]
        BY <1>1 DEF MemberDraft
      <3> QED BY <1>1, <3>1, <3>2 DEF MemberDraft
    <2>5. e \in MemberDraft
      <3>1. CASE e \in {[d EXCEPT !.role = r] : r \in Roles!Roles(from, {})}
        BY <2>2, <2>3, <3>1
      <3>2. CASE e \in {[d EXCEPT !.member = r] : r \in Roles!Roles(from, {d.role})}
        BY <2>2, <2>3, <3>2
      <3>3. CASE e \in Roles!SetOption(d, "admin", {"", "true"})
        BY <2>4, <3>3
      <3>4. CASE e \in UNION {Roles!SetOption(d, o, {"", "true", "false"}) : o \in {"inherit", "set"}}
        BY <2>4, <3>4
      <3> QED BY <2>1, <3>1, <3>2, <3>3, <3>4 DEF Roles!MemberEdits
    <2> QED BY <2>5 DEF RolesDraft
  <1>2. CASE "editor" \in DOMAIN d /\ d.editor \in {"RoleForm", "DropRole", "ReassignOwned", "ChangeOwner"}
    <2>1. e \in Roles!RoleEdits(from, d) \cup Roles!DropEdits(from, d) \cup Roles!OwnerEdits(from, d)
      BY <1>2 DEF Roles!Edits
    <2>2. "editor" \in DOMAIN e /\ e.editor = d.editor
      <3>1. CASE e \in Roles!RoleEdits(from, d)
        BY <1>2, <3>1 DEF Roles!RoleEdits
      <3>2. CASE e \in Roles!DropEdits(from, d)
        BY <1>2, <3>2 DEF Roles!DropEdits
      <3>3. CASE e \in Roles!OwnerEdits(from, d)
        BY <1>2, <3>3 DEF Roles!OwnerEdits
      <3> QED BY <2>1, <3>1, <3>2, <3>3
    <2>4. ASSUME d.editor = "ChangeOwner"
          PROVE  DOMAIN e = DOMAIN d /\ e.row = d.row
      <3>1. e \in Roles!OwnerEdits(from, d)
        BY <2>4 DEF Roles!Edits
      <3>2. \E r : e = [d EXCEPT !.to = r]
        BY <3>1 DEF Roles!OwnerEdits
      <3>3. PICK r : e = [d EXCEPT !.to = r]
        BY <3>2
      <3>4. "row" \in DOMAIN d
        BY <2>4 DEF RolesDraft, MemberDraft
      <3> QED BY <3>3, <3>4
    <2>3. d.editor = "ChangeOwner" => "row" \in DOMAIN d /\ d.row \in Roles!OwnerCell
      BY <1>2 DEF RolesDraft, MemberDraft
    <2> QED BY <1>2, <2>2, <2>3, <2>4 DEF RolesDraft
  <1> QED BY <1>1, <1>2 DEF RolesDraft

LEMMA ServerEdits ==
  ASSUME NEW from, NEW d, ServerDraft(from, d), NEW e \in Server!Edits(from, d)
  PROVE  ServerDraft(from, e)
  <1>1. CASE d.editor = "SettingEditor"
    BY <1>1 DEF Server!Edits, Server!SettingEdits, ServerDraft
  <1>2. CASE d.editor \in {"OverrideEditor", "NewOverride"}
    BY <1>2 DEF Server!Edits, Server!OverrideEdits, ServerDraft
  <1>3. CASE d.editor = "InstallExtension"
    BY <1>3 DEF Server!Edits, Server!InstallEdits, ServerDraft
  <1>4. CASE d.editor = "DropExtension"
    BY <1>4 DEF Server!Edits, ServerDraft
  <1>5. CASE d.editor = "DropSlot"
    BY <1>5 DEF Server!Edits, ServerDraft
  <1> QED BY <1>1, <1>2, <1>3, <1>4, <1>5 DEF ServerDraft

LEMMA AdminEdits ==
  ASSUME NEW from, NEW d, AdminDraft(d), NEW e \in Admin!Edits(from, d)
  PROVE  AdminDraft(e)
  <1>1. CASE d.editor = "ProfileForm"
    BY <1>1 DEF Admin!Edits, Admin!ProfileEdits, AdminDraft
  <1>2. CASE d.editor = "CreateUser"
    BY <1>2 DEF Admin!Edits, Admin!CreateUserEdits, AdminDraft
  <1>3. CASE d.editor = "ResetPassword"
    BY <1>3 DEF Admin!Edits, AdminDraft
  <1> QED BY <1>1, <1>2, <1>3 DEF AdminDraft

-----------------------------------------------------------------------------
(* What an item of the basket promises                                     *)

(* Of an item of the basket: its operation leaves every catalog in order;  *)
(* a direct one changes only what was asked for or goes with it; and one   *)
(* that is also the only operation of its form leaves what was asked for,  *)
(* where the catalog still is what the form was opened on.                 *)
GrantsItem(s) ==
    \A cat \in Grants!Catalog : ~Grants!Refused(cat, s.op) =>
        /\ s.direct => \A c \in Grants!Cell : Grants!Effect(cat, s.op)[c] # cat[c] =>
                            c \in DOMAIN s.asks \cup Grants!Reach(cat, s.op)
        /\ s.direct /\ s.alone => \A c \in Grants!Cell \cap DOMAIN s.asks :
                cat[c] = s.was[c] /\ Grants!Sole(cat[c]) =>
                    Grants!Reads(Grants!Effect(cat, s.op), c) \in s.asks[c]

RolesItem(s) ==
    \A cat : Roles!InOrder(cat) /\ ~Roles!Refused(cat, s.op) =>
        /\ Roles!InOrder(Roles!Effect(cat, s.op))
        /\ s.direct => \A c \in Roles!Cell : Roles!Effect(cat, s.op)[c] # cat[c] =>
                            c \in DOMAIN s.asks \cup Roles!Reach(cat, s.op)
        /\ s.direct /\ s.alone => \A c \in (Roles!Cell \cap DOMAIN s.asks) \ s.ignored :
                cat[c] = s.was[c] => Roles!Effect(cat, s.op)[c] \in s.asks[c]

ServerItem(s) ==
    \A cat : cat = [c \in Server!Cell |-> cat[c]] /\ ~Server!Refused(cat, s.op) =>
        /\ s.direct => \A c \in Server!Cell : Server!Effect(cat, s.op)[c] # cat[c] =>
                            c \in DOMAIN s.asks \cup Server!Reach(cat, s.op)
        /\ s.direct /\ s.alone => \A c \in Server!Cell \cap DOMAIN s.asks :
                cat[c] = s.was[c] => Server!Effect(cat, s.op)[c] \in s.asks[c]

AdminItem(s) ==
    \A cat : cat = [c \in Admin!Cell |-> cat[c]] /\ ~Admin!Refused(cat, s.op) =>
        /\ s.direct => \A c \in Admin!Cell : Admin!Effect(cat, s.op)[c] # cat[c] =>
                            c \in DOMAIN s.asks \cup Admin!Reach(cat, s.op)
        /\ s.direct /\ s.alone => \A c \in Admin!Cell \cap DOMAIN s.asks :
                cat[c] = s.was[c] => Admin!Effect(cat, s.op)[c] \in s.asks[c]

Item(s) == ForPage(GrantsItem(s), RolesItem(s), ServerItem(s), AdminItem(s))

-----------------------------------------------------------------------------
(* Items about grants                                                      *)

(* A cell of the default privileges is none of an object.                  *)
LEMMA CellsAreDisjoint == Grants!ObjectCell \cap Grants!DefaultCell = {}
  <1> SUFFICES ASSUME NEW c \in Grants!ObjectCell, c \in Grants!DefaultCell PROVE FALSE
    OBVIOUS
  <1>1. PICK o \in Object, g \in Grantee, p \in Privilege : c = <<o, g, p>>
    BY DEF Grants!ObjectCell
  <1>2. PICK s \in {"any", "schema"}, h \in Grantee, q \in Privilege : c = <<"default", s, h, q>>
    BY DEF Grants!DefaultCell
  <1>3. Len(<<o, g, p>>) = 3 /\ Len(<<"default", s, h, q>>) = 4
    OBVIOUS
  <1> QED BY <1>1, <1>2, <1>3

(* An operation of a form changes only its cells, and by CASCADE those     *)
(* of the same privilege on the same object.                               *)
LEMMA GrantsChanges ==
  ASSUME NEW cat \in Grants!Catalog, NEW op,
         op.op \in {"grant", "revoke", "default_grant", "default_revoke"},
         op.op = "default_revoke" => op.cells \subseteq Grants!DefaultCell,
         ~Grants!Refused(cat, op),
         NEW c \in Grants!Cell, Grants!Effect(cat, op)[c] # cat[c]
  PROVE  c \in op.cells \cup Grants!Reach(cat, op)
  <1> DEFINE new == Grants!Written(cat, op)
             eff == Grants!Effect(cat, op)
  <1>1. /\ new \in [Grants!Cell -> [Grants!Grantor -> Grants!Level]]
        /\ \A b \in Grants!Cell, r \in Grantee : new[b][r] = cat[b][r]
        /\ \A b \in Grants!Cell \ op.cells : new[b] = cat[b]
        /\ \A b \in Grants!Cell \cap op.cells : new[b][Owner] = Grants!Given(cat[b][Owner], op)
    BY WrittenIs
  <1>2. eff[c] = [r \in Grants!Grantor |-> IF Grants!Orphan(new, c, r) THEN "none" ELSE new[c][r]]
    BY DEF Grants!Effect
  <1>3. /\ cat \in [Grants!Cell -> [Grants!Grantor -> Grants!Level]]
        /\ \A b \in Grants!Cell, r \in Grantee : cat[b][r] # "option" /\ ~Grants!Orphan(cat, b, r)
    BY DEF Grants!Catalog
  <1>4. ~Grants!Refused(cat, op) /\ op.op = "revoke" =>
            op.cascade \/ \A b \in Grants!ObjectCell, r \in Grantee : ~Grants!Orphan(new, b, r)
    BY DEF Grants!Refused
  <1>5. eff[c] # cat[c]
    OBVIOUS
  <1> HIDE DEF new, eff
  <1> SUFFICES ASSUME c \notin op.cells PROVE c \in Grants!Reach(cat, op)
    OBVIOUS
  <1>6. PICK r \in Grants!Grantor : Grants!Orphan(new, c, r)
    <2>1. cat[c] = [r \in Grants!Grantor |-> cat[c][r]] /\ new[c] = cat[c]
      BY <1>1, <1>3
    <2> QED BY <1>2, <1>5, <2>1
  <1> DEFINE b == <<c[1], r, c[3]>>
  <1>7. /\ c \in Grants!ObjectCell /\ r \in Grantee
        /\ new[c][r] # "none" /\ Grants!Best(new[b]) # "option"
    BY <1>6 DEF Grants!Orphan
  <1>8. b \in Grants!ObjectCell /\ b \in Grants!Cell
    BY <1>7 DEF Grants!ObjectCell, Grants!Cell
  <1>9. Grants!Best(cat[b]) = "option"
    BY <1>1, <1>3, <1>7 DEF Grants!Orphan
  <1>10. cat[b][Owner] = "option" /\ new[b][Owner] # "option"
    BY <1>1, <1>3, <1>7, <1>8, <1>9, BestIsOwners
  <1>11. b \in op.cells /\ Grants!Given("option", op) # "option"
    BY <1>1, <1>8, <1>10
  <1>12. op.op = "revoke"
    <2>1. op.op \notin {"grant", "default_grant"}
      BY <1>11 DEF Grants!Given
    <2>2. op.op # "default_revoke"
      BY <1>8, <1>11, CellsAreDisjoint
    <2> QED BY <2>1, <2>2
  <1>13. op.cascade
    BY <1>4, <1>6, <1>7, <1>12
  <1>14. c[1] = b[1] /\ c[3] = b[3]
    OBVIOUS
  <1> HIDE DEF b
  <1> QED BY <1>7, <1>11, <1>12, <1>13, <1>14 DEF Grants!Reach

(* What it leaves in its own cells, where the owner is the only grantor.   *)
LEMMA GrantsGives ==
  ASSUME NEW cat \in Grants!Catalog, NEW op, NEW c \in Grants!Cell \cap op.cells,
         Grants!Sole(cat[c])
  PROVE  /\ Grants!Reads(Grants!Effect(cat, op), c) = Grants!Given(cat[c][Owner], op)
         /\ cat[c][Owner] \in Grants!Level
  <1> DEFINE new == Grants!Written(cat, op)
             v == Grants!Effect(cat, op)[c]
  <1>1. /\ new \in [Grants!Cell -> [Grants!Grantor -> Grants!Level]]
        /\ \A r \in Grantee : new[c][r] = cat[c][r]
        /\ new[c][Owner] = Grants!Given(cat[c][Owner], op)
    BY WrittenIs
  <1>2. v = [r \in Grants!Grantor |-> IF Grants!Orphan(new, c, r) THEN "none" ELSE new[c][r]]
    BY DEF Grants!Effect
  <1>3. Owner \in Grants!Grantor /\ Owner \notin Grantee /\ Grants!Grantor = Grantee \cup {Owner}
    BY PagesConstants DEF Grants!Grantor
  <1>4. \A r \in Grantee : cat[c][r] = "none"
    BY <1>3 DEF Grants!Sole, Grants!Rows
  <1>5. cat[c][Owner] \in Grants!Level
    BY <1>3 DEF Grants!Catalog
  <1>6. Grants!Reads(Grants!Effect(cat, op), c) = Grants!Best(v)
    BY DEF Grants!Reads
  <1> HIDE DEF new, v
  <1>7. v[Owner] = Grants!Given(cat[c][Owner], op) /\ v[Owner] \in Grants!Level
    BY <1>1, <1>2, <1>3 DEF Grants!Orphan
  <1>8. \A r \in Grantee : v[r] = "none"
    BY <1>1, <1>2, <1>3, <1>4
  <1>9. Grants!Rows(v) = IF v[Owner] # "none" THEN {Owner} ELSE {}
    BY <1>3, <1>8 DEF Grants!Rows
  <1>10. Grants!Best(v) = v[Owner]
    BY <1>3, <1>7, <1>8, <1>9 DEF Grants!Best, Grants!Level
  <1> QED BY <1>5, <1>6, <1>7, <1>10

(* What makes an item about grants keep its promise.                       *)
LEMMA GrantsItemIf ==
  ASSUME NEW s,
         s.op.op \in {"grant", "revoke", "default_grant", "default_revoke"},
         s.op.op = "default_revoke" => s.op.cells \subseteq Grants!DefaultCell,
         s.direct => s.op.cells \subseteq DOMAIN s.asks,
         s.direct /\ s.alone =>
            \A c \in Grants!Cell \cap DOMAIN s.asks :
                /\ c \in s.op.cells
                /\ \A v \in [Grants!Grantor -> Grants!Level] :
                      v = s.was[c] /\ Grants!Sole(v) => Grants!Given(v[Owner], s.op) \in s.asks[c]
  PROVE  GrantsItem(s)
  <1> SUFFICES ASSUME NEW cat \in Grants!Catalog, ~Grants!Refused(cat, s.op)
               PROVE  /\ s.direct => \A c \in Grants!Cell : Grants!Effect(cat, s.op)[c] # cat[c] =>
                            c \in DOMAIN s.asks \cup Grants!Reach(cat, s.op)
                      /\ s.direct /\ s.alone => \A c \in Grants!Cell \cap DOMAIN s.asks :
                            cat[c] = s.was[c] /\ Grants!Sole(cat[c]) =>
                                Grants!Reads(Grants!Effect(cat, s.op), c) \in s.asks[c]
    BY DEF GrantsItem
  <1>1. ASSUME s.direct, NEW c \in Grants!Cell, Grants!Effect(cat, s.op)[c] # cat[c]
        PROVE  c \in DOMAIN s.asks \cup Grants!Reach(cat, s.op)
    <2>1. c \in s.op.cells \cup Grants!Reach(cat, s.op)
      BY <1>1, GrantsChanges
    <2> QED BY <1>1, <2>1
  <1>2. ASSUME s.direct, s.alone, NEW c \in Grants!Cell \cap DOMAIN s.asks,
               cat[c] = s.was[c], Grants!Sole(cat[c])
        PROVE  Grants!Reads(Grants!Effect(cat, s.op), c) \in s.asks[c]
    <2>1. c \in s.op.cells /\ cat[c] \in [Grants!Grantor -> Grants!Level]
      BY <1>2 DEF Grants!Catalog
    <2>2. Grants!Given(cat[c][Owner], s.op) \in s.asks[c]
      BY <1>2, <2>1
    <2> QED BY <1>2, <2>1, <2>2, GrantsGives
  <1> QED BY <1>1, <1>2

(* What one operation of the editor leaves is what it asks for.            *)
LEMMA EditorGives ==
  ASSUME NEW from \in Grants!Catalog, NEW d \in EditorDraft, d.grantee # None,
         Grants!Direct(from, d), NEW p \in Privilege
  PROVE  LET level == Grants!ValueOf(from, d, p)[Owner]
             asked == Grants!Asked(from, d, p)
         IN  /\ p \in Gains(from, d) => asked = IF d.option \/ level = "option" THEN "option" ELSE "plain"
             /\ p \in Narrows(from, d) => asked = "plain" /\ level = "option"
             /\ p \in Loses(from, d) => asked = "none"
  <1>1. /\ Grants!Existing(from, d, p) = Grants!ValueOf(from, d, p)[Owner]
        /\ Grants!Existing(from, d, p) \in {"none", "plain", "option"}
    BY SoleExisting DEF Grants!Level
  <1>2. Grants!Loaded(from, d).option = Grants!AllGrantable(from, d)
    BY SoleLoaded
  <1>3. d.option \in BOOLEAN /\ Grants!AllGrantable(from, d) \in BOOLEAN
    BY DEF EditorDraft, Grants!AllGrantable
  <1>4. p \in Grants!Kept(from, d)
           => /\ d.option # Grants!AllGrantable(from, d)
              /\ p \in d.selected /\ Grants!Existing(from, d, p) # "none"
    BY DEF Grants!Kept
  <1> QED BY <1>1, <1>2, <1>3, <1>4 DEF Grants!Asked, Gains, Narrows, Loses

(* What the editor puts in the basket is as promised.                      *)
LEMMA EditorSaves ==
  ASSUME page = "grants", NEW from \in Grants!Catalog, NEW d \in EditorDraft, Grants!CanSave(d),
         NEW ops, ops = Grants!Sends(from, d), ops # <<>>,
         NEW asks, asks = [c \in Touched(from, d) |-> Grants!Asks(from, d)[c]]
  PROVE  GrantsItem(Saved(ops[Len(ops)], asks, from, Len(ops) = 1, Grants!Direct(from, d), {}))
  <1> DEFINE s == Saved(ops[Len(ops)], asks, from, Len(ops) = 1, Grants!Direct(from, d), {})
             g == Gains(from, d)
             n == Narrows(from, d)
             l == Loses(from, d)
             G == Grants!Grant(EditorCells(d, g), d.option)
             M == Grants!Revoke(EditorCells(d, n), TRUE, d.cascade)
             L == Grants!Revoke(EditorCells(d, l), FALSE, d.cascade)
  <1>1. d.grantee # None /\ d.editor = "GrantEditor"
    BY DEF Grants!CanSave, EditorDraft
  <1>2. ops = Grants!EditorOps(from, d, Grants!Kept(from, d))
    BY <1>1 DEF Grants!Sends
  <1>3. /\ s.op = ops[Len(ops)] /\ s.asks = asks
        /\ s.was = [c \in DOMAIN asks |-> from[c]]
        /\ s.alone = (Len(ops) = 1) /\ s.direct = Grants!Direct(from, d)
    BY DEF Saved
  <1>0. /\ ops # <<>> => ops[Len(ops)] \in {G, M, L}
        /\ Len(ops) = 1 =>
             \/ g # {} /\ n = {} /\ l = {} /\ ops = <<G>>
             \/ g = {} /\ n # {} /\ l = {} /\ ops = <<M>>
             \/ g = {} /\ n = {} /\ l # {} /\ ops = <<L>>
    <2> HIDE DEF s
    <2> QED BY ONLY <1>2, EditorSends
  <1>4. s.op \in {G, M, L}
    BY <1>0, <1>3
  <1>5. s.op.op \in {"grant", "revoke"} /\ s.op.cells \subseteq EditorCells(d, g \cup n \cup l)
    BY <1>4 DEF Grants!Grant, Grants!Revoke, EditorCells
  <1>6. ASSUME s.direct PROVE DOMAIN s.asks = EditorCells(d, g \cup n \cup l)
    BY <1>1, <1>3, <1>6, EditorTouched
  <1>7. ASSUME s.direct, s.alone, NEW c \in DOMAIN s.asks
        PROVE  /\ c \in s.op.cells
               /\ \A v \in [Grants!Grantor -> Grants!Level] :
                     v = s.was[c] /\ Grants!Sole(v) => Grants!Given(v[Owner], s.op) \in s.asks[c]
    <2> DEFINE p == c[3]
    <2>1. p \in g \cup n \cup l /\ c \in EditorCells(d, {p}) /\ c = <<d.object, d.grantee, p>>
      BY <1>6, <1>7 DEF EditorCells
    <2>2. p \in d.listed /\ p \in Privilege
      BY <2>1 DEF Gains, Narrows, Loses, Grants!Kept, EditorDraft
    <2>3. s.asks[c] = {Grants!Asked(from, d, p)}
      <3>1. s.asks[c] = Grants!Asks(from, d)[c]
        BY <1>3, <1>7
      <3>2. c \in {d.object} \X {d.grantee} \X d.listed
        BY <2>1, <2>2
      <3> QED BY <1>1, <3>1, <3>2 DEF Grants!Asks
    <2>4. s.was[c] = Grants!ValueOf(from, d, p)
      BY <1>3, <1>7, <2>1 DEF Grants!ValueOf
    <2>5. /\ p \in g => Grants!Asked(from, d, p)
                           = IF d.option \/ s.was[c][Owner] = "option" THEN "option" ELSE "plain"
          /\ p \in n => Grants!Asked(from, d, p) = "plain" /\ s.was[c][Owner] = "option"
          /\ p \in l => Grants!Asked(from, d, p) = "none"
      BY <1>1, <1>3, <1>7, <2>2, <2>4, EditorGives
    <2>6. \/ g # {} /\ n = {} /\ l = {} /\ s.op = G
          \/ g = {} /\ n # {} /\ l = {} /\ s.op = M
          \/ g = {} /\ n = {} /\ l # {} /\ s.op = L
      <3>1. Len(ops) = 1
        BY <1>3, <1>7
      <3> HIDE DEF g, n, l, s, G, M, L
      <3>2. \A x : ops = <<x>> => ops[Len(ops)] = x
        BY <3>1
      <3> QED BY <1>0, <1>3, <3>1, <3>2
    <2> HIDE DEF s, g, n, l, p
    <2>7. CASE g # {} /\ n = {} /\ l = {} /\ s.op = G
      <3>1. p \in g
        BY <2>1, <2>7
      <3>2. c \in EditorCells(d, g)
        BY <2>1, <3>1 DEF EditorCells
      <3> QED BY <2>3, <2>5, <2>7, <3>1, <3>2 DEF Grants!Grant, Grants!Given
    <2>8. CASE g = {} /\ n # {} /\ l = {} /\ s.op = M
      <3>1. p \in n
        BY <2>1, <2>8
      <3>2. c \in EditorCells(d, n)
        BY <2>1, <3>1 DEF EditorCells
      <3> QED BY <2>3, <2>5, <2>8, <3>1, <3>2 DEF Grants!Revoke, Grants!Given
    <2>9. CASE g = {} /\ n = {} /\ l # {} /\ s.op = L
      <3>1. p \in l
        BY <2>1, <2>9
      <3>2. c \in EditorCells(d, l)
        BY <2>1, <3>1 DEF EditorCells
      <3> QED BY <2>3, <2>5, <2>9, <3>1, <3>2 DEF Grants!Revoke, Grants!Given
    <2> QED BY <2>6, <2>7, <2>8, <2>9
  <1> HIDE DEF s
  <1>8. GrantsItem(s)
    BY <1>5, <1>6, <1>7, GrantsItemIf
  <1> QED BY <1>8 DEF s

(* So is what the forms for many objects and for defaults put there.       *)
LEMMA ListSaves ==
  ASSUME page = "grants", NEW from \in Grants!Catalog, NEW d \in ListDraft, Grants!CanSave(d),
         NEW ops, ops = Grants!Sends(from, d), ops # <<>>,
         NEW asks, asks = [c \in Touched(from, d) |-> Grants!Asks(from, d)[c]]
  PROVE  GrantsItem(Saved(ops[Len(ops)], asks, from, Len(ops) = 1, Grants!Direct(from, d), {}))
  <1> DEFINE s == Saved(ops[Len(ops)], asks, from, Len(ops) = 1, Grants!Direct(from, d), {})
             cells == Grants!BulkCells(d)
             now == Grants!Asks(from, d)
             first == [d EXCEPT !.selected = {}]
             then == Grants!Asks(from, first)
  <1>1. d.grantee \in Grantee /\ d.grantee # None /\ d.editor # "GrantEditor"
    BY DEF Grants!CanSave, ListDraft
  <1>2. now = [c \in cells |-> IF d.mode = "revoke" THEN {"none"}
                               ELSE IF d.option THEN {"option"} ELSE {"plain", "option"}]
    BY <1>1 DEF Grants!Asks
  <1>3. DOMAIN then = {}
    <2>1. /\ first.grantee = d.grantee /\ first.editor = d.editor /\ first.selected = {}
      BY DEF ListDraft
    <2> HIDE DEF first
    <2>2. Grants!BulkCells(first) = {}
      BY <2>1 DEF Grants!BulkCells
    <2> QED BY <1>1, <2>1, <2>2 DEF Grants!Asks
  <1>4. Touched(from, d) = cells
    <2>1. Grants!Loaded(from, d) = first
      BY <1>1 DEF Grants!Loaded
    <2> HIDE DEF first
    <2>2. Touched(from, d) = {c \in DOMAIN now : c \notin DOMAIN then \/ then[c] # now[c]}
      BY <2>1 DEF Touched, Asks, Loaded, ForPage
    <2> QED BY <1>2, <1>3, <2>2
  <1>5. DOMAIN asks = cells /\ \A c \in cells : asks[c] = now[c]
    BY <1>4
  <1>6. d.mode \in {"grant", "revoke"} /\ d.option \in BOOLEAN
    BY DEF ListDraft
  <1>7. /\ s.op = ops[Len(ops)] /\ s.asks = asks
    BY DEF Saved
  <1>8. \/ d.editor = "Bulk" /\ d.mode = "grant" /\ s.op = Grants!Grant(cells, d.option)
        \/ d.editor = "Bulk" /\ d.mode = "revoke" /\ s.op = Grants!Revoke(cells, FALSE, d.cascade)
        \/ /\ d.editor = "DefaultPrivilegesEditor"
           /\ s.op = [op |-> IF d.mode = "grant" THEN "default_grant" ELSE "default_revoke",
                      cells |-> cells, option |-> d.option]
    <2>1. d.editor \in {"Bulk", "DefaultPrivilegesEditor"}
      BY DEF ListDraft
    <2> HIDE DEF s, cells
    <2>2. CASE d.editor = "Bulk"
      BY <1>6, <1>7, <2>2 DEF Grants!Sends, Grants!BulkOps, cells
    <2>3. CASE d.editor = "DefaultPrivilegesEditor"
      BY <1>6, <1>7, <2>3 DEF Grants!Sends, Grants!DefaultOps, cells
    <2> QED BY <2>1, <2>2, <2>3
  <1> HIDE DEF s, cells, now
  <1>9. /\ s.op.op \in {"grant", "revoke", "default_grant", "default_revoke"}
        /\ s.op.cells = cells
    BY <1>8 DEF Grants!Grant, Grants!Revoke
  <1>10. ASSUME s.op.op = "default_revoke" PROVE cells \subseteq Grants!DefaultCell
    <2>1. d.editor = "DefaultPrivilegesEditor"
      BY <1>8, <1>10 DEF Grants!Grant, Grants!Revoke
    <2>2. d.scope \in {"any", "schema"} /\ d.selected \subseteq Privilege
      BY DEF ListDraft
    <2> QED BY <1>1, <2>1, <2>2 DEF Grants!DefaultCell, Grants!BulkCells, cells
  <1>11. ASSUME NEW c \in cells, NEW v \in [Grants!Grantor -> Grants!Level]
         PROVE  Grants!Given(v[Owner], s.op) \in s.asks[c]
    <2>1. s.asks[c] = IF d.mode = "revoke" THEN {"none"}
                      ELSE IF d.option THEN {"option"} ELSE {"plain", "option"}
      BY <1>2, <1>5, <1>7
    <2> QED BY <1>6, <1>8, <2>1 DEF Grants!Given, Grants!Grant, Grants!Revoke
  <1>12. GrantsItem(s)
    BY <1>5, <1>7, <1>9, <1>10, <1>11, GrantsItemIf
  <1> QED BY <1>12 DEF s

(* And the Revoke of a row.                                                *)
LEMMA GrantsPresses ==
  ASSUME NEW from \in Grants!Catalog, NEW b \in Grants!Buttons(from)
  PROVE  GrantsItem(Saved(b.op, b.asks, from, TRUE, b.direct, {}))
  <1> DEFINE s == Saved(b.op, b.asks, from, TRUE, b.direct, {})
  <1>1. PICK c \in Grants!ObjectCell :
          b = [op |-> Grants!Revoke({c}, FALSE, FALSE), asks |-> [x \in {c} |-> {"none"}],
               direct |-> Grants!Rows(from[c]) = {Owner}]
    BY DEF Grants!Buttons
  <1>2. /\ s.op = Grants!Revoke({c}, FALSE, FALSE) /\ s.asks = [x \in {c} |-> {"none"}]
    BY <1>1 DEF Saved
  <1> HIDE DEF s
  <1>3. s.op.op = "revoke" /\ s.op.cells = {c} /\ \A v : Grants!Given(v, s.op) = "none"
    BY <1>2 DEF Grants!Revoke, Grants!Given
  <1>4. /\ s.op.cells \subseteq DOMAIN s.asks
        /\ \A x \in DOMAIN s.asks :
              x \in s.op.cells /\ \A v : Grants!Given(v, s.op) \in s.asks[x]
    BY <1>2, <1>3
  <1>5. GrantsItem(s)
    BY <1>3, <1>4, GrantsItemIf
  <1> QED BY <1>5 DEF s

-----------------------------------------------------------------------------
(* Items about roles                                                       *)

(* The kind of a cell is its first component.                              *)
LEMMA RoleCells ==
  ASSUME NEW c \in Roles!Cell
  PROVE  /\ c \in Roles!RoleCell <=> c[1] = "role"
         /\ c \in Roles!AttrCell <=> c[1] = "attr"
         /\ c \in Roles!MemberCell <=> c[1] = "member"
         /\ c \in Roles!OwnerCell <=> c[1] = "owner"
         /\ c[1] = "role" => c = <<"role", c[2]>> /\ c[2] \in Role
         /\ c[1] = "attr" => /\ c = Attr(c[2], c[3]) /\ c[2] \in Role
                             /\ c[3] \in {"login", "connlimit", "password"}
  <1>1. /\ \A x \in Roles!RoleCell : x[1] = "role" /\ x = <<"role", x[2]>> /\ x[2] \in Role
        /\ \A x \in Roles!AttrCell : /\ x[1] = "attr" /\ x = Attr(x[2], x[3]) /\ x[2] \in Role
                                     /\ x[3] \in {"login", "connlimit", "password"}
    BY DEF Roles!RoleCell, Roles!AttrCell, Attr
  <1>2. \A x \in Roles!MemberCell : x[1] = "member"
    BY DEF Roles!MemberCell
  <1>3. \A x \in Roles!OwnerCell : x[1] = "owner"
    BY DEF Roles!OwnerCell
  <1> QED BY <1>1, <1>2, <1>3 DEF Roles!Cell

(* The operations of the forms and of the others.                          *)
AboutRole(op, sets) == \A c \in DOMAIN sets : c[1] = "attr" /\ c[2] = op.role
RoleOp(op) ==
    \/ op.op \in {"alter_role", "create_role"} /\ AboutRole(op, op.sets)
    \/ op.op \in {"grant_role", "revoke_role", "drop_role", "reassign_owned"}
    \/ op.op = "alter_owner" /\ op.cell \in Roles!OwnerCell

(* What each of them leaves in a cell.                                     *)
RoleEffectIs(cat, op, c) ==
    LET v == Roles!Effect(cat, op)[c]
    IN  /\ op.op = "alter_role" => v = IF c \in DOMAIN op.sets THEN op.sets[c] ELSE cat[c]
        /\ op.op = "create_role" =>
             v = IF c = <<"role", op.role>> THEN TRUE
                 ELSE IF c \in DOMAIN op.sets THEN op.sets[c]
                 ELSE IF c \in {<<"member", r, op.role, "us">> : r \in op.member_of}
                      THEN {"member", "inherit", "set"} ELSE cat[c]
        /\ op.op = "grant_role" =>
             v = IF c = <<"member", op.role, op.member, "us">> THEN Roles!Membership(cat[c], op) ELSE cat[c]
        /\ op.op = "revoke_role" =>
             v = IF c = <<"member", op.role, op.member, "us">> THEN {} ELSE cat[c]
        /\ op.op = "alter_owner" => v = IF c = op.cell THEN op.role ELSE cat[c]
        /\ op.op = "reassign_owned" => v = IF c \in Roles!Owned(cat, op.role) THEN op.to ELSE cat[c]
        /\ op.op = "drop_role" =>
             v = IF c \in Roles!Owned(cat, op.role) THEN op.to
                 ELSE IF c = <<"role", op.role>> THEN FALSE
                 ELSE IF c \in Roles!OfRole(op.role) THEN Roles!Default(c) ELSE cat[c]

LEMMA RoleEffects ==
  ASSUME NEW cat, NEW op, NEW c \in Roles!Cell
  PROVE  RoleEffectIs(cat, op, c)
  <1> DEFINE v == Roles!Effect(cat, op)[c]
             members == {<<"member", r, op.role, "us">> : r \in op.member_of}
  <1>1. v = CASE op.op = "alter_role" /\ c \in DOMAIN op.sets -> op.sets[c]
              [] op.op = "create_role" ->
                    IF c = <<"role", op.role>> THEN TRUE
                    ELSE IF c \in DOMAIN op.sets THEN op.sets[c]
                    ELSE IF c \in members THEN {"member", "inherit", "set"} ELSE cat[c]
              [] op.op = "grant_role" /\ c = <<"member", op.role, op.member, "us">> -> Roles!Membership(cat[c], op)
              [] op.op = "revoke_role" /\ c = <<"member", op.role, op.member, "us">> -> {}
              [] op.op = "alter_owner" /\ c = op.cell -> op.role
              [] op.op \in {"reassign_owned", "drop_role"} /\ c \in Roles!Owned(cat, op.role) -> op.to
              [] op.op = "drop_role" /\ c = <<"role", op.role>> -> FALSE
              [] op.op = "drop_role" /\ c \in Roles!OfRole(op.role) -> Roles!Default(c)
              [] OTHER -> cat[c]
    BY DEF Roles!Effect
  <1> HIDE DEF v, members
  <1>2. v = CASE op.op = "alter_role" -> IF c \in DOMAIN op.sets THEN op.sets[c] ELSE cat[c]
              [] op.op = "create_role" ->
                    IF c = <<"role", op.role>> THEN TRUE
                    ELSE IF c \in DOMAIN op.sets THEN op.sets[c]
                    ELSE IF c \in members THEN {"member", "inherit", "set"} ELSE cat[c]
              [] OTHER -> v
    <2>1. CASE op.op = "alter_role"
      BY <1>1, <2>1
    <2>2. CASE op.op = "create_role"
      BY <1>1, <2>2
    <2> QED BY <2>1, <2>2
  <1>3. /\ op.op = "alter_role" => v = IF c \in DOMAIN op.sets THEN op.sets[c] ELSE cat[c]
        /\ op.op = "create_role" =>
             v = IF c = <<"role", op.role>> THEN TRUE
                 ELSE IF c \in DOMAIN op.sets THEN op.sets[c]
                 ELSE IF c \in members THEN {"member", "inherit", "set"} ELSE cat[c]
    BY <1>2
  <1>4. /\ op.op = "grant_role" =>
             v = IF c = <<"member", op.role, op.member, "us">> THEN Roles!Membership(cat[c], op) ELSE cat[c]
        /\ op.op = "revoke_role" =>
             v = IF c = <<"member", op.role, op.member, "us">> THEN {} ELSE cat[c]
        /\ op.op = "alter_owner" => v = IF c = op.cell THEN op.role ELSE cat[c]
    BY <1>1
  <1>5. op.op = "reassign_owned" => v = IF c \in Roles!Owned(cat, op.role) THEN op.to ELSE cat[c]
    BY <1>1
  <1>6. ASSUME op.op = "drop_role"
        PROVE  v = IF c \in Roles!Owned(cat, op.role) THEN op.to
                   ELSE IF c = <<"role", op.role>> THEN FALSE
                   ELSE IF c \in Roles!OfRole(op.role) THEN Roles!Default(c) ELSE cat[c]
    <2>1. c \in Roles!Owned(cat, op.role) => c \in Roles!OwnerCell
      BY DEF Roles!Owned
    <2>2. c \in Roles!OfRole(op.role) => c \in Roles!AttrCell \/ c \in Roles!MemberCell
      BY DEF Roles!OfRole
    <2>3. c = <<"role", op.role>> => c[1] = "role"
      OBVIOUS
    <2>4. /\ c \in Roles!Owned(cat, op.role) => c # <<"role", op.role>> /\ c \notin Roles!OfRole(op.role)
          /\ c = <<"role", op.role>> => c \notin Roles!OfRole(op.role)
      BY <2>1, <2>2, <2>3, RoleCells
    <2> QED BY <1>1, <1>6, <2>4
  <1> QED BY <1>3, <1>4, <1>5, <1>6 DEF RoleEffectIs, v, members

(* They leave a role that does not exist without attributes.               *)
LEMMA RolesEffect ==
  ASSUME NEW cat, Roles!InOrder(cat), NEW op, RoleOp(op), ~Roles!Refused(cat, op)
  PROVE  Roles!InOrder(Roles!Effect(cat, op))
  <1> DEFINE eff == Roles!Effect(cat, op)
  <1>1. eff = [c \in Roles!Cell |-> eff[c]]
    BY DEF Roles!Effect
  <1> SUFFICES ASSUME NEW c \in Roles!AttrCell, ~Roles!Exists(eff, c[2]) PROVE eff[c] = Roles!Default(c)
    BY <1>1 DEF Roles!InOrder
  <1> DEFINE b == <<"role", c[2]>>
  <1>2. /\ c \in Roles!Cell /\ c[1] = "attr" /\ c[2] \in Role
        /\ c \notin Roles!OwnerCell /\ c \notin Roles!MemberCell /\ c \notin Roles!RoleCell
    BY RoleCells DEF Roles!Cell
  <1>3. /\ b \in Roles!Cell /\ b[1] = "role" /\ b[2] = c[2] /\ b # c
        /\ b \notin Roles!OwnerCell /\ b \notin Roles!AttrCell /\ b \notin Roles!MemberCell
    <2>1. b \in Roles!Cell /\ b[1] = "role" /\ b[2] = c[2]
      BY <1>2 DEF Roles!Cell, Roles!RoleCell
    <2> QED BY <1>2, <2>1, RoleCells
  <1>4. /\ ~Roles!Exists(cat, c[2]) => cat[c] = Roles!Default(c)
        /\ Roles!Exists(cat, c[2]) = cat[b] /\ Roles!Exists(eff, c[2]) = eff[b]
    BY DEF Roles!InOrder, Roles!Exists
  <1>5. \A r, m : c # <<"member", r, m, "us">> /\ b # <<"member", r, m, "us">>
    <2>1. \A r, m : <<"member", r, m, "us">>[1] = "member"
      OBVIOUS
    <2> QED BY <1>2, <1>3, <2>1
  <1>6. /\ c # <<"role", op.role>>
        /\ b = <<"role", op.role>> <=> c[2] = op.role
    <2>1. <<"role", op.role>>[1] = "role" /\ <<"role", op.role>>[2] = op.role
      OBVIOUS
    <2> QED BY <1>2, <1>3, <2>1
  <1> HIDE DEF b, eff
  <1>7. RoleEffectIs(cat, op, b) /\ RoleEffectIs(cat, op, c)
    BY <1>2, <1>3, RoleEffects
  <1>8. CASE op.op = "alter_role" /\ AboutRole(op, op.sets)
    <2>1. eff[b] = cat[b]
      BY <1>3, <1>7, <1>8 DEF AboutRole, RoleEffectIs, eff
    <2>2. c \in DOMAIN op.sets => c[2] = op.role
      BY <1>8 DEF AboutRole
    <2>3. Roles!Exists(cat, op.role)
      BY <1>8 DEF Roles!Refused
    <2>4. c \notin DOMAIN op.sets => eff[c] = cat[c]
      BY <1>7, <1>8 DEF RoleEffectIs, eff
    <2> QED BY <1>4, <2>1, <2>2, <2>3, <2>4
  <1>9. CASE op.op = "create_role" /\ AboutRole(op, op.sets)
    <2>1. c[2] # op.role
      <3>1. b = <<"role", op.role>> => eff[b] = TRUE
        BY <1>7, <1>9 DEF RoleEffectIs, eff
      <3> QED BY <1>4, <1>6, <3>1
    <2>2. c \notin DOMAIN op.sets /\ b \notin DOMAIN op.sets
      BY <1>3, <1>9, <2>1 DEF AboutRole
    <2>3. c \notin {<<"member", r, op.role, "us">> : r \in op.member_of}
          /\ b \notin {<<"member", r, op.role, "us">> : r \in op.member_of}
      BY <1>5
    <2>4. eff[b] = cat[b] /\ eff[c] = cat[c]
      BY <1>6, <1>7, <1>9, <2>1, <2>2, <2>3 DEF RoleEffectIs, eff
    <2> QED BY <1>4, <2>4
  <1>10. CASE op.op \in {"grant_role", "revoke_role"}
    <2>1. eff[b] = cat[b] /\ eff[c] = cat[c]
      BY <1>5, <1>7, <1>10 DEF RoleEffectIs, eff
    <2> QED BY <1>4, <2>1
  <1>11. CASE op.op \in {"drop_role", "reassign_owned"}
    <2>1. \A r : c \notin Roles!Owned(cat, r) /\ b \notin Roles!Owned(cat, r)
      BY <1>2, <1>3 DEF Roles!Owned
    <2>2. \A r : b \notin Roles!OfRole(r) /\ (c \in Roles!OfRole(r) <=> c[2] = r)
      BY <1>2, <1>3 DEF Roles!OfRole
    <2>3. CASE op.op = "reassign_owned"
      BY <1>4, <1>7, <2>1, <2>3 DEF RoleEffectIs, eff
    <2>4. CASE op.op = "drop_role" /\ c[2] = op.role
      BY <1>6, <1>7, <2>1, <2>2, <2>4 DEF RoleEffectIs, eff
    <2>5. CASE op.op = "drop_role" /\ c[2] # op.role
      <3>1. eff[b] = cat[b] /\ eff[c] = cat[c]
        BY <1>6, <1>7, <2>1, <2>2, <2>5 DEF RoleEffectIs, eff
      <3> QED BY <1>4, <3>1
    <2> QED BY <1>11, <2>3, <2>4, <2>5
  <1>12. CASE op.op = "alter_owner" /\ op.cell \in Roles!OwnerCell
    <2>1. eff[b] = cat[b] /\ eff[c] = cat[c]
      BY <1>2, <1>3, <1>7, <1>12 DEF RoleEffectIs, eff
    <2> QED BY <1>4, <2>1
  <1> QED BY <1>8, <1>9, <1>10, <1>11, <1>12 DEF RoleOp

LEMMA RolesForeign ==
  ASSUME NEW cat, Roles!InOrder(cat), NEW new \in Roles!Foreign(cat)
  PROVE  Roles!InOrder(new)
  <1>1. PICK op \in Roles!Commands : ~Roles!Refused(cat, op) /\ new = Roles!Effect(cat, op)
    BY DEF Roles!Foreign
  <1>2. RoleOp(op)
    <2>1. ASSUME NEW v, op \in Roles!Logins(v)
          PROVE  RoleOp(op)
      <3>1. PICK r \in Role : op = Roles!AlterRole(r, [c \in {<<"attr", r, "login">>} |-> v])
        BY <2>1 DEF Roles!Logins
      <3> QED BY <3>1 DEF Roles!AlterRole, RoleOp, AboutRole
    <2>2. CASE op \in {Roles!CreateRole(r, [c \in {} |-> ""], {}) : r \in Role}
      BY <2>2 DEF Roles!CreateRole, RoleOp, AboutRole
    <2>3. CASE op \in {Roles!DropRole(r, None, FALSE) : r \in Role}
      BY <2>3 DEF Roles!DropRole, RoleOp
    <2>4. CASE op \in {Roles!AlterOwner(x[1], x[2]) : x \in Roles!OwnerCell \X Role}
      BY <2>4 DEF Roles!AlterOwner, RoleOp
    <2>5. CASE op \in {Roles!RevokeRole(x[1], x[2]) : x \in {y \in Role \X Role : y[1] # y[2]}}
      <3>1. PICK x \in {y \in Role \X Role : y[1] # y[2]} : op = Roles!RevokeRole(x[1], x[2])
        BY <2>5
      <3> QED BY <3>1 DEF Roles!RevokeRole, RoleOp
    <2> QED BY <2>1, <2>2, <2>3, <2>4, <2>5 DEF Roles!Commands
  <1> QED BY <1>1, <1>2, RolesEffect

(* What makes an item about roles keep its promise.                        *)
LEMMA RolesItemIf ==
  ASSUME NEW s, RoleOp(s.op),
         \A cat : Roles!InOrder(cat) /\ ~Roles!Refused(cat, s.op) =>
            \A c \in Roles!Cell :
               /\ s.direct /\ Roles!Effect(cat, s.op)[c] # cat[c] =>
                     c \in DOMAIN s.asks \cup Roles!Reach(cat, s.op)
               /\ s.direct /\ c \in DOMAIN s.asks \ s.ignored /\ cat[c] = s.was[c] =>
                     Roles!Effect(cat, s.op)[c] \in s.asks[c]
  PROVE  RolesItem(s)
  BY RolesEffect DEF RolesItem

(* The attributes of a role,                                               *)
LEMMA AlterSaves ==
  ASSUME page = "roles", NEW from, NEW d, d.editor = "RoleForm", d.role # None,
         NEW asks, asks = [c \in Touched(from, d) |-> Roles!Asks(from, d)[c]]
  PROVE  RolesItem(Saved(Roles!AlterRole(d.role, Roles!Attrs(from, d, d.role)),
                         asks, from, TRUE, TRUE, Roles!Ignored(d)))
  <1> DEFINE sets == Roles!Attrs(from, d, d.role)
             op == Roles!AlterRole(d.role, sets)
             s == Saved(op, asks, from, TRUE, TRUE, Roles!Ignored(d))
             shown == Roles!AsksAttrs(d, d.role)
  <1>1. op.op = "alter_role" /\ op.sets = sets /\ op.role = d.role
    BY DEF Roles!AlterRole
  <1>2. s.op = op /\ s.asks = asks /\ s.ignored = Roles!Ignored(d)
    BY DEF Saved
  <1>3. DOMAIN asks \ Roles!Ignored(d) = DOMAIN sets /\ \A c \in DOMAIN sets : asks[c] = shown[c]
    BY RoleTouched DEF Roles!Asks, Roles!AsksRole
  <1>4. SentIs(from, d, d.role)
    BY AttrsSent
  <1>5. ASSUME NEW c \in DOMAIN sets PROVE sets[c] \in shown[c] /\ c[1] = "attr" /\ c[2] = d.role
    <2>1. PICK f \in {"login", "connlimit", "password"} : c = Attr(d.role, f)
      BY <1>4 DEF SentIs
    <2>2. sets[c] \in shown[c]
      <3>1. /\ shown[Attr(d.role, "login")] = {d.login}
            /\ d.connlimit # "" => shown[Attr(d.role, "connlimit")] = {d.connlimit}
            /\ d.clear \/ d.typed =>
                 shown[Attr(d.role, "password")] = {IF d.clear THEN "none" ELSE "new"}
        BY ONLY AttrsShown
      <3> HIDE DEF sets, shown
      <3>2. CASE f = "login"
        BY <1>4, <2>1, <3>1, <3>2 DEF SentIs, sets
      <3>3. CASE f = "connlimit"
        BY <1>4, <2>1, <3>1, <3>3 DEF SentIs, sets
      <3>4. CASE f = "password"
        BY <1>4, <2>1, <3>1, <3>4 DEF SentIs, sets
      <3> QED BY <3>2, <3>3, <3>4
    <2> QED BY <2>1, <2>2 DEF Attr
  <1> HIDE DEF sets, op, s, shown
  <1>6. RoleOp(op)
    BY <1>1, <1>5 DEF RoleOp, AboutRole
  <1>7. ASSUME NEW cat, NEW c \in Roles!Cell
        PROVE  Roles!Effect(cat, op)[c] = IF c \in DOMAIN sets THEN sets[c] ELSE cat[c]
    <2>1. RoleEffectIs(cat, op, c)
      BY RoleEffects
    <2> QED BY <1>1, <2>1 DEF RoleEffectIs
  <1>8. RolesItem(s)
    BY <1>2, <1>3, <1>5, <1>6, <1>7, RolesItemIf
  <1> QED BY <1>8 DEF s, op, sets

(* a new role: what is left out of the operation is as the server sets it, *)
LEMMA CreateSaves ==
  ASSUME page = "roles", NEW from, NEW d, d.editor = "RoleForm", d.role = None, d.name # None,
         NEW asks, asks = [c \in Touched(from, d) |-> Roles!Asks(from, d)[c]]
  PROVE  RolesItem(Saved(Roles!CreateRole(d.name, Roles!Attrs(from, d, d.name), d.member_of),
                         asks, from, TRUE, TRUE, Roles!Ignored(d)))
  <1> DEFINE sets == Roles!Attrs(from, d, d.name)
             op == Roles!CreateRole(d.name, sets, d.member_of)
             s == Saved(op, asks, from, TRUE, TRUE, Roles!Ignored(d))
             shown == Roles!AsksAttrs(d, d.name)
             members == {<<"member", r, d.name, "us">> : r \in d.member_of}
             all == Roles!AsksRole(d)
  <1>1. op.op = "create_role" /\ op.sets = sets /\ op.role = d.name /\ op.member_of = d.member_of
    BY DEF Roles!CreateRole
  <1>2. s.op = op /\ s.asks = asks /\ s.ignored = Roles!Ignored(d)
    BY DEF Saved
  <1>3. Touched(from, d) = DOMAIN all /\ DOMAIN sets \subseteq Touched(from, d)
        /\ DOMAIN all = DOMAIN shown \cup members \cup {<<"role", d.name>>}
    BY NewRoleTouched
  <1>4. DOMAIN asks = DOMAIN all /\ \A c \in DOMAIN asks : asks[c] = all[c]
    BY <1>3 DEF Roles!Asks
  <1>5. all = [c \in DOMAIN shown \cup members \cup {<<"role", d.name>>} |->
                 CASE c \in DOMAIN shown -> shown[c]
                   [] c \in members -> {v \in SUBSET Roles!Options : "member" \in v}
                   [] OTHER -> {TRUE}]
    BY DEF Roles!AsksRole
  <1>6. SentIs(from, d, d.name)
    BY AttrsSent
  <1>7. /\ \A c \in DOMAIN shown : \E f \in {"login", "connlimit", "password"} : c = Attr(d.name, f)
        /\ Attr(d.name, "login") \in DOMAIN shown
        /\ Attr(d.name, "connlimit") \in DOMAIN shown <=> d.connlimit # ""
        /\ Attr(d.name, "password") \in DOMAIN shown <=> d.clear \/ d.typed
        /\ shown[Attr(d.name, "login")] = {d.login}
        /\ d.connlimit # "" => shown[Attr(d.name, "connlimit")] = {d.connlimit}
        /\ d.clear \/ d.typed => shown[Attr(d.name, "password")] = {IF d.clear THEN "none" ELSE "new"}
    BY ONLY AttrsShown
  <1>8. \A c \in DOMAIN sets : \E f \in {"login", "connlimit", "password"} : c = Attr(d.name, f)
    BY <1>6 DEF SentIs
  <1> HIDE DEF sets, op, s, shown, members, all
  <1>9. /\ \A c \in DOMAIN shown : c[1] = "attr" /\ c[2] = d.name
        /\ \A c \in DOMAIN sets : c[1] = "attr" /\ c[2] = d.name
        /\ \A c \in members : c[1] = "member"
    <2>1. \A f : Attr(d.name, f)[1] = "attr" /\ Attr(d.name, f)[2] = d.name
      BY DEF Attr
    <2>2. \A c \in members : c[1] = "member"
      BY DEF members
    <2>3. \A c \in DOMAIN shown : c[1] = "attr" /\ c[2] = d.name
      BY <1>7, <2>1
    <2>4. \A c \in DOMAIN sets : c[1] = "attr" /\ c[2] = d.name
      BY <1>8, <2>1 DEF sets
    <2> QED BY <2>2, <2>3, <2>4
  <1>10. RoleOp(op)
    BY <1>1, <1>9 DEF RoleOp, AboutRole
  <1>11. ASSUME NEW cat, NEW c \in Roles!Cell
         PROVE  Roles!Effect(cat, op)[c] = IF c = <<"role", d.name>> THEN TRUE
                                           ELSE IF c \in DOMAIN sets THEN sets[c]
                                           ELSE IF c \in members THEN {"member", "inherit", "set"} ELSE cat[c]
    <2>1. RoleEffectIs(cat, op, c)
      BY RoleEffects
    <2> QED BY <1>1, <2>1 DEF RoleEffectIs, members
  <1>12. ASSUME NEW f \in {"login", "connlimit", "password"}, Attr(d.name, f) \in DOMAIN shown
         PROVE  /\ Attr(d.name, f) \in DOMAIN sets => sets[Attr(d.name, f)] \in shown[Attr(d.name, f)]
                /\ Attr(d.name, f) \notin DOMAIN sets /\ Attr(d.name, f) \notin Roles!Ignored(d) =>
                     Roles!Default(Attr(d.name, f)) \in shown[Attr(d.name, f)]
    <2>1. CASE f = "login"
      BY <1>6, <1>7, <2>1 DEF SentIs, sets
    <2>2. CASE f = "connlimit"
      <3>1. Roles!Default(Attr(d.name, "connlimit")) = "-1"
        BY DEF Roles!Default, Attr
      <3>2. Attr(d.name, "connlimit") \in Roles!Ignored(d) <=> d.connlimit = Roles!Fraction
        BY LeftOut
      <3> QED BY <1>6, <1>7, <1>12, <2>2, <3>1, <3>2 DEF SentIs, sets
    <2>3. CASE f = "password"
      BY <1>6, <1>7, <1>12, <2>3 DEF SentIs, sets
    <2> QED BY <2>1, <2>2, <2>3
  <1>13. ASSUME NEW cat, Roles!InOrder(cat), ~Roles!Refused(cat, op), NEW c \in Roles!Cell
         PROVE  /\ Roles!Effect(cat, op)[c] # cat[c] => c \in DOMAIN asks
                /\ c \in DOMAIN asks \ Roles!Ignored(d) => Roles!Effect(cat, op)[c] \in asks[c]
    <2>1. Roles!Effect(cat, op)[c] # cat[c] => c \in DOMAIN asks
      BY <1>3, <1>4, <1>11
    <2>2. ASSUME c = <<"role", d.name>> PROVE c \notin DOMAIN shown /\ c \notin members
      BY <1>9, <2>2
    <2>3. CASE c = <<"role", d.name>>
      <3>1. c \in DOMAIN all /\ c \in DOMAIN asks /\ asks[c] = all[c]
        BY <1>3, <1>4, <2>3
      <3>2. all[c] = {TRUE}
        BY <1>3, <1>5, <2>2, <2>3, <3>1
      <3>3. Roles!Effect(cat, op)[c] = TRUE
        BY <1>11, <2>3
      <3> QED BY <3>1, <3>2, <3>3
    <2>4. CASE c \in members
      <3>1. c \notin DOMAIN shown /\ c \notin DOMAIN sets /\ c # <<"role", d.name>>
        BY <1>9, <2>4
      <3>2. Roles!Effect(cat, op)[c] = {"member", "inherit", "set"}
        BY <1>11, <2>4, <3>1
      <3>3. {"member", "inherit", "set"} \in {v \in SUBSET Roles!Options : "member" \in v}
        BY DEF Roles!Options
      <3>4. asks[c] = {v \in SUBSET Roles!Options : "member" \in v}
        BY <1>3, <1>4, <1>5, <2>4, <3>1
      <3> QED BY <2>1, <3>2, <3>3, <3>4
    <2>5. CASE c \in DOMAIN shown
      <3>1. c \notin members /\ c # <<"role", d.name>> /\ c[1] = "attr" /\ c[2] = d.name
        BY <1>9, <2>5
      <3>2. asks[c] = shown[c]
        BY <1>3, <1>4, <1>5, <2>5, <3>1
      <3>3. PICK f \in {"login", "connlimit", "password"} : c = Attr(d.name, f)
        BY <1>7, <2>5
      <3>4. ASSUME c \notin DOMAIN sets PROVE cat[c] = Roles!Default(c)
        <4>1. ~Roles!Exists(cat, c[2])
          BY <1>1, <1>13, <3>1 DEF Roles!Refused
        <4>2. c \in Roles!AttrCell
          BY <3>1, RoleCells
        <4> QED BY <1>13, <4>1, <4>2 DEF Roles!InOrder
      <3>5. Roles!Effect(cat, op)[c] = IF c \in DOMAIN sets THEN sets[c] ELSE cat[c]
        BY <1>11, <3>1
      <3>6. c \notin Roles!Ignored(d) => Roles!Effect(cat, op)[c] \in asks[c]
        BY <1>12, <2>5, <3>2, <3>3, <3>4, <3>5
      <3> QED BY <2>1, <3>6
    <2> QED BY <1>3, <1>4, <2>1, <2>3, <2>4, <2>5
  <1>14. RolesItem(s)
    BY <1>2, <1>10, <1>13, RolesItemIf
  <1> QED BY <1>14 DEF s, op, sets

(* a membership, whose new row has the options that were chosen,           *)
LEMMA MemberSaves ==
  ASSUME page = "roles", NEW from, NEW d \in MemberDraft, Roles!CanSave(d),
         NEW asks, asks = [c \in Touched(from, d) |-> Roles!Asks(from, d)[c]]
  PROVE  RolesItem(Saved(Roles!GrantRole(d.role, d.member, d.options),
                         asks, from, TRUE, TRUE, Roles!Ignored(d)))
  <1> DEFINE op == Roles!GrantRole(d.role, d.member, d.options)
             s == Saved(op, asks, from, TRUE, TRUE, Roles!Ignored(d))
             b == <<"member", d.role, d.member, "us">>
             Good == {v \in SUBSET Roles!Options :
                        /\ "member" \in v
                        /\ \A o \in DOMAIN d.options : /\ d.options[o] = "true" => o \in v
                                                      /\ d.options[o] = "false" => o \notin v}
             first == Roles!MemberDraft(d.pg16)
  <1>1. /\ op.op = "grant_role" /\ op.role = d.role /\ op.member = d.member /\ op.options = d.options
    BY DEF Roles!GrantRole
  <1>2. s.op = op /\ s.asks = asks
    BY DEF Saved
  <1>3. d.editor = "AddMembership" /\ d.options \in [{"admin", "inherit", "set"} -> {"", "true", "false"}]
    BY DEF MemberDraft
  <1>4. Roles!Asks(from, d) = [c \in {b} |-> Good]
    BY <1>3 DEF Roles!Asks, Roles!AsksMember
  <1>5. Roles!Asks(from, first) = <<>>
    <2>1. first.editor = "AddMembership" /\ first.role = None /\ first.member = None
      BY DEF Roles!MemberDraft
    <2> HIDE DEF first
    <2>2. ~Roles!CanSave(first)
      BY <2>1 DEF Roles!CanSave
    <2> QED BY <2>1, <2>2 DEF Roles!Asks, Roles!AsksMember
  <1>6. Roles!Loaded(from, d) = first
    BY <1>3 DEF Roles!Loaded
  <1> HIDE DEF op, s, b, Good, first
  <1>7. Touched(from, d) = {b}
    <2>1. Touched(from, d) = {c \in {b} : c \notin DOMAIN <<>> \/ <<>>[c] # Good}
      BY <1>4, <1>5, <1>6 DEF Touched, Asks, Loaded, ForPage
    <2> QED BY <2>1
  <1>8. asks = [c \in {b} |-> Good]
    BY <1>4, <1>7
  <1>9. ASSUME NEW old PROVE Roles!Membership(old, op) \in Good
    <2> DEFINE v == Roles!Membership(old, op)
    <2>1. /\ v \subseteq Roles!Options /\ "member" \in v
          /\ \A o \in {"admin", "inherit", "set"} :
                /\ d.options[o] = "true" => o \in v
                /\ d.options[o] = "false" => o \notin v
      BY <1>1, <1>3 DEF Roles!Membership, Roles!Options
    <2> HIDE DEF v
    <2>2. v \in Good
      BY <1>3, <2>1 DEF Good
    <2> QED BY <2>2 DEF v
  <1>10. RoleOp(op)
    BY <1>1 DEF RoleOp
  <1>11. ASSUME NEW cat, NEW c \in Roles!Cell
         PROVE  /\ Roles!Effect(cat, op)[c] # cat[c] => c \in DOMAIN asks
                /\ c \in DOMAIN asks => Roles!Effect(cat, op)[c] \in asks[c]
    <2>1. RoleEffectIs(cat, op, c)
      BY RoleEffects
    <2>2. Roles!Effect(cat, op)[c] = IF c = b THEN Roles!Membership(cat[c], op) ELSE cat[c]
      BY <1>1, <2>1 DEF RoleEffectIs, b
    <2> QED BY <1>8, <1>9, <2>2
  <1>12. RolesItem(s)
    BY <1>2, <1>10, <1>11, RolesItemIf
  <1> QED BY <1>12 DEF s, op

(* The forms that give away what a role owns ask for what the page shows   *)
(* of it.                                                                  *)
LEMMA PickTouched ==
  ASSUME page = "roles", NEW from, NEW d, d.editor \in {"DropRole", "ReassignOwned", "ChangeOwner"}
  PROVE  Touched(from, d) = DOMAIN Roles!Asks(from, d)
  <1> DEFINE first == Roles!Pick("", d.row)
             now == Roles!Asks(from, d)
  <1>1. Roles!Loaded(from, d) = first
    BY DEF Roles!Loaded
  <1>2. Roles!Asks(from, first) = <<>>
    BY DEF Roles!Asks, Roles!Pick
  <1> HIDE DEF first, now
  <1>3. Touched(from, d) = {c \in DOMAIN now : c \notin DOMAIN <<>> \/ <<>>[c] # now[c]}
    BY <1>1, <1>2 DEF Touched, Asks, Loaded, ForPage, now
  <1> QED BY <1>3 DEF now

(* What a role owns and the role that is dropped,                          *)
LEMMA GivenAwaySaves ==
  ASSUME page = "roles", NEW from, NEW d,
         NEW asks, asks = [c \in Touched(from, d) |-> Roles!Asks(from, d)[c]],
         NEW op, \/ d.editor = "DropRole" /\ op = Roles!DropRole(d.row, d.to, d.drop_owned)
                 \/ d.editor = "ReassignOwned" /\ op = Roles!ReassignOwned(d.row, d.to)
  PROVE  RolesItem(Saved(op, asks, from, TRUE, TRUE, Roles!Ignored(d)))
  <1> DEFINE s == Saved(op, asks, from, TRUE, TRUE, Roles!Ignored(d))
             owned == {x \in Roles!Owned(from, d.row) : d.to # None \/ d.drop_owned}
             dropped == IF d.editor = "DropRole" THEN {<<"role", d.row>>} ELSE {}
  <1>1. /\ op.role = d.row /\ op.to = d.to
        /\ \/ d.editor = "DropRole" /\ op.op = "drop_role"
           \/ d.editor = "ReassignOwned" /\ op.op = "reassign_owned"
    BY DEF Roles!DropRole, Roles!ReassignOwned
  <1>2. s.op = op /\ s.asks = asks /\ s.was = [c \in DOMAIN asks |-> from[c]]
    BY DEF Saved
  <1>3. Roles!Asks(from, d) = [c \in owned \cup dropped |-> IF c \in owned THEN {d.to} ELSE {FALSE}]
    BY DEF Roles!Asks
  <1>4. owned \subseteq Roles!Owned(from, d.row)
    OBVIOUS
  <1>9. dropped = IF d.editor = "DropRole" THEN {<<"role", d.row>>} ELSE {}
    OBVIOUS
  <1> HIDE DEF s, owned, dropped
  <1>5. asks = [c \in owned \cup dropped |-> IF c \in owned THEN {d.to} ELSE {FALSE}]
    <2>1. Touched(from, d) = DOMAIN Roles!Asks(from, d)
      BY PickTouched
    <2> QED BY <1>3, <2>1
  <1>6. RoleOp(op)
    BY <1>1 DEF RoleOp
  <1>7. ASSUME NEW cat, NEW c \in Roles!Cell
        PROVE  /\ Roles!Effect(cat, op)[c] # cat[c] => c \in DOMAIN asks \cup Roles!Reach(cat, op)
               /\ c \in DOMAIN asks /\ cat[c] = s.was[c] => Roles!Effect(cat, op)[c] \in asks[c]
    <2>1. RoleEffectIs(cat, op, c)
      BY RoleEffects
    <2>2. ASSUME c \in Roles!Owned(cat, d.row) \cup Roles!OfRole(d.row), Roles!Effect(cat, op)[c] # cat[c]
          PROVE  c \in Roles!Reach(cat, op)
      <3>1. CASE op.op = "drop_role"
        BY <1>1, <2>2, <3>1 DEF Roles!Reach
      <3>2. CASE op.op = "reassign_owned"
        <4>1. c \in Roles!Owned(cat, d.row)
          BY <1>1, <2>1, <2>2, <3>2 DEF RoleEffectIs
        <4> QED BY <1>1, <3>2, <4>1 DEF Roles!Reach
      <3> QED BY <1>1, <3>1, <3>2
    <2>3. Roles!Effect(cat, op)[c] # cat[c]
             => \/ c \in Roles!Owned(cat, d.row) \cup Roles!OfRole(d.row)
                \/ op.op = "drop_role" /\ c = <<"role", d.row>>
      <3>1. CASE op.op = "drop_role"
        <4>1. c \notin Roles!Owned(cat, op.role) /\ c # <<"role", op.role>> /\ c \notin Roles!OfRole(op.role)
                 => Roles!Effect(cat, op)[c] = cat[c]
          BY ONLY <2>1, <3>1 DEF RoleEffectIs
        <4>2. op.role = d.row
          BY <1>1
        <4> QED BY <3>1, <4>1, <4>2
      <3>2. CASE op.op = "reassign_owned"
        BY <1>1, <2>1, <3>2 DEF RoleEffectIs
      <3> QED BY <1>1, <3>1, <3>2
    <2>4. op.op = "drop_role" /\ c = <<"role", d.row>> => c \in DOMAIN asks
      BY <1>1, <1>5, <1>9
    <2>5. ASSUME c \in owned, cat[c] = s.was[c] PROVE Roles!Effect(cat, op)[c] \in asks[c]
      <3>1. c \in DOMAIN asks /\ asks[c] = {d.to} /\ s.was[c] = from[c]
        BY <1>2, <1>5, <2>5
      <3>2. c \in Roles!Owned(cat, d.row)
        BY <1>4, <2>5, <3>1 DEF Roles!Owned
      <3>3. Roles!Effect(cat, op)[c] = d.to
        BY <1>1, <2>1, <3>2 DEF RoleEffectIs
      <3> QED BY <3>1, <3>3
    <2>6. ASSUME c \in DOMAIN asks, c \notin owned PROVE Roles!Effect(cat, op)[c] \in asks[c]
      <3>1. c = <<"role", d.row>> /\ asks[c] = {FALSE} /\ op.op = "drop_role"
        BY <1>1, <1>5, <1>9, <2>6
      <3>2. c \notin Roles!Owned(cat, d.row)
        <4>1. c[1] = "role"
          BY <3>1
        <4> QED BY <4>1, RoleCells DEF Roles!Owned
      <3>3. Roles!Effect(cat, op)[c] = FALSE
        BY <1>1, <2>1, <3>1, <3>2 DEF RoleEffectIs
      <3> QED BY <3>1, <3>3
    <2> QED BY <2>2, <2>3, <2>4, <2>5, <2>6
  <1>8. RolesItem(s)
    BY <1>2, <1>6, <1>7, RolesItemIf
  <1> QED BY <1>8 DEF s

(* the owner of one object,                                                *)
LEMMA OwnerSaves ==
  ASSUME page = "roles", NEW from, NEW d, d.editor = "ChangeOwner", d.row \in Roles!OwnerCell, d.to # None,
         NEW asks, asks = [c \in Touched(from, d) |-> Roles!Asks(from, d)[c]]
  PROVE  RolesItem(Saved(Roles!AlterOwner(d.row, d.to), asks, from, TRUE, TRUE, Roles!Ignored(d)))
  <1> DEFINE op == Roles!AlterOwner(d.row, d.to)
             s == Saved(op, asks, from, TRUE, TRUE, Roles!Ignored(d))
  <1>1. op.op = "alter_owner" /\ op.cell = d.row /\ op.role = d.to
    BY DEF Roles!AlterOwner
  <1>2. s.op = op /\ s.asks = asks
    BY DEF Saved
  <1>3. Roles!Asks(from, d) = [c \in {d.row} |-> {d.to}]
    BY DEF Roles!Asks
  <1> HIDE DEF s, op
  <1>4. asks = [c \in {d.row} |-> {d.to}]
    BY <1>3, PickTouched
  <1>5. RoleOp(op)
    BY <1>1 DEF RoleOp
  <1>6. ASSUME NEW cat, NEW c \in Roles!Cell
        PROVE  Roles!Effect(cat, op)[c] = IF c = d.row THEN d.to ELSE cat[c]
    <2>1. RoleEffectIs(cat, op, c)
      BY RoleEffects
    <2> QED BY <1>1, <2>1 DEF RoleEffectIs
  <1>7. RolesItem(s)
    BY <1>2, <1>4, <1>5, <1>6, RolesItemIf
  <1> QED BY <1>7 DEF s, op

(* and a membership that its row revokes, if that is our own.              *)
LEMMA RolesPresses ==
  ASSUME NEW from, NEW b \in Roles!Buttons(from)
  PROVE  RolesItem(Saved(b.op, b.asks, from, TRUE, b.direct, {}))
  <1> DEFINE s == Saved(b.op, b.asks, from, TRUE, b.direct, {})
  <1>1. PICK c \in Roles!MemberCell :
          b = [op |-> Roles!RevokeRole(c[2], c[3]), asks |-> [x \in {c} |-> {{}}], direct |-> c[4] = "us"]
    BY DEF Roles!Buttons
  <1>2. /\ s.op = Roles!RevokeRole(c[2], c[3]) /\ s.asks = [x \in {c} |-> {{}}] /\ s.direct = (c[4] = "us")
    BY <1>1 DEF Saved
  <1>3. c[4] = "us" => c = <<"member", c[2], c[3], "us">>
    BY DEF Roles!MemberCell
  <1> HIDE DEF s
  <1>4. s.op.op = "revoke_role" /\ s.op.role = c[2] /\ s.op.member = c[3] /\ RoleOp(s.op)
    BY <1>2 DEF Roles!RevokeRole, RoleOp
  <1>5. ASSUME NEW cat, NEW x \in Roles!Cell
        PROVE  Roles!Effect(cat, s.op)[x] = IF x = <<"member", c[2], c[3], "us">> THEN {} ELSE cat[x]
    <2>1. RoleEffectIs(cat, s.op, x)
      BY RoleEffects
    <2> QED BY <1>4, <2>1 DEF RoleEffectIs
  <1>6. ASSUME s.direct, NEW cat, NEW x \in Roles!Cell
        PROVE  /\ Roles!Effect(cat, s.op)[x] # cat[x] => x \in DOMAIN s.asks
               /\ x \in DOMAIN s.asks => Roles!Effect(cat, s.op)[x] \in s.asks[x]
    <2>1. c[4] = "us"
      BY <1>2, <1>6, Zenon
    <2>2. DOMAIN s.asks = {c} /\ s.asks[c] = {{}}
      BY <1>2
    <2> QED BY <1>3, <1>5, <2>1, <2>2
  <1>7. RolesItem(s)
    BY <1>4, <1>6, RolesItemIf
  <1> QED BY <1>7 DEF s

(* What any form about roles puts in the basket is as promised.            *)
LEMMA RolesSaves ==
  ASSUME page = "roles", NEW from, NEW d, RolesDraft(d), Roles!CanSave(d),
         NEW ops, ops = Roles!Sends(from, d), ops # <<>>,
         NEW asks, asks = [c \in Touched(from, d) |-> Roles!Asks(from, d)[c]]
  PROVE  RolesItem(Saved(ops[Len(ops)], asks, from, Len(ops) = 1, Roles!Direct(from, d), Roles!Ignored(d)))
  <1>1. ASSUME NEW op, ops = <<op>>, RolesItem(Saved(op, asks, from, TRUE, TRUE, Roles!Ignored(d)))
        PROVE  RolesItem(Saved(ops[Len(ops)], asks, from, Len(ops) = 1,
                               Roles!Direct(from, d), Roles!Ignored(d)))
    <2>1. Len(ops) = 1 /\ ops[1] = op /\ (Len(ops) = 1) = TRUE /\ ops[Len(ops)] = op
      BY <1>1
    <2> QED BY <1>1, <2>1 DEF Roles!Direct
  <1>2. CASE d.editor = "RoleForm" /\ d.role # None
    <2>1. ops = <<Roles!AlterRole(d.role, Roles!Attrs(from, d, d.role))>>
      BY <1>2 DEF Roles!Sends
    <2> QED BY <1>1, <1>2, <2>1, AlterSaves
  <1>3. CASE d.editor = "RoleForm" /\ d.role = None
    <2>1. ops = <<Roles!CreateRole(d.name, Roles!Attrs(from, d, d.name), d.member_of)>> /\ d.name # None
      BY <1>3 DEF Roles!Sends, Roles!CanSave
    <2> QED BY <1>1, <1>3, <2>1, CreateSaves
  <1>4. CASE d \in MemberDraft
    <2>1. ops = <<Roles!GrantRole(d.role, d.member, d.options)>>
      BY <1>4 DEF Roles!Sends, MemberDraft
    <2> QED BY <1>1, <1>4, <2>1, MemberSaves
  <1>5. CASE d.editor = "DropRole"
    <2>1. ops = <<Roles!DropRole(d.row, d.to, d.drop_owned)>>
      BY <1>5 DEF Roles!Sends
    <2> QED BY <1>1, <1>5, <2>1, GivenAwaySaves
  <1>6. CASE d.editor = "ReassignOwned"
    <2>1. ops = <<Roles!ReassignOwned(d.row, d.to)>>
      BY <1>6 DEF Roles!Sends
    <2> QED BY <1>1, <1>6, <2>1, GivenAwaySaves
  <1>7. CASE d.editor = "ChangeOwner" /\ d.row \in Roles!OwnerCell
    <2>1. ops = <<Roles!AlterOwner(d.row, d.to)>> /\ d.to # None
      BY <1>7 DEF Roles!Sends, Roles!CanSave
    <2> QED BY <1>1, <1>7, <2>1, OwnerSaves
  <1> QED BY <1>2, <1>3, <1>4, <1>5, <1>6, <1>7 DEF RolesDraft

-----------------------------------------------------------------------------
(* Items about the server                                                  *)

LEMMA ServerEffect ==
  ASSUME NEW cat, cat = [c \in Server!Cell |-> cat[c]], NEW op
  PROVE  LET eff == Server!Effect(cat, op) IN eff = [c \in Server!Cell |-> eff[c]]
  <1> DEFINE eff == Server!Effect(cat, op)
  <1>1. CASE op.op = "reload_conf"
    BY <1>1 DEF Server!Effect
  <1>2. CASE op.op = "create_extension"
    BY <1>2 DEF Server!Effect
  <1>3. CASE op.op = "drop_extension"
    BY <1>3 DEF Server!Effect
  <1>4. CASE op.op \notin {"reload_conf", "create_extension", "drop_extension"}
    BY <1>4 DEF Server!Effect
  <1> QED BY <1>1, <1>2, <1>3, <1>4

(* Most operations write one cell,                                         *)
LEMMA SetItem ==
  ASSUME NEW s, s.op.op \notin {"reload_conf", "create_extension", "drop_extension"},
         s.asks = [c \in {s.op.cell} |-> {s.op.value}]
  PROVE  ServerItem(s)
  <1> SUFFICES ASSUME NEW cat, cat = [c \in Server!Cell |-> cat[c]], NEW c \in Server!Cell
               PROVE  /\ Server!Effect(cat, s.op)[c] # cat[c] => c \in DOMAIN s.asks
                      /\ c \in DOMAIN s.asks => Server!Effect(cat, s.op)[c] \in s.asks[c]
    BY DEF ServerItem
  <1>1. Server!Effect(cat, s.op) = [cat EXCEPT ![s.op.cell] = s.op.value]
    BY DEF Server!Effect
  <1>2. Server!Effect(cat, s.op)[c] = IF c = s.op.cell THEN s.op.value ELSE cat[c]
    BY <1>1
  <1> QED BY <1>2

(* but a new extension may bring the one it needs,                         *)
LEMMA InstallItem ==
  ASSUME NEW s, s.op.op = "create_extension",
         s.op.cell \in {Server!Ext("base"), Server!Ext("dep")},
         s.asks = [c \in {s.op.cell} |-> {s.op.value}], s.was[s.op.cell] = 0
  PROVE  ServerItem(s)
  <1> SUFFICES ASSUME NEW cat, cat = [c \in Server!Cell |-> cat[c]], ~Server!Refused(cat, s.op),
                      NEW c \in Server!Cell
               PROVE  /\ Server!Effect(cat, s.op)[c] # cat[c] => c \in DOMAIN s.asks \cup Server!Reach(cat, s.op)
                      /\ c \in DOMAIN s.asks /\ cat[c] = s.was[c] => Server!Effect(cat, s.op)[c] \in s.asks[c]
    BY DEF ServerItem
  <1> DEFINE base == Server!Ext("base")
  <1>1. CASE cat[s.op.cell] # 0
    BY <1>1 DEF Server!Effect
  <1>2. CASE cat[s.op.cell] = 0
    <2>1. Server!Effect(cat, s.op)
            = [cat EXCEPT ![base] = IF cat[base] = 0 THEN Server!Version ELSE cat[base], ![s.op.cell] = s.op.value]
      BY <1>2 DEF Server!Effect
    <2>2. Server!Effect(cat, s.op)[c] = IF c = s.op.cell THEN s.op.value
                                        ELSE IF c = base /\ cat[base] = 0 THEN Server!Version ELSE cat[c]
      BY <2>1
    <2>3. ASSUME c # s.op.cell, c = base, cat[base] = 0 PROVE c \in Server!Reach(cat, s.op)
      <3>1. s.op.cascade
        BY <1>2, <2>3 DEF Server!Refused
      <3>2. base \in Server!ExtensionCell
        BY DEF Server!ExtensionCell, Server!Extension, Server!Ext
      <3> QED BY <2>3, <3>1, <3>2 DEF Server!Reach
    <2> HIDE DEF base
    <2> QED BY <2>2, <2>3
  <1> QED BY <1>1, <1>2

(* and one that is dropped takes along what needs it.                      *)
LEMMA DropItem ==
  ASSUME NEW s, s.op.op = "drop_extension",
         s.asks = [c \in {s.op.cell} |-> {0}]
  PROVE  ServerItem(s)
  <1> SUFFICES ASSUME NEW cat, cat = [c \in Server!Cell |-> cat[c]], ~Server!Refused(cat, s.op),
                      NEW c \in Server!Cell
               PROVE  /\ Server!Effect(cat, s.op)[c] # cat[c] => c \in DOMAIN s.asks \cup Server!Reach(cat, s.op)
                      /\ c \in DOMAIN s.asks /\ cat[c] = s.was[c] => Server!Effect(cat, s.op)[c] \in s.asks[c]
    BY DEF ServerItem
  <1> DEFINE base == Server!Ext("base")
             dep == Server!Ext("dep")
  <1>1. Server!Effect(cat, s.op)
          = [cat EXCEPT ![s.op.cell] = 0, ![dep] = IF s.op.cell = base THEN 0 ELSE @]
    BY DEF Server!Effect
  <1>2. base # dep
    BY DEF Server!Ext
  <1> HIDE DEF base, dep
  <1>3. Server!Effect(cat, s.op)[c] = IF c = s.op.cell THEN 0
                                      ELSE IF c = dep /\ s.op.cell = base THEN 0 ELSE cat[c]
    BY <1>1, <1>2
  <1>4. ASSUME c # s.op.cell, c = dep, s.op.cell = base, cat[dep] # 0 PROVE c \in Server!Reach(cat, s.op)
    <2>1. s.op.cascade
      BY <1>4 DEF Server!Refused, base, dep
    <2>2. dep \in Server!ExtensionCell
      BY DEF Server!ExtensionCell, Server!Extension, Server!Ext, dep
    <2> QED BY <1>4, <2>1, <2>2 DEF Server!Reach
  <1> QED BY <1>3, <1>4

LEMMA ServerForeign ==
  ASSUME NEW cat, cat = [c \in Server!Cell |-> cat[c]], NEW new \in Server!Foreign(cat)
  PROVE  new = [c \in Server!Cell |-> new[c]]
  <1>1. PICK op : new = Server!Effect(cat, op)
    BY DEF Server!Foreign
  <1> QED BY <1>1, ServerEffect

(* What any form about the server puts in the basket is as promised,       *)
LEMMA ServerSaves ==
  ASSUME page = "server", NEW from, NEW d, ServerDraft(from, d), Server!CanSave(d),
         NEW ops, ops = Server!Sends(from, d), ops # <<>>,
         NEW asks, asks = [c \in Touched(from, d) |-> Server!Asks(from, d)[c]]
  PROVE  ServerItem(Saved(ops[Len(ops)], asks, from, Len(ops) = 1, Server!Direct(from, d), {}))
  <1> DEFINE s(op) == Saved(op, asks, from, TRUE, TRUE, {})
             now == Server!Asks(from, d)
             first == Server!Loaded(from, d)
  <1>1. ASSUME NEW op, ops = <<op>>, ServerItem(s(op))
        PROVE  ServerItem(Saved(ops[Len(ops)], asks, from, Len(ops) = 1, Server!Direct(from, d), {}))
    <2>1. Len(ops) = 1 /\ ops[1] = op /\ (Len(ops) = 1) = TRUE /\ ops[Len(ops)] = op
      BY <1>1
    <2> QED BY <1>1, <2>1 DEF Server!Direct
  <1>2. asks = now
    <2>1. Server!Asks(from, first) = <<>>
      <3>1. first.editor = ""
        BY DEF Server!Loaded, ServerDraft
      <3> QED BY <3>1 DEF Server!Asks
    <2>2. now = [c \in DOMAIN now |-> now[c]]
      BY DEF Server!Asks, Server!Only, ServerDraft
    <2> HIDE DEF first, now
    <2>3. Touched(from, d) = {c \in DOMAIN now : c \notin DOMAIN <<>> \/ <<>>[c] # now[c]}
      BY <2>1 DEF Touched, Asks, Loaded, ForPage, now, first
    <2>4. \A c : c \notin DOMAIN <<>>
      OBVIOUS
    <2>5. Touched(from, d) = DOMAIN now
      BY <2>3, <2>4
    <2> QED BY <2>2, <2>5 DEF now
  <1>3. \A op : s(op).op = op /\ s(op).asks = now /\ s(op).was = [c \in DOMAIN now |-> from[c]]
    BY <1>2 DEF Saved
  <1> HIDE DEF s, now
  <1>4. CASE d.editor = "SettingEditor"
    <2> DEFINE op == Server!Set(Server!Conf(d.row), IF d.reset THEN "default" ELSE d.value)
    <2>1. ops = <<op>>
      BY <1>4 DEF Server!Sends
    <2>2. now = [c \in {op.cell} |-> {op.value}] /\ op.op = "set"
      BY <1>4 DEF Server!Asks, Server!Only, Server!Set, now
    <2> HIDE DEF op
    <2>3. ServerItem(s(op))
      BY <1>3, <2>2, SetItem
    <2> QED BY <1>1, <2>1, <2>3
  <1>5. CASE d.editor \in {"OverrideEditor", "NewOverride"}
    <2> DEFINE op == Server!Set(d.row, d.value)
    <2>1. ops = <<op>>
      BY <1>5 DEF Server!Sends
    <2>2. now = [c \in {op.cell} |-> {op.value}] /\ op.op = "set"
      BY <1>5 DEF Server!Asks, Server!Only, Server!Set, now
    <2> HIDE DEF op
    <2>3. ServerItem(s(op))
      BY <1>3, <2>2, SetItem
    <2> QED BY <1>1, <2>1, <2>3
  <1>6. CASE d.editor = "InstallExtension"
    <2> DEFINE op == Server!CreateExtension(d.row, Server!Chosen(d), d.cascade)
    <2>1. ops = <<op>>
      BY <1>6 DEF Server!Sends
    <2>2. /\ now = [c \in {op.cell} |-> {op.value}] /\ op.op = "create_extension"
          /\ op.cell = Server!Ext(d.row)
      BY <1>6 DEF Server!Asks, Server!Only, Server!CreateExtension, now
    <2> HIDE DEF op
    <2>3. op.cell \in {Server!Ext("base"), Server!Ext("dep")} /\ from[op.cell] = 0
      BY <1>6, <2>2 DEF ServerDraft, Server!Extension
    <2>4. s(op).was[op.cell] = 0
      <3>1. DOMAIN now = {op.cell}
        BY <2>2
      <3>2. s(op).was = [c \in DOMAIN now |-> from[c]]
        BY <1>3
      <3> QED BY <2>3, <3>1, <3>2
    <2>5. ServerItem(s(op))
      BY <1>3, <2>2, <2>3, <2>4, InstallItem
    <2> QED BY <1>1, <2>1, <2>5
  <1>7. CASE d.editor = "DropExtension"
    <2> DEFINE op == Server!DropExtension(d.row, d.cascade)
    <2>1. ops = <<op>>
      BY <1>7 DEF Server!Sends
    <2>2. now = [c \in {op.cell} |-> {0}] /\ op.op = "drop_extension"
      BY <1>7 DEF Server!Asks, Server!Only, Server!DropExtension, now
    <2> HIDE DEF op
    <2>3. ServerItem(s(op))
      BY <1>3, <2>2, DropItem
    <2> QED BY <1>1, <2>1, <2>3
  <1>8. CASE d.editor = "DropSlot"
    <2> DEFINE op == Server!DropSlot
    <2>1. ops = <<op>>
      BY <1>8 DEF Server!Sends
    <2>2. now = [c \in {op.cell} |-> {op.value}] /\ op.op = "drop_replication_slot"
      BY <1>8 DEF Server!Asks, Server!Only, Server!DropSlot, ServerDraft, now
    <2> HIDE DEF op
    <2>3. ServerItem(s(op))
      BY <1>3, <2>2, SetItem
    <2> QED BY <1>1, <2>1, <2>3
  <1> QED BY <1>4, <1>5, <1>6, <1>7, <1>8 DEF ServerDraft

(* and what any button does.                                               *)
LEMMA ServerPresses ==
  ASSUME NEW from, NEW b \in Server!Buttons(from)
  PROVE  ServerItem(Saved(b.op, b.asks, from, TRUE, b.direct, {}))
  <1> DEFINE s == Saved(b.op, b.asks, from, TRUE, b.direct, {})
  <1>1. s.op = b.op /\ s.asks = b.asks
    BY DEF Saved
  <1> HIDE DEF s
  <1>2. ASSUME NEW op, NEW v, b = Server!Button(op, v), v = op.value,
               op.op \notin {"reload_conf", "create_extension", "drop_extension"}
        PROVE  ServerItem(s)
    <2>1. b.op = op /\ b.asks = [c \in {op.cell} |-> {op.value}]
      BY <1>2 DEF Server!Button, Server!Only
    <2> QED BY <1>1, <1>2, <2>1, SetItem
  <1>3. CASE b \in Server!SignalButtons(from)
    <2>1. PICK c : b = Server!Button(Server!Signal(c), None)
      BY <1>3 DEF Server!SignalButtons
    <2>2. Server!Signal(c).value = None /\ Server!Signal(c).op = "terminate_backend"
      BY DEF Server!Signal
    <2> QED BY <1>2, <2>1, <2>2 DEF s
  <1>4. CASE \E c, v : b = Server!Button(Server!Set(c, v), v)
    <2>1. PICK c, v : b = Server!Button(Server!Set(c, v), v)
      BY <1>4
    <2>2. Server!Set(c, v).value = v /\ Server!Set(c, v).op = "set"
      BY DEF Server!Set
    <2> QED BY <1>2, <2>1, <2>2 DEF s
  <1>5. CASE b \in Server!UpdateButtons(from)
    <2>1. PICK e : b = Server!Button(Server!UpdateExtension(e, Server!Version), Server!Version)
      BY <1>5 DEF Server!UpdateButtons
    <2>2. /\ Server!UpdateExtension(e, Server!Version).value = Server!Version
          /\ Server!UpdateExtension(e, Server!Version).op = "update_extension"
      BY DEF Server!UpdateExtension
    <2> QED BY <1>2, <2>1, <2>2 DEF s
  <1>6. CASE b = Server!ReloadButton
    <2>1. s.op.op = "reload_conf" /\ DOMAIN s.asks = {}
      BY <1>1, <1>6 DEF Server!ReloadButton, Server!ReloadConf
    <2>2. ASSUME NEW cat, cat = [c \in Server!Cell |-> cat[c]], NEW c \in Server!Cell,
                 Server!Effect(cat, s.op)[c] # cat[c]
          PROVE  c \in Server!Reach(cat, s.op)
      <3>1. Server!Reach(cat, s.op) = {Server!Running("sighup")}
        BY <2>1 DEF Server!Reach
      <3>2. \E v : Server!Effect(cat, s.op) = [cat EXCEPT ![Server!Running("sighup")] = v]
        BY <2>1 DEF Server!Effect
      <3> QED BY <2>2, <3>1, <3>2
    <2>3. ServerItem(s)
      BY <2>1, <2>2 DEF ServerItem
    <2> QED BY <2>3 DEF s
  <1>7. CASE b \in Server!ResetButtons(from)
    <2>1. PICK c : b = Server!Button(Server!Set(c, None), None)
      BY <1>7 DEF Server!ResetButtons
    <2> QED BY <1>4, <2>1
  <1>8. CASE b \in {Server!AnalyzeButton, Server!ResetStatementsButton}
    <2>1. \E c : b = Server!Button(Server!Set(c, "new"), "new")
      BY <1>8 DEF Server!AnalyzeButton, Server!ResetStatementsButton, Server!Analyze, Server!ResetStatements
    <2> QED BY <1>4, <2>1
  <1>9. CASE b = Server!VacuumButton
    <2>1. Server!Vacuum.value = "new" /\ Server!Vacuum.op = "vacuum"
      BY DEF Server!Vacuum
    <2> QED BY <1>2, <1>9, <2>1 DEF s, Server!VacuumButton
  <1> QED BY <1>3, <1>5, <1>6, <1>7, <1>8, <1>9 DEF Server!Buttons

-----------------------------------------------------------------------------
(* Items about instances and accounts                                      *)

(* The kind of a cell is its first component.                              *)
LEMMA AdminCells ==
  ASSUME NEW c \in Admin!Cell
  PROVE  /\ c[1] = "profile" => c = Admin!At(c[2], c[3]) /\ c[2] \in Profile /\ c[3] \in Admin!Field
         /\ c[1] = "user" => c = <<"user", c[2], c[3]>> /\ c[3] \in {"role", "password"}
  <1>1. \A x \in Admin!ProfileCell : /\ x[1] = "profile" /\ x = <<"profile", x[2], x[3]>>
                                     /\ x[2] \in Profile /\ x[3] \in Admin!Field
    BY DEF Admin!ProfileCell
  <1>2. \A x \in Admin!UserCell : /\ x[1] = "user" /\ x = <<"user", x[2], x[3]>>
                                  /\ x[3] \in {"role", "password"}
    BY DEF Admin!UserCell
  <1> QED BY <1>1, <1>2 DEF Admin!Cell, Admin!At

LEMMA AdminForeign ==
  ASSUME NEW cat, NEW new \in Admin!Foreign(cat)
  PROVE  new = [c \in Admin!Cell |-> new[c]]
  <1>1. PICK op : new = Admin!Effect(cat, op)
    BY DEF Admin!Foreign
  <1> QED BY <1>1 DEF Admin!Effect

(* What each operation leaves in a cell.                                   *)
AdminEffectIs(cat, op, c) ==
    LET v == Admin!Effect(cat, op)[c]
        whole == c \in {"profile"} \X {op.profile} \X Admin!Field
    IN  /\ op.op \in {"put_profile", "post_profile"} =>
             v = IF whole THEN Admin!Stored(cat, op, c[3]) ELSE cat[c]
        /\ op.op = "delete_profile" => v = IF whole THEN "none" ELSE cat[c]
        /\ op.op = "put_user" => v = IF c = op.cell THEN op.value ELSE cat[c]
        /\ op.op = "post_user" =>
             v = IF c[1] = "user" /\ c[2] = op.user THEN IF c[3] = "role" THEN op.value ELSE "new" ELSE cat[c]
        /\ op.op = "delete_user" => v = IF c[1] = "user" /\ c[2] = op.user THEN "none" ELSE cat[c]

LEMMA AdminEffects ==
  ASSUME NEW cat, NEW op, NEW c \in Admin!Cell
  PROVE  AdminEffectIs(cat, op, c)
  <1> DEFINE v == Admin!Effect(cat, op)[c]
             whole == c \in {"profile"} \X {op.profile} \X Admin!Field
  <1>1. v = CASE op.op \in {"put_profile", "post_profile"} /\ whole -> Admin!Stored(cat, op, c[3])
              [] op.op = "delete_profile" /\ whole -> "none"
              [] op.op = "put_user" /\ c = op.cell -> op.value
              [] op.op = "post_user" /\ c[1] = "user" /\ c[2] = op.user ->
                    IF c[3] = "role" THEN op.value ELSE "new"
              [] op.op = "delete_user" /\ c[1] = "user" /\ c[2] = op.user -> "none"
              [] OTHER -> cat[c]
    BY DEF Admin!Effect
  <1> HIDE DEF v, whole
  <1>2. op.op \in {"put_profile", "post_profile"} =>
           v = IF whole THEN Admin!Stored(cat, op, c[3]) ELSE cat[c]
    BY <1>1
  <1>3. /\ op.op = "delete_profile" => v = IF whole THEN "none" ELSE cat[c]
        /\ op.op = "put_user" => v = IF c = op.cell THEN op.value ELSE cat[c]
    BY <1>1
  <1>4. /\ op.op = "post_user" =>
             v = IF c[1] = "user" /\ c[2] = op.user THEN IF c[3] = "role" THEN op.value ELSE "new" ELSE cat[c]
        /\ op.op = "delete_user" => v = IF c[1] = "user" /\ c[2] = op.user THEN "none" ELSE cat[c]
    BY <1>1
  <1> QED BY <1>2, <1>3, <1>4 DEF AdminEffectIs, v, whole

(* The fields an instance is sent with, and the value of each.             *)
BodyIs(body, host, password, url, secret) ==
    /\ DOMAIN body \subseteq {"host", "password", "patroni_url", "patroni_password"}
    /\ "host" \in DOMAIN body /\ body["host"] = host
    /\ "patroni_url" \in DOMAIN body /\ body["patroni_url"] = url
    /\ password # "null" => "password" \in DOMAIN body /\ body["password"] = password
    /\ secret # "null" => "patroni_password" \in DOMAIN body /\ body["patroni_password"] = secret

LEMMA Bodies ==
  ASSUME NEW host, NEW password, NEW url, NEW secret
  PROVE  BodyIs(Admin!Body(host, password, url, secret), host, password, url, secret)
  <1> DEFINE sent == {<<"host", host>>, <<"patroni_url", url>>}
                       \cup {x \in {<<"password", password>>, <<"patroni_password", secret>>} : x[2] # "null"}
             body == Admin!Body(host, password, url, secret)
  <1>1. body = [f \in {x[1] : x \in sent} |-> (CHOOSE x \in sent : x[1] = f)[2]]
    BY DEF Admin!Body
  <1>2. /\ \A x \in sent : \/ x = <<"host", host>>
                           \/ x = <<"patroni_url", url>>
                           \/ x = <<"password", password>>
                           \/ x = <<"patroni_password", secret>>
        /\ <<"host", host>> \in sent /\ <<"patroni_url", url>> \in sent
        /\ password # "null" => <<"password", password>> \in sent
        /\ secret # "null" => <<"patroni_password", secret>> \in sent
    OBVIOUS
  <1> HIDE DEF sent, body
  <1>3. ASSUME NEW y \in sent
        PROVE  y[1] \in DOMAIN body /\ body[y[1]] = y[2]
    <2>1. \A x \in sent : x[1] = y[1] => x = y
      BY <1>2
    <2>2. (CHOOSE x \in sent : x[1] = y[1]) = y
      BY <2>1
    <2> QED BY <1>1, <2>2
  <1>4. \A f \in DOMAIN body : f \in {"host", "password", "patroni_url", "patroni_password"}
    <2> TAKE f \in DOMAIN body
    <2>1. PICK x \in sent : f = x[1]
      BY <1>1
    <2> QED BY <1>2, <2>1
  <1>5. /\ "host" \in DOMAIN body /\ body["host"] = host
        /\ "patroni_url" \in DOMAIN body /\ body["patroni_url"] = url
    BY <1>2, <1>3
  <1>6. /\ password # "null" => "password" \in DOMAIN body /\ body["password"] = password
        /\ secret # "null" => "patroni_password" \in DOMAIN body /\ body["patroni_password"] = secret
    BY <1>2, <1>3
  <1> QED BY <1>4, <1>5, <1>6 DEF BodyIs, body

(* What makes an item keep its promise.                                    *)
LEMMA AdminItemIf ==
  ASSUME NEW s,
         \A cat : cat = [c \in Admin!Cell |-> cat[c]] /\ ~Admin!Denied(cat, s.op) =>
            \A c \in Admin!Cell :
               /\ Admin!Effect(cat, s.op)[c] # cat[c] => c \in DOMAIN s.asks \cup Admin!Reach(cat, s.op)
               /\ c \in DOMAIN s.asks => Admin!Effect(cat, s.op)[c] \in s.asks[c]
  PROVE  AdminItem(s)
  BY DEF AdminItem, Admin!Refused

(* What a profile's form says, field by field.                             *)
FieldSays(d, f, v) ==
    /\ f = "host" => v = {d.host}
    /\ f = "password" => ~d.keep /\ v = {d.password}
    /\ f = "patroni_url" => v = {IF d.patroni THEN d.url ELSE "none"}
    /\ f = "patroni_password" => ~(d.patroni /\ d.secret_keep) /\ v = {IF d.patroni THEN d.secret ELSE "none"}
    /\ f = "exists" => d.profile = None /\ v = {"yes"}

LEMMA ProfileAsks ==
  ASSUME NEW d
  PROVE  LET asks == Admin!AsksProfile(d)
         IN  /\ \A c \in DOMAIN asks : \E f \in Admin!Field :
                    c = Admin!At(Admin!Target(d), f) /\ FieldSays(d, f, asks[c])
             /\ d.profile = None => Admin!At(Admin!Target(d), "exists") \in DOMAIN asks
  <1> DEFINE fields == {f \in Admin!Field :
                          CASE f = "password" -> ~d.keep
                            [] f = "patroni_password" -> ~(d.patroni /\ d.secret_keep)
                            [] f = "exists" -> d.profile = None
                            [] OTHER -> TRUE}
             asks == Admin!AsksProfile(d)
             t == Admin!Target(d)
  <1>1. /\ asks = [c \in {Admin!At(t, f) : f \in fields} |-> asks[c]]
        /\ \A c \in {Admin!At(t, f) : f \in fields} :
              asks[c] = {CASE c[3] = "host" -> d.host
                           [] c[3] = "password" -> d.password
                           [] c[3] = "patroni_url" -> IF d.patroni THEN d.url ELSE "none"
                           [] c[3] = "patroni_password" -> IF d.patroni THEN d.secret ELSE "none"
                           [] OTHER -> "yes"}
    BY DEF Admin!AsksProfile
  <1>2. \A f \in fields : /\ f \in Admin!Field
                          /\ f = "password" => ~d.keep
                          /\ f = "patroni_password" => ~(d.patroni /\ d.secret_keep)
                          /\ f = "exists" => d.profile = None
    OBVIOUS
  <1>3. d.profile = None => "exists" \in fields
    BY DEF Admin!Field
  <1> HIDE DEF fields, asks, t
  <1>4. ASSUME NEW c \in DOMAIN asks
        PROVE  \E f \in Admin!Field : c = Admin!At(t, f) /\ FieldSays(d, f, asks[c])
    <2>1. PICK f \in fields : c = Admin!At(t, f)
      BY <1>1
    <2>2. c[3] = f
      BY <2>1 DEF Admin!At
    <2>3. asks[c] = {CASE f = "host" -> d.host
                       [] f = "password" -> d.password
                       [] f = "patroni_url" -> IF d.patroni THEN d.url ELSE "none"
                       [] f = "patroni_password" -> IF d.patroni THEN d.secret ELSE "none"
                       [] OTHER -> "yes"}
      BY <1>1, <2>2
    <2>4. FieldSays(d, f, asks[c])
      <3>1. CASE f = "host"
        BY <1>2, <2>3, <3>1 DEF FieldSays
      <3>2. CASE f = "password"
        BY <1>2, <2>3, <3>2 DEF FieldSays
      <3>3. CASE f = "patroni_url"
        BY <1>2, <2>3, <3>3 DEF FieldSays
      <3>4. CASE f = "patroni_password"
        BY <1>2, <2>3, <3>4 DEF FieldSays
      <3>5. CASE f = "exists"
        BY <1>2, <2>3, <3>5 DEF FieldSays
      <3> QED BY <1>2, <3>1, <3>2, <3>3, <3>4, <3>5 DEF Admin!Field
    <2> QED BY <1>2, <2>1, <2>4
  <1>5. ASSUME d.profile = None PROVE Admin!At(t, "exists") \in DOMAIN asks
    BY <1>1, <1>3, <1>5
  <1> QED BY <1>4, <1>5 DEF asks, t

(* A saved instance writes what its fields say, and nothing else:          *)
LEMMA ProfileSaves ==
  ASSUME NEW d, AdminDraft(d), d.editor = "ProfileForm", Admin!CanSave(d),
         NEW op, op = IF d.profile = None THEN Admin!Post(d.name, Admin!Payload(d))
                      ELSE Admin!Put(d.profile, Admin!Payload(d)),
         NEW cat, cat = [c \in Admin!Cell |-> cat[c]], ~Admin!Denied(cat, op), NEW c \in Admin!Cell
  PROVE  LET asks == Admin!AsksProfile(d)
             v == Admin!Effect(cat, op)[c]
         IN  /\ v # cat[c] => \/ c \in Admin!Reach(cat, op)
                              \/ d.profile = None /\ c = Admin!At(Admin!Target(d), "exists")
             /\ c \in DOMAIN asks => v \in asks[c]
  <1> DEFINE t == Admin!Target(d)
             body == Admin!Payload(d)
             asks == Admin!AsksProfile(d)
             v == Admin!Effect(cat, op)[c]
             password == IF d.profile # None /\ d.keep THEN "null" ELSE d.password
             url == IF d.patroni THEN d.url ELSE "none"
             secret == IF ~d.patroni THEN "none"
                       ELSE IF d.profile # None /\ d.secret_keep THEN "null" ELSE d.secret
             whole == c \in {"profile"} \X {op.profile} \X Admin!Field
  <1>1. /\ op.op \in {"put_profile", "post_profile"}
        /\ op.op = "post_profile" <=> d.profile = None
        /\ op.profile = t /\ op.body = body
    BY DEF Admin!Post, Admin!Put, Admin!Target
  <1>2. BodyIs(body, d.host, password, url, secret)
    BY Bodies DEF Admin!Payload
  <1>3. d.password \in {"none", "new"} /\ d.secret \in {"none", "new"}
    BY DEF AdminDraft
  <1>4. d.patroni => d.url # "none"
    BY DEF Admin!CanSave
  <1>5. v = IF whole THEN Admin!Stored(cat, op, c[3]) ELSE cat[c]
    <2>1. AdminEffectIs(cat, op, c)
      BY AdminEffects
    <2> QED BY <1>1, <2>1 DEF AdminEffectIs
  <1>6. whole <=> c[1] = "profile" /\ c[2] = t
    BY <1>1, AdminCells DEF Admin!At
  <1>7. \A f : Admin!Stored(cat, op, f)
                 = IF f = "exists" THEN "yes"
                   ELSE IF f = "patroni_password" /\ body["patroni_url"] = "none" THEN "none"
                   ELSE IF f \in DOMAIN body THEN body[f]
                   ELSE IF op.op = "post_profile" THEN "none" ELSE cat[Admin!At(t, f)]
    BY <1>1 DEF Admin!Stored
  <1>8. password = IF d.profile # None /\ d.keep THEN "null" ELSE d.password
    OBVIOUS
  <1>9. url = IF d.patroni THEN d.url ELSE "none"
    OBVIOUS
  <1>10. secret = IF ~d.patroni THEN "none"
                  ELSE IF d.profile # None /\ d.secret_keep THEN "null" ELSE d.secret
    OBVIOUS
  <1>11. Admin!Reach(cat, op) = {Admin!At(t, f) : f \in DOMAIN body}
    BY <1>1 DEF Admin!Reach
  <1>12. Admin!Exists(cat, t) <=> op.op = "put_profile"
    BY <1>1 DEF Admin!Denied
  <1>13. /\ \A x \in DOMAIN asks : \E f \in Admin!Field : x = Admin!At(t, f) /\ FieldSays(d, f, asks[x])
    BY ProfileAsks
  <1> HIDE DEF t, body, asks, v, password, url, secret, whole
  <1>14. ASSUME v # cat[c], c \notin Admin!Reach(cat, op)
         PROVE  d.profile = None /\ c = Admin!At(t, "exists")
    <2> DEFINE f == c[3]
    <2>1. whole /\ c = Admin!At(t, f) /\ f \in Admin!Field /\ v = Admin!Stored(cat, op, f)
      BY <1>5, <1>6, <1>14, AdminCells
    <2>2. f \notin DOMAIN body
      BY <1>11, <1>14, <2>1
    <2> HIDE DEF f
    <2>3. CASE f = "exists"
      <3>1. cat[c] # "yes"
        BY <1>7, <1>14, <2>1, <2>3
      <3>2. ~Admin!Exists(cat, t)
        BY <2>1, <2>3, <3>1 DEF Admin!Exists
      <3> QED BY <1>1, <1>12, <2>1, <2>3, <3>2
    <2>4. CASE f \in {"host", "patroni_url"}
      BY <1>2, <2>2, <2>4 DEF BodyIs
    <2>5. CASE f = "password"
      <3>1. password = "null"
        BY <1>2, <2>2, <2>5 DEF BodyIs
      <3>2. d.profile # None
        BY <1>3, <1>8, <3>1
      <3> QED BY <1>1, <1>7, <1>14, <2>1, <2>2, <2>5, <3>2
    <2>6. CASE f = "patroni_password"
      <3>1. secret = "null"
        BY <1>2, <2>2, <2>6 DEF BodyIs
      <3>2. d.profile # None /\ d.patroni
        BY <1>3, <1>10, <3>1
      <3>3. body["patroni_url"] # "none"
        BY <1>2, <1>4, <1>9, <3>2 DEF BodyIs
      <3> QED BY <1>1, <1>7, <1>14, <2>1, <2>2, <2>6, <3>2, <3>3
    <2> QED BY <2>1, <2>3, <2>4, <2>5, <2>6 DEF Admin!Field
  <1>15. ASSUME c \in DOMAIN asks PROVE v \in asks[c]
    <2>1. PICK f \in Admin!Field : c = Admin!At(t, f) /\ FieldSays(d, f, asks[c])
      BY <1>13, <1>15
    <2>2. c[1] = "profile" /\ c[2] = t /\ c[3] = f
      BY <2>1 DEF Admin!At
    <2>3. v = Admin!Stored(cat, op, f)
      BY <1>5, <1>6, <2>2
    <2>4. CASE f = "exists"
      BY <1>7, <2>1, <2>3, <2>4 DEF FieldSays
    <2>5. CASE f = "host"
      BY <1>2, <1>7, <2>1, <2>3, <2>5 DEF FieldSays, BodyIs
    <2>6. CASE f = "password"
      <3>1. password = d.password /\ password # "null"
        BY <1>3, <1>8, <2>1, <2>6 DEF FieldSays
      <3> QED BY <1>2, <1>7, <2>1, <2>3, <2>6, <3>1 DEF FieldSays, BodyIs
    <2>7. CASE f = "patroni_url"
      BY <1>2, <1>7, <1>9, <2>1, <2>3, <2>7 DEF FieldSays, BodyIs
    <2>8. CASE f = "patroni_password" /\ ~d.patroni
      BY <1>2, <1>7, <1>9, <2>1, <2>3, <2>8 DEF FieldSays, BodyIs
    <2>9. CASE f = "patroni_password" /\ d.patroni
      <3>1. secret = d.secret /\ secret # "null"
        BY <1>3, <1>10, <2>1, <2>9 DEF FieldSays
      <3>2. body["patroni_url"] # "none"
        BY <1>2, <1>4, <1>9, <2>9 DEF BodyIs
      <3> QED BY <1>2, <1>7, <2>1, <2>3, <2>9, <3>1, <3>2 DEF FieldSays, BodyIs
    <2> QED BY <2>4, <2>5, <2>6, <2>7, <2>8, <2>9 DEF Admin!Field
  <1> QED BY <1>14, <1>15 DEF t, asks, v

(* What any form about instances and accounts saves is as promised,        *)
LEMMA AdminSaves ==
  ASSUME page = "admin", NEW from, NEW d, AdminDraft(d), Admin!CanSave(d),
         NEW ops, ops = Admin!Sends(from, d), ops # <<>>,
         NEW asks, asks = [c \in Touched(from, d) |-> Admin!Asks(from, d)[c]]
  PROVE  AdminItem(Saved(ops[Len(ops)], asks, from, Len(ops) = 1, Admin!Direct(from, d), {}))
  <1> DEFINE s(op) == Saved(op, asks, from, TRUE, TRUE, {})
             now == Admin!Asks(from, d)
             first == Admin!Loaded(from, d)
             then == Admin!Asks(from, first)
  <1>1. ASSUME NEW op, ops = <<op>>, AdminItem(s(op))
        PROVE  AdminItem(Saved(ops[Len(ops)], asks, from, Len(ops) = 1, Admin!Direct(from, d), {}))
    <2>1. Len(ops) = 1 /\ ops[1] = op /\ (Len(ops) = 1) = TRUE /\ ops[Len(ops)] = op
      BY <1>1
    <2> QED BY <1>1, <2>1 DEF Admin!Direct
  <1>2. \A op : s(op).op = op /\ s(op).asks = asks
    BY DEF Saved
  <1> HIDE DEF s, now, first, then
  <1>3. /\ DOMAIN asks \subseteq DOMAIN now /\ \A c \in DOMAIN asks : asks[c] = now[c]
        /\ then = <<>> => DOMAIN asks = DOMAIN now
    <2>1. Touched(from, d) = {c \in DOMAIN now : c \notin DOMAIN then \/ then[c] # now[c]}
      BY DEF Touched, Asks, Loaded, ForPage, now, first, then
    <2>2. DOMAIN asks = Touched(from, d) /\ \A c \in DOMAIN asks : asks[c] = now[c]
      BY DEF now
    <2>3. \A c : c \notin DOMAIN <<>>
      OBVIOUS
    <2> QED BY <2>1, <2>2, <2>3
  <1>4. CASE d.editor = "ProfileForm"
    <2> DEFINE op == IF d.profile = None THEN Admin!Post(d.name, Admin!Payload(d))
                     ELSE Admin!Put(d.profile, Admin!Payload(d))
    <2>1. ops = <<op>>
      BY <1>4 DEF Admin!Sends
    <2>2. now = Admin!AsksProfile(d)
      <3>1. Admin!Target(d) # None
        BY <1>4 DEF Admin!CanSave, Admin!Target
      <3> QED BY <1>4, <3>1 DEF Admin!Asks, now
    <2>3. ASSUME d.profile = None PROVE Admin!At(Admin!Target(d), "exists") \in DOMAIN asks
      <3>1. first.editor = "ProfileForm" /\ first.profile = None /\ first.name = None
        BY <1>4, <2>3 DEF Admin!Loaded, Admin!ProfileDraft, first
      <3>2. then = <<>>
        BY <3>1 DEF Admin!Asks, Admin!Target, then
      <3> QED BY <1>3, <2>2, <2>3, <3>2, ProfileAsks
    <2>4. ASSUME NEW cat, cat = [c \in Admin!Cell |-> cat[c]], ~Admin!Denied(cat, op), NEW c \in Admin!Cell
          PROVE  /\ Admin!Effect(cat, op)[c] # cat[c] => c \in DOMAIN asks \cup Admin!Reach(cat, op)
                 /\ c \in DOMAIN asks => Admin!Effect(cat, op)[c] \in asks[c]
      <3> HIDE DEF op
      <3>1. /\ Admin!Effect(cat, op)[c] # cat[c] =>
                 \/ c \in Admin!Reach(cat, op)
                 \/ d.profile = None /\ c = Admin!At(Admin!Target(d), "exists")
            /\ c \in DOMAIN Admin!AsksProfile(d) =>
                 Admin!Effect(cat, op)[c] \in Admin!AsksProfile(d)[c]
        BY <1>4, <2>4, ProfileSaves DEF op
      <3> QED BY <1>3, <2>2, <2>3, <3>1
    <2> HIDE DEF op
    <2>5. AdminItem(s(op))
      BY <1>2, <2>4, AdminItemIf
    <2> QED BY <1>1, <2>1, <2>5
  <1>5. CASE d.editor = "CreateUser"
    <2> DEFINE op == Admin!CreateUser(d.user, d.role)
    <2>1. ops = <<op>>
      BY <1>5 DEF Admin!Sends
    <2>2. op.op = "post_user" /\ op.user = d.user /\ op.value = d.role
      BY DEF Admin!CreateUser
    <2>3. DOMAIN now = {Admin!RoleOf(d.user)} /\ now[Admin!RoleOf(d.user)] = {d.role}
      BY <1>5 DEF Admin!Asks, Admin!CanSave, Admin!Only, now
    <2> HIDE DEF op
    <2>4. ASSUME NEW cat, NEW c \in Admin!Cell
          PROVE  /\ Admin!Effect(cat, op)[c] # cat[c] => c \in DOMAIN asks \cup Admin!Reach(cat, op)
                 /\ c \in DOMAIN asks => Admin!Effect(cat, op)[c] \in asks[c]
      <3>1. AdminEffectIs(cat, op, c)
        BY AdminEffects
      <3>2. Admin!Effect(cat, op)[c] = IF c[1] = "user" /\ c[2] = d.user
                                       THEN IF c[3] = "role" THEN d.role ELSE "new" ELSE cat[c]
        BY <2>2, <3>1 DEF AdminEffectIs
      <3>3. c[1] = "user" /\ c[2] = d.user => c \in Admin!Reach(cat, op)
        <4>1. Admin!Reach(cat, op) = {<<"user", d.user, f>> : f \in {"role", "password"}}
          BY <2>2 DEF Admin!Reach
        <4> QED BY <4>1, AdminCells
      <3>4. c \in DOMAIN asks => c = Admin!RoleOf(d.user) /\ asks[c] = {d.role}
        BY <1>3, <2>3
      <3>5. c = Admin!RoleOf(d.user) => c[1] = "user" /\ c[2] = d.user /\ c[3] = "role"
        BY DEF Admin!RoleOf
      <3> QED BY <3>2, <3>3, <3>4, <3>5
    <2>5. AdminItem(s(op))
      BY <1>2, <2>4, AdminItemIf
    <2> QED BY <1>1, <2>1, <2>5
  <1>6. CASE d.editor = "ResetPassword"
    <2> DEFINE op == Admin!SetUser(d.user, "password", "new")
               b == <<"user", d.user, "password">>
    <2>1. ops = <<op>>
      BY <1>6 DEF Admin!Sends
    <2>2. op.op = "put_user" /\ op.cell = b /\ op.value = "new"
      BY DEF Admin!SetUser
    <2>3. DOMAIN now = {b} /\ now[b] = {"new"}
      BY <1>6 DEF Admin!Asks, Admin!CanSave, Admin!Only, now
    <2>4. then = <<>>
      <3>1. first.editor = "ResetPassword" /\ first.user = None
        BY <1>6 DEF Admin!Loaded, Admin!UserDraft, first
      <3> QED BY <3>1 DEF Admin!Asks, then
    <2> HIDE DEF op, b
    <2>5. ASSUME NEW cat, NEW c \in Admin!Cell
          PROVE  /\ Admin!Effect(cat, op)[c] # cat[c] => c \in DOMAIN asks
                 /\ c \in DOMAIN asks => Admin!Effect(cat, op)[c] \in asks[c]
      <3>1. AdminEffectIs(cat, op, c)
        BY AdminEffects
      <3>2. Admin!Effect(cat, op)[c] = IF c = b THEN "new" ELSE cat[c]
        BY <2>2, <3>1 DEF AdminEffectIs
      <3>3. DOMAIN asks = {b} /\ asks[b] = {"new"}
        BY <1>3, <2>3, <2>4
      <3> QED BY <3>2, <3>3
    <2>6. AdminItem(s(op))
      BY <1>2, <2>5, AdminItemIf
    <2> QED BY <1>1, <2>1, <2>6
  <1> QED BY <1>4, <1>5, <1>6 DEF AdminDraft

(* and what the buttons of a row do.                                       *)
LEMMA AdminPresses ==
  ASSUME NEW from, NEW b \in Admin!Buttons(from)
  PROVE  AdminItem(Saved(b.op, b.asks, from, TRUE, b.direct, {}))
  <1> DEFINE s == Saved(b.op, b.asks, from, TRUE, b.direct, {})
  <1>0. s.op = b.op /\ s.asks = b.asks
    BY DEF Saved
  <1> HIDE DEF s
  <1>1. \A op, c, v : b = Admin!Button(op, c, v) => s.op = op /\ s.asks = [x \in {c} |-> {v}]
    BY <1>0 DEF Admin!Button, Admin!Only
  <1>2. CASE b \in Admin!DeleteProfileButtons(from)
    <2>1. PICK p : b = Admin!Button(Admin!DeleteProfile(p), Admin!At(p, "exists"), "none")
      BY <1>2 DEF Admin!DeleteProfileButtons
    <2>2. s.op.op = "delete_profile" /\ s.op.profile = p /\ s.asks = [x \in {Admin!At(p, "exists")} |-> {"none"}]
      <3>1. s.op = Admin!DeleteProfile(p) /\ s.asks = [x \in {Admin!At(p, "exists")} |-> {"none"}]
        BY <1>1, <2>1
      <3> QED BY <3>1 DEF Admin!DeleteProfile
    <2>3. ASSUME NEW cat, NEW c \in Admin!Cell
          PROVE  /\ Admin!Effect(cat, s.op)[c] # cat[c] => c \in Admin!Reach(cat, s.op)
                 /\ c \in DOMAIN s.asks => Admin!Effect(cat, s.op)[c] \in s.asks[c]
      <3>1. AdminEffectIs(cat, s.op, c)
        BY AdminEffects
      <3>2. Admin!Effect(cat, s.op)[c] = IF c \in {"profile"} \X {p} \X Admin!Field THEN "none" ELSE cat[c]
        BY <2>2, <3>1 DEF AdminEffectIs
      <3>3. Admin!Reach(cat, s.op) = {Admin!At(p, f) : f \in Admin!Field}
        BY <2>2 DEF Admin!Reach
      <3>4. c \in {"profile"} \X {p} \X Admin!Field => c = Admin!At(p, c[3]) /\ c[3] \in Admin!Field
        BY DEF Admin!At
      <3>5. Admin!At(p, "exists") \in {"profile"} \X {p} \X Admin!Field
        BY DEF Admin!At, Admin!Field
      <3> QED BY <2>2, <3>2, <3>3, <3>4, <3>5
    <2>4. AdminItem(s)
      BY <2>3, AdminItemIf
    <2> QED BY <2>4 DEF s
  <1>3. CASE b \in Admin!UserButtons(from)
    <2>1. \/ \E u, v : b = Admin!Button(Admin!SetUser(u, "role", v), Admin!RoleOf(u), v)
          \/ \E u : b = Admin!Button(Admin!DeleteUser(u), Admin!RoleOf(u), "none")
      BY <1>3 DEF Admin!UserButtons
    <2>2. ASSUME NEW u, NEW v, b = Admin!Button(Admin!SetUser(u, "role", v), Admin!RoleOf(u), v)
          PROVE  AdminItem(s)
      <3>1. /\ s.op.op = "put_user" /\ s.op.cell = Admin!RoleOf(u) /\ s.op.value = v
            /\ s.asks = [x \in {Admin!RoleOf(u)} |-> {v}]
        <4>1. s.op = Admin!SetUser(u, "role", v) /\ s.asks = [x \in {Admin!RoleOf(u)} |-> {v}]
          BY <1>1, <2>2
        <4> QED BY <4>1 DEF Admin!SetUser, Admin!RoleOf
      <3>2. ASSUME NEW cat, NEW c \in Admin!Cell
            PROVE  Admin!Effect(cat, s.op)[c] = IF c = Admin!RoleOf(u) THEN v ELSE cat[c]
        <4>1. AdminEffectIs(cat, s.op, c)
          BY AdminEffects
        <4> QED BY <3>1, <4>1 DEF AdminEffectIs
      <3> QED BY <3>1, <3>2, AdminItemIf
    <2>3. ASSUME NEW u, b = Admin!Button(Admin!DeleteUser(u), Admin!RoleOf(u), "none")
          PROVE  AdminItem(s)
      <3>1. /\ s.op.op = "delete_user" /\ s.op.user = u
            /\ s.asks = [x \in {Admin!RoleOf(u)} |-> {"none"}]
        <4>1. s.op = Admin!DeleteUser(u) /\ s.asks = [x \in {Admin!RoleOf(u)} |-> {"none"}]
          BY <1>1, <2>3
        <4> QED BY <4>1 DEF Admin!DeleteUser
      <3>2. ASSUME NEW cat, NEW c \in Admin!Cell
            PROVE  /\ Admin!Effect(cat, s.op)[c] # cat[c] => c \in Admin!Reach(cat, s.op)
                   /\ c \in DOMAIN s.asks => Admin!Effect(cat, s.op)[c] \in s.asks[c]
        <4>1. AdminEffectIs(cat, s.op, c)
          BY AdminEffects
        <4>2. Admin!Effect(cat, s.op)[c] = IF c[1] = "user" /\ c[2] = u THEN "none" ELSE cat[c]
          BY <3>1, <4>1 DEF AdminEffectIs
        <4>3. Admin!Reach(cat, s.op) = {<<"user", u, f>> : f \in {"role", "password"}}
          BY <3>1 DEF Admin!Reach
        <4>4. c[1] = "user" /\ c[2] = u => c \in Admin!Reach(cat, s.op)
          BY <4>3, AdminCells
        <4>5. c = Admin!RoleOf(u) => c[1] = "user" /\ c[2] = u
          BY DEF Admin!RoleOf
        <4> QED BY <3>1, <4>2, <4>4, <4>5
      <3> QED BY <3>2, AdminItemIf
    <2>4. AdminItem(s)
      BY <2>1, <2>2, <2>3
    <2> QED BY <2>4 DEF s
  <1> QED BY <1>2, <1>3 DEF Admin!Buttons

-----------------------------------------------------------------------------
(* Batches                                                                 *)

(* Induction over the natural numbers, for a set                           *)
LEMMA Induction ==
  ASSUME NEW S \in SUBSET Nat, 0 \in S, \A n \in S : n + 1 \in S
  PROVE  S = Nat
  <1> DEFINE R == {ss \in Nat \X Nat : ss[1] < ss[2]}
             T == Nat \ S
  <1> SUFFICES ASSUME T # {} PROVE FALSE
    OBVIOUS
  <1>1. IsWellFoundedOn(R, Nat)
    BY NatLessThanWellFounded, Zenon DEF OpToRel
  <1>2. PICK x \in T : \A y \in T : ~(<<y, x>> \in R)
    <2> HIDE DEF R
    <2> QED BY <1>1, WFMin
  <1>3. x \in Nat \ {0} /\ x \notin S
    OBVIOUS
  <1>4. x - 1 \in Nat /\ x - 1 < x /\ (x - 1) + 1 = x
    BY <1>3
  <1>5. <<x - 1, x>> \in R
    BY <1>3, <1>4
  <1>6. x - 1 \in S
    BY <1>2, <1>4, <1>5
  <1> QED BY <1>3, <1>4, <1>6

(* The operations of a batch run one after the other.                      *)
First == [cat |-> catalog, ok |-> TRUE]

LEMMA AfterIs ==
  ASSUME NEW batch, Len(batch) \in Nat
  PROVE  /\ After(batch)[0] = First
         /\ \A i \in 1 .. Len(batch) : After(batch)[i] = Step(After(batch)[i - 1], batch[i].op)
  <1> DEFINE N == Len(batch)
             Rec(g, m) == [i \in 0 .. m |-> IF i = 0 THEN First ELSE Step(g[i - 1], batch[i].op)]
             S == {m \in Nat : \E g : g = Rec(g, m)}
  <1>1. 0 \in S
    <2> DEFINE g == [i \in 0 .. 0 |-> First]
    <2>1. g = Rec(g, 0)
      OBVIOUS
    <2> QED BY <2>1
  <1>2. ASSUME NEW m \in S PROVE m + 1 \in S
    <2>1. PICK g : g = Rec(g, m)
      OBVIOUS
    <2> DEFINE h == [i \in 0 .. m + 1 |-> IF i <= m THEN g[i] ELSE Step(g[m], batch[m + 1].op)]
    <2>2. m \in Nat
      OBVIOUS
    <2>3. \A i \in 0 .. m + 1 : h[i] = IF i = 0 THEN First ELSE Step(h[i - 1], batch[i].op)
      <3> TAKE i \in 0 .. m + 1
      <3>1. \A k \in 0 .. m : g[k] = IF k = 0 THEN First ELSE Step(g[k - 1], batch[k].op)
        BY <2>1
      <3>2. CASE i = 0
        BY <2>2, <3>1, <3>2
      <3>3. CASE i \in 1 .. m
        <4>1. h[i] = g[i] /\ h[i - 1] = g[i - 1] /\ i # 0 /\ i \in 0 .. m
          BY <2>2, <3>3
        <4> HIDE DEF h
        <4> QED BY <3>1, <4>1
      <3>4. CASE i = m + 1
        <4>1. h[i] = Step(g[m], batch[i].op) /\ h[i - 1] = g[m] /\ i # 0
          BY <2>2, <3>4
        <4> HIDE DEF h
        <4> QED BY <4>1
      <3> QED BY <2>2, <3>2, <3>3, <3>4
    <2>4. h = Rec(h, m + 1)
      BY <2>3
    <2> HIDE DEF h
    <2>5. \E x : x = Rec(x, m + 1)
      BY <2>4
    <2> HIDE DEF Rec
    <2> QED BY <2>2, <2>5
  <1>3. N \in S
    <2>1. S \in SUBSET Nat
      OBVIOUS
    <2> HIDE DEF S
    <2> QED BY <1>1, <1>2, <2>1, Induction
  <1>4. After(batch) = CHOOSE g : g = Rec(g, N)
    BY Zenon DEF After, First
  <1>5. After(batch) = Rec(After(batch), N)
    BY <1>3, <1>4
  <1> QED BY <1>5

(* What is picked from the basket are items of it.                         *)
LEMMA PickedIs ==
  ASSUME NEW S, basket \in Seq(S), NEW I
  PROVE  Picked(I) \in Seq(S)
  <1> DEFINE N == Len(basket)
             Taken(u, i) == IF i \in I THEN Append(u, basket[i]) ELSE u
             Rec(g, m) == [i \in 0 .. m |-> IF i = 0 THEN <<>>
                                            ELSE IF i \in I THEN Append(g[i - 1], basket[i]) ELSE g[i - 1]]
             T == {m \in Nat : m <= N => \E g : g = Rec(g, m)}
  <1>0. N \in Nat /\ \A i \in 1 .. N : basket[i] \in S
    OBVIOUS
  <1>1. 0 \in T
    <2> DEFINE g == [i \in 0 .. 0 |-> <<>>]
    <2>1. g = Rec(g, 0)
      OBVIOUS
    <2> QED BY <2>1
  <1>2. ASSUME NEW m \in T PROVE m + 1 \in T
    <2>2. m \in Nat
      OBVIOUS
    <2> SUFFICES ASSUME m + 1 <= N PROVE \E g : g = Rec(g, m + 1)
      BY <2>2
    <2>1. PICK g : g = Rec(g, m)
      BY <1>0, <2>2
    <2> DEFINE h == [i \in 0 .. m + 1 |-> IF i <= m THEN g[i] ELSE Taken(g[m], m + 1)]
    <2>3. \A i \in 0 .. m + 1 : h[i] = IF i = 0 THEN <<>>
                                       ELSE IF i \in I THEN Append(h[i - 1], basket[i]) ELSE h[i - 1]
      <3> TAKE i \in 0 .. m + 1
      <3>1. \A k \in 0 .. m : g[k] = IF k = 0 THEN <<>>
                                     ELSE IF k \in I THEN Append(g[k - 1], basket[k]) ELSE g[k - 1]
        BY <2>1
      <3>2. CASE i = 0
        BY <2>2, <3>1, <3>2
      <3>3. CASE i \in 1 .. m
        <4>1. h[i] = g[i] /\ h[i - 1] = g[i - 1] /\ i # 0 /\ i \in 0 .. m
          BY <2>2, <3>3
        <4> HIDE DEF h
        <4> QED BY <3>1, <4>1
      <3>4. CASE i = m + 1
        <4>1. h[i] = Taken(g[m], i) /\ h[i - 1] = g[m] /\ i # 0
          BY <2>2, <3>4
        <4> HIDE DEF h
        <4> QED BY <4>1
      <3> QED BY <2>2, <3>2, <3>3, <3>4
    <2>4. h = Rec(h, m + 1)
      BY <2>3
    <2> HIDE DEF h
    <2> QED BY <2>4
  <1>3. N \in T
    <2>1. T \in SUBSET Nat
      OBVIOUS
    <2> HIDE DEF T
    <2> QED BY <1>0, <1>1, <1>2, <2>1, Induction
  <1> DEFINE upTo == CHOOSE g : g = Rec(g, N)
  <1>4. Picked(I) = upTo[N]
    BY Zenon DEF Picked
  <1>5. upTo = Rec(upTo, N)
    <2>1. \E g : g = Rec(g, N)
      BY <1>0, <1>3
    <2> QED BY <2>1
  <1> HIDE DEF upTo
  <1>6. \A i \in 0 .. N : upTo[i] = IF i = 0 THEN <<>>
                                    ELSE IF i \in I THEN Append(upTo[i - 1], basket[i]) ELSE upTo[i - 1]
    BY <1>5
  <1> DEFINE U == {m \in Nat : m <= N => upTo[m] \in Seq(S)}
  <1>7. 0 \in U
    <2>1. upTo[0] = <<>>
      BY <1>0, <1>6
    <2>2. upTo[0] \in Seq(S)
      <3>1. <<>> \in Seq(S)
        OBVIOUS
      <3> QED BY <2>1, <3>1, Zenon
    <2> QED BY <2>2
  <1>8. ASSUME NEW m \in U PROVE m + 1 \in U
    <2>1. m \in Nat
      OBVIOUS
    <2> SUFFICES ASSUME m + 1 <= N PROVE upTo[m + 1] \in Seq(S)
      BY <2>1
    <2>2. upTo[m] \in Seq(S) /\ m + 1 \in 1 .. N /\ m + 1 \in 0 .. N /\ m + 1 # 0 /\ (m + 1) - 1 = m
      BY <1>0, <2>1
    <2>3. basket[m + 1] \in S
      BY <1>0, <2>2
    <2>4. upTo[m + 1] = IF m + 1 \in I THEN Append(upTo[m], basket[m + 1]) ELSE upTo[m]
      BY <1>6, <2>2
    <2> QED BY <2>2, <2>3, <2>4
  <1>9. N \in U
    <2>1. U \in SUBSET Nat
      OBVIOUS
    <2> HIDE DEF U
    <2> QED BY <1>0, <1>7, <1>8, <2>1, Induction
  <1> QED BY <1>0, <1>4, <1>9

(* What each family proves of its items, for the page on show.             *)
Cells == ForPage(Grants!Cell, Roles!Cell, Server!Cell, Admin!Cell)

OnAPage == page \in {"grants", "roles", "server", "admin"}

LEMMA CellsOf ==
  ASSUME OnAPage, NEW cat, InOrder(cat)
  PROVE  DOMAIN cat = Cells
  <1>1. CASE page = "grants"
    BY <1>1 DEF InOrder, Cells, ForPage, Grants!Catalog
  <1>2. CASE page = "roles"
    BY <1>2 DEF InOrder, Cells, ForPage, Roles!InOrder
  <1>3. CASE page = "server"
    BY <1>3 DEF InOrder, Cells, ForPage
  <1>4. CASE page = "admin"
    BY <1>4 DEF InOrder, Cells, ForPage
  <1> QED BY <1>1, <1>2, <1>3, <1>4 DEF OnAPage

ItemOn(s, cat) ==
    /\ InOrder(Effect(cat, s.op))
    /\ s.direct => \A c \in Cells : Effect(cat, s.op)[c] # cat[c] =>
                        c \in DOMAIN s.asks \cup Reach(cat, s.op)
    /\ s.direct /\ s.alone => \A c \in (Cells \cap DOMAIN s.asks) \ s.ignored :
            cat[c] = s.was[c] /\ Sole(cat[c]) => Reads(Effect(cat, s.op), c) \in s.asks[c]

LEMMA ItemsKeep ==
  ASSUME OnAPage, NEW s, Item(s), NEW cat, InOrder(cat), ~Refused(cat, s.op)
  PROVE  ItemOn(s, cat)
  <1>1. CASE page = "grants"
    <2>1. GrantsItem(s) /\ cat \in Grants!Catalog /\ ~Grants!Refused(cat, s.op)
      BY <1>1 DEF Item, InOrder, Refused, ForPage
    <2>2. Grants!Effect(cat, s.op) \in Grants!Catalog
      BY <2>1, GrantsEffect
    <2> QED BY <1>1, <2>1, <2>2 DEF GrantsItem, ItemOn, InOrder, Effect, Reach, Reads, Sole, Cells, ForPage
  <1>2. CASE page = "roles"
    <2>1. RolesItem(s) /\ Roles!InOrder(cat) /\ ~Roles!Refused(cat, s.op)
      BY <1>2 DEF Item, InOrder, Refused, ForPage
    <2> QED BY <1>2, <2>1 DEF RolesItem, ItemOn, InOrder, Effect, Reach, Reads, Sole, Cells, ForPage
  <1>3. CASE page = "server"
    <2>1. ServerItem(s) /\ cat = [c \in Server!Cell |-> cat[c]] /\ ~Server!Refused(cat, s.op)
      BY <1>3 DEF Item, InOrder, Refused, ForPage
    <2>2. InOrder(Effect(cat, s.op))
      BY <1>3, <2>1, ServerEffect DEF InOrder, Effect, ForPage
    <2> QED BY <1>3, <2>1, <2>2 DEF ServerItem, ItemOn, Effect, Reach, Reads, Sole, Cells, ForPage
  <1>4. CASE page = "admin"
    <2>1. AdminItem(s) /\ cat = [c \in Admin!Cell |-> cat[c]] /\ ~Admin!Refused(cat, s.op)
      BY <1>4 DEF Item, InOrder, Refused, ForPage
    <2>2. InOrder(Effect(cat, s.op))
      BY <1>4 DEF InOrder, Effect, ForPage, Admin!Effect
    <2> QED BY <1>4, <2>1, <2>2 DEF AdminItem, ItemOn, Effect, Reach, Reads, Sole, Cells, ForPage
  <1> QED BY <1>1, <1>2, <1>3, <1>4 DEF OnAPage

(* A step of a batch keeps the catalog in order, and is the effect of the  *)
(* operation or none.                                                      *)
Result(r) == r = [cat |-> r.cat, ok |-> r.ok] /\ r.ok \in BOOLEAN /\ InOrder(r.cat)

LEMMA Steps ==
  ASSUME OnAPage, NEW s, Item(s), NEW r, Result(r), NEW n, n = Step(r, s.op)
  PROVE  /\ Result(n)
         /\ n.ok => r.ok
         /\ \/ r.ok /\ ~Refused(r.cat, s.op) /\ n.ok /\ n.cat = Effect(r.cat, s.op)
            \/ ~n.ok /\ n.cat = r.cat
  <1>1. CASE r.ok /\ ~Refused(r.cat, s.op)
    <2>1. n = [cat |-> Effect(r.cat, s.op), ok |-> r.ok]
      BY <1>1 DEF Step, Result
    <2>2. InOrder(Effect(r.cat, s.op))
      BY <1>1, ItemsKeep DEF Result, ItemOn
    <2> QED BY <1>1, <2>1, <2>2 DEF Result
  <1>2. CASE ~(r.ok /\ ~Refused(r.cat, s.op))
    <2>1. n = [cat |-> r.cat, ok |-> FALSE]
      BY <1>2 DEF Step, Result
    <2> QED BY <2>1 DEF Result
  <1> QED BY <1>1, <1>2

(* The catalog stays in order throughout a batch, and a batch that is not  *)
(* refused was not refused before.                                         *)
LEMMA BatchRuns ==
  ASSUME OnAPage, InOrder(catalog), NEW S, NEW batch \in Seq(S), \A s \in S : Item(s)
  PROVE  \A i \in 0 .. Len(batch) :
            /\ Result(After(batch)[i])
            /\ After(batch)[i].ok => \A k \in 0 .. i : After(batch)[k].ok
  <1> DEFINE P(i) == /\ Result(After(batch)[i])
                     /\ After(batch)[i].ok => \A k \in 0 .. i : After(batch)[k].ok
             T == {i \in Nat : i <= Len(batch) => P(i)}
  <1>0. Len(batch) \in Nat /\ \A i \in 1 .. Len(batch) : Item(batch[i])
    OBVIOUS
  <1>1. 0 \in T
    <2>1. After(batch)[0] = First
      BY <1>0, AfterIs
    <2>2. P(0)
      BY <2>1 DEF First, Result
    <2> QED BY <2>2
  <1>2. ASSUME NEW i \in T PROVE i + 1 \in T
    <2>1. i \in Nat
      OBVIOUS
    <2> SUFFICES ASSUME i + 1 <= Len(batch) PROVE P(i + 1)
      BY <2>1
    <2>2. P(i) /\ i + 1 \in 1 .. Len(batch) /\ (i + 1) - 1 = i
      BY <1>0, <2>1
    <2>3. After(batch)[i + 1] = Step(After(batch)[i], batch[i + 1].op)
      BY <1>0, <2>2, AfterIs
    <2>4. Result(After(batch)[i + 1]) /\ (After(batch)[i + 1].ok => After(batch)[i].ok)
      <3> DEFINE s == batch[i + 1]
                 r == After(batch)[i]
                 n == After(batch)[i + 1]
      <3>1. Item(s) /\ Result(r) /\ n = Step(r, s.op)
        BY <1>0, <2>2, <2>3
      <3> HIDE DEF s, r, n
      <3>2. Result(n) /\ (n.ok => r.ok)
        BY <3>1, Steps, Zenon
      <3> QED BY <3>2 DEF r, n
    <2>5. \A k \in 0 .. i + 1 : k \in 0 .. i \/ k = i + 1
      BY <2>1
    <2> QED BY <2>2, <2>4, <2>5
  <1>3. T = Nat
    <2>1. T \in SUBSET Nat
      OBVIOUS
    <2> HIDE DEF T
    <2> QED BY <1>1, <1>2, <2>1, Induction
  <1> QED BY <1>0, <1>3

(* Direct items that neither ask for a cell nor reach it leave it alone.   *)
LEMMA StaysPut ==
  ASSUME OnAPage, InOrder(catalog), NEW S, NEW batch \in Seq(S), \A s \in S : Item(s),
         NEW lo \in Nat, NEW hi \in Nat, lo <= hi, hi <= Len(batch), NEW c \in Cells,
         \A j \in lo + 1 .. hi : batch[j].direct /\ c \notin DOMAIN batch[j].asks \cup Reached(batch, j)
  PROVE  After(batch)[hi].cat[c] = After(batch)[lo].cat[c]
  <1> DEFINE Same(i) == After(batch)[i].cat[c] = After(batch)[lo].cat[c]
             T == {i \in Nat : lo <= i /\ i <= hi => Same(i)}
  <1>0. Len(batch) \in Nat /\ \A i \in 1 .. Len(batch) : Item(batch[i])
    OBVIOUS
  <1>1. 0 \in T
    OBVIOUS
  <1>2. ASSUME NEW i \in T PROVE i + 1 \in T
    <2>1. i \in Nat
      OBVIOUS
    <2> SUFFICES ASSUME lo <= i + 1, i + 1 <= hi PROVE Same(i + 1)
      BY <2>1
    <2>2. CASE lo = i + 1
      BY <2>2
    <2>3. CASE lo <= i
      <3>1. /\ Same(i) /\ i \in 0 .. Len(batch) /\ i + 1 \in 1 .. Len(batch)
            /\ (i + 1) - 1 = i /\ i + 1 \in lo + 1 .. hi
        BY <1>0, <2>1, <2>3
      <3> DEFINE s == batch[i + 1]
                 r == After(batch)[i]
                 n == After(batch)[i + 1]
      <3>2. Item(s) /\ s.direct /\ c \notin DOMAIN s.asks \cup Reach(r.cat, s.op)
        BY <1>0, <3>1 DEF Reached
      <3>3. n = Step(r, s.op) /\ Result(r)
        BY <1>0, <3>1, AfterIs, BatchRuns
      <3> HIDE DEF s, r, n
      <3>4. \/ ~Refused(r.cat, s.op) /\ n.cat = Effect(r.cat, s.op)
            \/ n.cat = r.cat
        BY <3>2, <3>3, Steps
      <3>5. n.cat[c] = r.cat[c]
        <4>1. CASE ~Refused(r.cat, s.op) /\ n.cat = Effect(r.cat, s.op)
          <5>1. ItemOn(s, r.cat)
            BY <3>2, <3>3, <4>1, ItemsKeep DEF Result
          <5> QED BY <3>2, <4>1, <5>1 DEF ItemOn
        <4> QED BY <3>4, <4>1
      <3> QED BY <3>1, <3>5 DEF r, n
    <2> QED BY <2>1, <2>2, <2>3
  <1>3. T = Nat
    <2>1. T \in SUBSET Nat
      OBVIOUS
    <2> HIDE DEF T
    <2> QED BY <1>1, <1>2, <2>1, Induction
  <1> QED BY <1>3

-----------------------------------------------------------------------------
(* The same for the page on show, whichever it is                          *)

LEMMA OpensFit ==
  ASSUME OnAPage, NEW from, from = seen, InOrder(from), NEW d \in Opens
  PROVE  Fits(from, d)
  <1>1. CASE page = "grants"
    BY <1>1, GrantsOpens DEF InOrder, Opens, Fits, ForPage
  <1>2. CASE page = "roles"
    BY <1>2, RolesOpens DEF InOrder, Opens, Fits, ForPage
  <1>3. CASE page = "server"
    BY <1>3, ServerOpens DEF InOrder, Opens, Fits, ForPage
  <1>4. CASE page = "admin"
    BY <1>4, AdminOpens DEF InOrder, Opens, Fits, ForPage
  <1> QED BY <1>1, <1>2, <1>3, <1>4 DEF OnAPage

LEMMA EditsFit ==
  ASSUME OnAPage, NEW from, InOrder(from), NEW d, Fits(from, d), NEW e \in Edits(from, d)
  PROVE  Fits(from, e)
  <1>1. CASE page = "grants"
    BY <1>1, GrantsEdits DEF InOrder, Edits, Fits, ForPage
  <1>2. CASE page = "roles"
    BY <1>2, RolesEdits DEF InOrder, Edits, Fits, ForPage
  <1>3. CASE page = "server"
    BY <1>3, ServerEdits DEF InOrder, Edits, Fits, ForPage
  <1>4. CASE page = "admin"
    BY <1>4, AdminEdits DEF InOrder, Edits, Fits, ForPage
  <1> QED BY <1>1, <1>2, <1>3, <1>4 DEF OnAPage

LEMMA OthersInOrder ==
  ASSUME OnAPage, InOrder(catalog), NEW cat \in ByOthers
  PROVE  InOrder(cat)
  <1>1. CASE page = "grants"
    BY <1>1, GrantsForeign DEF InOrder, ByOthers, ForPage
  <1>2. CASE page = "roles"
    BY <1>2, RolesForeign DEF InOrder, ByOthers, ForPage
  <1>3. CASE page = "server"
    BY <1>3, ServerForeign DEF InOrder, ByOthers, ForPage
  <1>4. CASE page = "admin"
    BY <1>4, AdminForeign DEF InOrder, ByOthers, ForPage
  <1> QED BY <1>1, <1>2, <1>3, <1>4 DEF OnAPage

LEMMA SaveItem ==
  ASSUME OnAPage, NEW from, InOrder(from), NEW d, Fits(from, d), CanSave(d),
         NEW ops, ops = Sends(from, d), ops # <<>>,
         NEW asks, asks = [c \in Touched(from, d) |-> Asks(from, d)[c]]
  PROVE  Item(Saved(ops[Len(ops)], asks, from, Len(ops) = 1, Direct(from, d), Ignored(d)))
  <1>1. CASE page = "grants"
    <2>1. /\ from \in Grants!Catalog /\ Grants!CanSave(d) /\ ops = Grants!Sends(from, d)
          /\ asks = [c \in Touched(from, d) |-> Grants!Asks(from, d)[c]]
          /\ d \in EditorDraft \/ d \in ListDraft
      BY <1>1 DEF InOrder, CanSave, Sends, Asks, Fits, ForPage
    <2>2. GrantsItem(Saved(ops[Len(ops)], asks, from, Len(ops) = 1, Grants!Direct(from, d), {}))
      <3>1. CASE d \in EditorDraft
        BY <1>1, <2>1, <3>1, EditorSaves
      <3>2. CASE d \in ListDraft
        BY <1>1, <2>1, <3>2, ListSaves
      <3> QED BY <2>1, <3>1, <3>2
    <2> QED BY <1>1, <2>2 DEF Item, Direct, Ignored, ForPage
  <1>2. CASE page = "roles"
    <2>1. /\ RolesDraft(d) /\ Roles!CanSave(d) /\ ops = Roles!Sends(from, d)
          /\ asks = [c \in Touched(from, d) |-> Roles!Asks(from, d)[c]]
      BY <1>2 DEF CanSave, Sends, Asks, Fits, ForPage
    <2>2. RolesItem(Saved(ops[Len(ops)], asks, from, Len(ops) = 1, Roles!Direct(from, d), Roles!Ignored(d)))
      BY <1>2, <2>1, RolesSaves
    <2> QED BY <1>2, <2>2 DEF Item, Direct, Ignored, ForPage
  <1>3. CASE page = "server"
    <2>1. /\ ServerDraft(from, d) /\ Server!CanSave(d) /\ ops = Server!Sends(from, d)
          /\ asks = [c \in Touched(from, d) |-> Server!Asks(from, d)[c]]
      BY <1>3 DEF CanSave, Sends, Asks, Fits, ForPage
    <2>2. ServerItem(Saved(ops[Len(ops)], asks, from, Len(ops) = 1, Server!Direct(from, d), {}))
      BY <1>3, <2>1, ServerSaves
    <2> QED BY <1>3, <2>2 DEF Item, Direct, Ignored, ForPage
  <1>4. CASE page = "admin"
    <2>1. /\ AdminDraft(d) /\ Admin!CanSave(d) /\ ops = Admin!Sends(from, d)
          /\ asks = [c \in Touched(from, d) |-> Admin!Asks(from, d)[c]]
      BY <1>4 DEF CanSave, Sends, Asks, Fits, ForPage
    <2>2. AdminItem(Saved(ops[Len(ops)], asks, from, Len(ops) = 1, Admin!Direct(from, d), {}))
      BY <1>4, <2>1, AdminSaves
    <2> QED BY <1>4, <2>2 DEF Item, Direct, Ignored, ForPage
  <1> QED BY <1>1, <1>2, <1>3, <1>4 DEF OnAPage

LEMMA PressItem ==
  ASSUME OnAPage, NEW from, from = seen, InOrder(from), NEW b \in Buttons
  PROVE  Item(Saved(b.op, b.asks, from, TRUE, b.direct, {}))
  <1>1. CASE page = "grants"
    BY <1>1, GrantsPresses DEF InOrder, Buttons, Item, ForPage
  <1>2. CASE page = "roles"
    BY <1>2, RolesPresses DEF InOrder, Buttons, Item, ForPage
  <1>3. CASE page = "server"
    BY <1>3, ServerPresses DEF InOrder, Buttons, Item, ForPage
  <1>4. CASE page = "admin"
    BY <1>4, AdminPresses DEF InOrder, Buttons, Item, ForPage
  <1> QED BY <1>1, <1>2, <1>3, <1>4 DEF OnAPage

-----------------------------------------------------------------------------
(* The inductive invariant                                                 *)

(* The open form holds rows that were once shown and a draft its handlers  *)
(* can reach; and whatever is in the basket is as promised.                *)
IInv ==
    /\ FormInv
    /\ form # None => form = [from |-> form.from, draft |-> form.draft]
    /\ \E S : basket \in Seq(S) /\ \A s \in S : Item(s)

LEMMA InitInv == Init => IInv
  <1> SUFFICES ASSUME Init PROVE IInv
    OBVIOUS
  <1>1. page \in {"grants", "roles", "server", "admin"} /\ catalog \in Start[page] /\ seen = catalog
    BY PagesConstants DEF Init
  <1>2. InOrder(catalog)
    <2>1. CASE page = "grants"
      BY <1>1, <2>1, PagesConstants DEF InOrder, ForPage
    <2>2. CASE page = "roles"
      BY <1>1, <2>2, PagesConstants DEF InOrder, ForPage
    <2>3. CASE page = "server"
      BY <1>1, <2>3, PagesConstants DEF InOrder, ForPage
    <2>4. CASE page = "admin"
      BY <1>1, <2>4, PagesConstants DEF InOrder, ForPage
    <2> QED BY <1>1, <2>1, <2>2, <2>3, <2>4
  <1>3. \E S : basket \in Seq(S) /\ \A s \in S : Item(s)
    <2>1. basket \in Seq({}) /\ \A s \in {} : Item(s)
      BY DEF Init
    <2> QED BY <2>1
  <1>4. FormInv
    BY <1>1, <1>2 DEF Init, FormInv
  <1> QED BY <1>3, <1>4 DEF Init, IInv

(* Adding an item as promised to the basket, and taking items from it,     *)
(* leaves a basket of items as promised.                                   *)
LEMMA AddItem ==
  ASSUME NEW S, basket \in Seq(S), \A s \in S : Item(s), NEW x, Item(x), page' = page
  PROVE  \E T : Append(basket, x) \in Seq(T) /\ \A s \in T : Item(s)'
  <1>1. \A s \in S \cup {x} : Item(s)'
    BY DEF Item, ForPage
  <1>2. Append(basket, x) \in Seq(S \cup {x})
    OBVIOUS
  <1> QED BY <1>1, <1>2

LEMMA TakeItems ==
  ASSUME NEW S, basket \in Seq(S), \A s \in S : Item(s), NEW I, page' = page
  PROVE  \E T : Picked(I) \in Seq(T) /\ \A s \in T : Item(s)'
  <1>1. \A s \in S : Item(s)'
    BY DEF Item, ForPage
  <1>2. Picked(I) \in Seq(S)
    BY PickedIs
  <1> QED BY <1>1, <1>2

(* The two parts of the invariant after a step that stays on the page.     *)
LEMMA Kept ==
  ASSUME IInv, page' = page
  PROVE  /\ catalog' = catalog => InOrder(catalog)'
         /\ seen' \in {seen, catalog} => InOrder(seen)'
         /\ form' \in {form, None} =>
              /\ form' # None => InOrder(form.from)' /\ Fits(form.from, form.draft)'
              /\ form' # None => form' = [from |-> form'.from, draft |-> form'.draft]
         /\ basket' = basket => \E S : basket' \in Seq(S) /\ \A s \in S : Item(s)'
  <1>1. \A cat : InOrder(cat)' <=> InOrder(cat)
    BY DEF InOrder, ForPage
  <1>2. \A from, d : Fits(from, d)' <=> Fits(from, d)
    BY DEF Fits, ForPage
  <1>3. \A s : Item(s)' <=> Item(s)
    BY DEF Item, ForPage
  <1> QED BY <1>1, <1>2, <1>3 DEF IInv, FormInv

(* What is left to show of a step that stays on the page.                  *)
LEMMA Together ==
  ASSUME IInv, page' = page, InOrder(catalog)', InOrder(seen)',
         form' # None => InOrder(form.from)' /\ Fits(form.from, form.draft)',
         form' # None => form' = [from |-> form'.from, draft |-> form'.draft],
         \E S : basket' \in Seq(S) /\ \A s \in S : Item(s)'
  PROVE  IInv'
  <1>1. FormInv'
    BY DEF IInv, FormInv
  <1> QED BY <1>1 DEF IInv

LEMMA PageIs == IInv => OnAPage /\ InOrder(catalog) /\ InOrder(seen)
  BY PagesConstants DEF IInv, FormInv, OnAPage

LEMMA RefetchKeeps == IInv /\ Refetch => IInv'
  BY Kept, Together DEF Refetch

LEMMA CloseFormKeeps == IInv /\ CloseForm => IInv'
  BY Kept, Together DEF CloseForm

LEMMA OpenFormKeeps == IInv /\ OpenForm => IInv'
  <1> SUFFICES ASSUME IInv, OpenForm PROVE IInv'
    OBVIOUS
  <1>1. PICK d \in Opens : form' = [from |-> seen, draft |-> d]
    BY DEF OpenForm
  <1>2. form'.from = seen /\ form'.draft = d
    BY <1>1
  <1>3. InOrder(seen) /\ Fits(seen, d)
    BY PageIs, OpensFit
  <1>4. page' = page /\ InOrder(form.from)' /\ Fits(form.from, form.draft)'
    <2>1. page' = page
      BY DEF OpenForm
    <2> QED BY <1>2, <1>3, <2>1 DEF InOrder, Fits, ForPage
  <1> QED BY <1>1, <1>4, Kept, Together DEF OpenForm

LEMMA EditKeeps == IInv /\ Edit => IInv'
  <1> SUFFICES ASSUME IInv, Edit PROVE IInv'
    OBVIOUS
  <1>1. PICK d \in Edits(form.from, form.draft) : form' = [form EXCEPT !.draft = d]
    BY DEF Edit
  <1>2. form # None /\ form = [from |-> form.from, draft |-> form.draft]
    BY DEF Edit, IInv
  <1>3. form' = [from |-> form.from, draft |-> d]
    BY <1>1, <1>2
  <1>4. InOrder(form.from) /\ Fits(form.from, d)
    BY <1>2, PageIs, EditsFit DEF IInv, FormInv
  <1>5. page' = page /\ InOrder(form.from)' /\ Fits(form.from, form.draft)'
    <2>1. page' = page
      BY DEF Edit
    <2> QED BY <1>3, <1>4, <2>1 DEF InOrder, Fits, ForPage
  <1> QED BY <1>3, <1>5, Kept, Together DEF Edit

LEMMA SaveKeeps == IInv /\ Save => IInv'
  <1> SUFFICES ASSUME IInv, Save PROVE IInv'
    OBVIOUS
  <1> DEFINE f == form.from
             d == form.draft
             ops == Sends(f, d)
             asks == [c \in Touched(f, d) |-> Asks(f, d)[c]]
             x == Saved(ops[Len(ops)], asks, f, Len(ops) = 1, Direct(f, d), Ignored(d))
  <1>1. /\ UNCHANGED <<page, catalog, seen>> /\ form' \in {form, None} /\ CanSave(d)
        /\ \/ basket' = basket
           \/ ops # <<>> /\ basket' = Append(basket, x)
    BY DEF Save
  <1>2. InOrder(f) /\ Fits(f, d)
    BY DEF Save, IInv, FormInv
  <1>3. \E S : basket' \in Seq(S) /\ \A s \in S : Item(s)'
    <2>1. CASE basket' = basket
      BY <1>1, <2>1, Kept
    <2>2. CASE ops # <<>> /\ basket' = Append(basket, x)
      <3>1. Item(x)
        BY <1>1, <1>2, <2>2, PageIs, SaveItem
      <3> HIDE DEF x
      <3>2. PICK S : basket \in Seq(S) /\ \A s \in S : Item(s)
        BY DEF IInv
      <3> QED BY <1>1, <2>2, <3>1, <3>2, AddItem
    <2> QED BY <1>1, <2>1, <2>2
  <1> QED BY <1>1, <1>3, Kept, Together

LEMMA PressKeeps == IInv /\ Press => IInv'
  <1> SUFFICES ASSUME IInv, Press PROVE IInv'
    OBVIOUS
  <1>1. PICK b \in Buttons : basket' = Append(basket, Saved(b.op, b.asks, seen, TRUE, b.direct, {}))
    BY DEF Press
  <1> DEFINE x == Saved(b.op, b.asks, seen, TRUE, b.direct, {})
  <1>2. Item(x)
    BY PageIs, PressItem
  <1>3. UNCHANGED <<page, catalog, seen, form>>
    BY DEF Press
  <1>4. PICK S : basket \in Seq(S) /\ \A s \in S : Item(s)
    BY DEF IInv
  <1>5. basket' = Append(basket, x)
    BY <1>1
  <1> HIDE DEF x
  <1>6. \E T : basket' \in Seq(T) /\ \A s \in T : Item(s)'
    BY <1>2, <1>3, <1>4, <1>5, AddItem
  <1> QED BY <1>3, <1>6, Kept, Together

(* A batch is made of items as promised, and leaves a catalog in order.    *)
LEMMA BatchIs ==
  ASSUME IInv, NEW g
  PROVE  /\ \E S : Batch(g) \in Seq(S) /\ \A s \in S : Item(s)
         /\ Result(Run(Batch(g)))
         /\ Run(Batch(g)).ok => \A k \in 0 .. Len(Batch(g)) : After(Batch(g))[k].ok
  <1>1. PICK S : basket \in Seq(S) /\ \A s \in S : Item(s)
    BY DEF IInv
  <1>2. Batch(g) \in Seq(S)
    BY <1>1, PickedIs DEF Batch
  <1> DEFINE b == Batch(g)
  <1> HIDE DEF b
  <1>3. b \in Seq(S) /\ Len(b) \in 0 .. Len(b)
    BY <1>2 DEF b
  <1>4. /\ Result(After(b)[Len(b)])
        /\ After(b)[Len(b)].ok => \A k \in 0 .. Len(b) : After(b)[k].ok
    BY <1>1, <1>3, PageIs, BatchRuns
  <1>5. Result(Run(b)) /\ (Run(b).ok => \A k \in 0 .. Len(b) : After(b)[k].ok)
    BY <1>4 DEF Run
  <1> QED BY <1>1, <1>3, <1>5 DEF b

LEMMA ApplyKeeps == \A g : IInv /\ Apply(g) => IInv'
  <1> SUFFICES ASSUME NEW g, IInv, Apply(g) PROVE IInv'
    OBVIOUS
  <1>1. /\ UNCHANGED <<page, seen>> /\ form' \in {form, None}
        /\ catalog' \in {Undone(catalog, Run(Batch(g)).cat), Run(Batch(g)).cat}
        /\ basket' \in {basket, Picked(DOMAIN basket \ OfGroup(g))}
    BY DEF Apply
  <1>2. InOrder(Undone(catalog, Run(Batch(g)).cat)) /\ InOrder(Run(Batch(g)).cat)
    <2>1. InOrder(catalog) /\ InOrder(Run(Batch(g)).cat)
      BY PageIs, BatchIs DEF Result
    <2>2. CASE page = "server"
      <3> DEFINE u == Undone(catalog, Run(Batch(g)).cat)
      <3>1. u = Server!Undone(catalog, Run(Batch(g)).cat)
        BY <2>2 DEF Undone
      <3>2. u = [c \in Server!Cell |-> u[c]]
        BY <3>1 DEF Server!Undone
      <3> HIDE DEF u
      <3>3. InOrder(u)
        BY <2>2, <3>2 DEF InOrder, ForPage
      <3> QED BY <2>1, <3>3 DEF u
    <2>3. CASE page # "server"
      BY <2>1, <2>3 DEF Undone
    <2> QED BY <2>1, <2>2, <2>3
  <1>3. InOrder(catalog)'
    BY <1>1, <1>2 DEF InOrder, ForPage
  <1>4. \E S : basket' \in Seq(S) /\ \A s \in S : Item(s)'
    <2>1. PICK S : basket \in Seq(S) /\ \A s \in S : Item(s)
      BY DEF IInv
    <2> QED BY <1>1, <2>1, Kept, TakeItems
  <1> QED BY <1>1, <1>3, <1>4, Kept, Together

LEMMA DiscardKeeps == IInv /\ Discard => IInv'
  <1> SUFFICES ASSUME IInv, Discard PROVE IInv'
    OBVIOUS
  <1>1. PICK i \in DOMAIN basket : basket' = Picked(DOMAIN basket \ {i})
    BY DEF Discard
  <1>2. UNCHANGED <<page, catalog, seen, form>>
    BY DEF Discard
  <1>3. PICK S : basket \in Seq(S) /\ \A s \in S : Item(s)
    BY DEF IInv
  <1>4. \E T : basket' \in Seq(T) /\ \A s \in T : Item(s)'
    BY <1>1, <1>2, <1>3, TakeItems
  <1> QED BY <1>2, <1>4, Kept, Together

LEMMA OthersKeep == IInv /\ Others => IInv'
  <1> SUFFICES ASSUME IInv, Others PROVE IInv'
    OBVIOUS
  <1>1. PICK cat \in ByOthers : catalog' = cat
    BY DEF Others
  <1>2. UNCHANGED <<page, seen, form, basket>>
    BY DEF Others
  <1>3. InOrder(cat)
    BY PageIs, OthersInOrder
  <1>4. InOrder(catalog)'
    BY <1>1, <1>2, <1>3 DEF InOrder, ForPage
  <1> QED BY <1>2, <1>4, Kept, Together

LEMMA NextInv == IInv /\ [Next]_vars => IInv'
  <1> SUFFICES ASSUME IInv, [Next]_vars PROVE IInv'
    OBVIOUS
  <1>1. CASE UNCHANGED vars
    BY <1>1, Kept, Together DEF vars
  <1> QED BY <1>1, RefetchKeeps, OpenFormKeeps, EditKeeps, CloseFormKeeps, SaveKeeps, PressKeeps,
             ApplyKeeps, DiscardKeeps, OthersKeep DEF Next

(* Whatever the catalogs, the forms and the number of changes, the open    *)
(* form fits the page and every pending change is what its form promised.  *)
THEOREM Invariant == Spec => []IInv
  BY InitInv, NextInv, PTL DEF Spec

-----------------------------------------------------------------------------
(* The theorems                                                            *)

(* The cells of the privileges a draft changes are none exactly when those *)
(* privileges are.                                                         *)
LEMMA EditorCellsEmpty ==
  ASSUME NEW d, NEW ps
  PROVE  EditorCells(d, ps) = {} <=> ps = {}
  <1>1. ASSUME NEW p \in ps PROVE <<d.object, d.grantee, p>> \in EditorCells(d, ps)
    BY DEF EditorCells
  <1>2. ps = {} => EditorCells(d, ps) = {}
    BY DEF EditorCells
  <1> QED BY <1>1, <1>2

(* The grant editor and the role form send nothing exactly when the user   *)
(* changed nothing, or only a limit to what is no integer: but for that,   *)
(* what submit() compares is all that can be edited.                       *)
THEOREM FormsSendWhatIsTouched == Spec => []SendsWhatIsTouched
  <1>1. IInv => SendsWhatIsTouched
    <2> DEFINE f == form.from
               d == form.draft
    <2> SUFFICES ASSUME IInv, form # None, CanSave(d), Direct(f, d), d.editor \in {"GrantEditor", "RoleForm"}
                 PROVE  Touched(f, d) \ Ignored(d) = {} <=> Sends(f, d) = <<>>
      BY DEF SendsWhatIsTouched
    <2>0. OnAPage /\ InOrder(f) /\ Fits(f, d)
      BY PageIs DEF IInv, FormInv
    <2> HIDE DEF f, d
    <2>1. CASE page = "grants"
      <3>1. /\ f \in Grants!Catalog /\ Grants!CanSave(d) /\ Grants!Direct(f, d)
            /\ d \in EditorDraft \cup ListDraft
        BY <2>0, <2>1 DEF InOrder, CanSave, Direct, Fits, ForPage
      <3>2. d \in EditorDraft /\ d.editor = "GrantEditor" /\ d.grantee # None
        BY <3>1 DEF EditorDraft, ListDraft, Grants!CanSave
      <3>3. Sends(f, d) = Grants!EditorOps(f, d, Grants!Kept(f, d))
        BY <2>1, <3>2 DEF Sends, Grants!Sends, ForPage
      <3> DEFINE ps == Gains(f, d) \cup Narrows(f, d) \cup Loses(f, d)
      <3>4. Touched(f, d) = EditorCells(d, ps)
        BY <2>1, <3>1, <3>2, EditorTouched
      <3>5. Grants!EditorOps(f, d, Grants!Kept(f, d)) = <<>> <=>
              Gains(f, d) = {} /\ Narrows(f, d) = {} /\ Loses(f, d) = {}
        BY EditorSends
      <3>6. ps = {} <=> Gains(f, d) = {} /\ Narrows(f, d) = {} /\ Loses(f, d) = {}
        OBVIOUS
      <3>7. Ignored(d) = {}
        BY <2>1 DEF Ignored
      <3> HIDE DEF ps
      <3> QED BY <3>3, <3>4, <3>5, <3>6, <3>7, EditorCellsEmpty
    <2>2. CASE page = "roles"
      <3>1. RolesDraft(d) /\ Roles!CanSave(d) /\ Sends(f, d) = Roles!Sends(f, d)
        BY <2>0, <2>2 DEF Fits, CanSave, Sends, ForPage
      <3>2. d.editor = "RoleForm"
        <4>1. d \in MemberDraft => d.editor = "AddMembership"
          BY DEF MemberDraft
        <4>2. d \notin MemberDraft => d.editor # "GrantEditor"
          BY <3>1 DEF RolesDraft
        <4> QED BY <4>1, <4>2
      <3>3. CASE d.role # None
        <4>1. Touched(f, d) \ Ignored(d) = DOMAIN Roles!Attrs(f, d, d.role)
          BY <2>2, <3>2, <3>3, RoleTouched DEF Ignored
        <4>2. Sends(f, d) = IF DOMAIN Roles!Attrs(f, d, d.role) = {} THEN <<>>
                            ELSE <<Roles!AlterRole(d.role, Roles!Attrs(f, d, d.role))>>
          BY <3>1, <3>2, <3>3 DEF Roles!Sends
        <4> QED BY <4>1, <4>2
      <3>4. CASE d.role = None
        <4>1. d.name # None
          BY <3>1, <3>2, <3>4 DEF Roles!CanSave
        <4>2. <<"role", d.name>> \in Touched(f, d) \ Ignored(d)
          <5>1. <<"role", d.name>> \in Touched(f, d)
            BY <2>2, <3>2, <3>4, <4>1, NewRoleTouched
          <5>2. \A r, x : <<"attr", r, x>>[1] = "attr" /\ <<"role", r>>[1] = "role"
            OBVIOUS
          <5>3. <<"role", d.name>> \notin Roles!Ignored(d)
            BY <5>2 DEF Roles!Ignored
          <5> QED BY <2>2, <5>1, <5>3 DEF Ignored
        <4>3. Sends(f, d) = <<Roles!CreateRole(d.name, Roles!Attrs(f, d, d.name), d.member_of)>>
          BY <3>1, <3>2, <3>4 DEF Roles!Sends
        <4> QED BY <4>2, <4>3
      <3> QED BY <3>3, <3>4
    <2>3. CASE page = "server"
      BY <2>0, <2>3 DEF Fits, ServerDraft, ForPage
    <2>4. CASE page = "admin"
      BY <2>0, <2>4 DEF Fits, AdminDraft, ForPage
    <2>5. Touched(f, d) \ Ignored(d) = {} <=> Sends(f, d) = <<>>
      BY <2>0, <2>1, <2>2, <2>3, <2>4 DEF OnAPage
    <2> QED BY <2>5
  <1> QED BY <1>1, Invariant, PTL

(* However stale its rows, applying a batch of direct changes alters only  *)
(* cells that one of them asked for or that go along with one.             *)
THEOREM UntouchedIsKept == Spec => UntouchedKept
  <1>1. IInv /\ [Next]_vars =>
          [\A g \in {"db", "any"} :
             Apply(g) /\ (\A i \in DOMAIN Batch(g) : Batch(g)[i].direct) =>
                 \A c \in DOMAIN catalog :
                     catalog'[c] # catalog[c] =>
                         \E i \in DOMAIN Batch(g) :
                             c \in DOMAIN Batch(g)[i].asks \cup Reached(Batch(g), i)]_vars
    <2> SUFFICES ASSUME IInv, NEW g \in {"db", "any"}, Apply(g), \A i \in DOMAIN Batch(g) : Batch(g)[i].direct,
                        NEW c \in DOMAIN catalog,
                        \A i \in DOMAIN Batch(g) : c \notin DOMAIN Batch(g)[i].asks \cup Reached(Batch(g), i)
                 PROVE  catalog'[c] = catalog[c]
      OBVIOUS
    <2> DEFINE b == Batch(g)
    <2>1. OnAPage /\ InOrder(catalog) /\ c \in Cells
      BY PageIs, CellsOf
    <2>2. PICK S : b \in Seq(S) /\ \A s \in S : Item(s)
      BY BatchIs
    <2>3. catalog'[c] \in {catalog[c], Run(b).cat[c]}
      <3>1. catalog' \in {Undone(catalog, Run(b).cat), Run(b).cat}
        BY DEF Apply
      <3>2. Undone(catalog, Run(b).cat)[c] \in {catalog[c], Run(b).cat[c]}
        <4>1. CASE page = "server"
          BY <2>1, <4>1 DEF Cells, ForPage, Undone, Server!Undone
        <4>2. CASE page # "server"
          BY <4>2 DEF Undone
        <4> QED BY <4>1, <4>2
      <3> QED BY <3>1, <3>2
    <2>4. \A i \in DOMAIN b : b[i].direct /\ c \notin DOMAIN b[i].asks \cup Reached(b, i)
      OBVIOUS
    <2> HIDE DEF b
    <2>5. Len(b) \in Nat /\ DOMAIN b = 0 + 1 .. Len(b) /\ 0 <= Len(b) /\ 0 \in 0 .. Len(b)
      BY <2>2
    <2>6. After(b)[Len(b)].cat[c] = After(b)[0].cat[c]
      BY <2>1, <2>2, <2>4, <2>5, StaysPut
    <2>7. After(b)[0].cat = catalog
      BY <2>5, AfterIs DEF First
    <2> QED BY <2>3, <2>6, <2>7 DEF Run
  <1> QED BY <1>1, Invariant, PTL DEF Spec, UntouchedKept

(* What the page shows of a cell depends on that cell alone.               *)
LEMMA ReadsCell ==
  ASSUME NEW cat, NEW new, NEW c, new[c] = cat[c]
  PROVE  Reads(new, c) = Reads(cat, c)
  BY DEF Reads, Grants!Reads

(* A change that was applied is on the page, unless the cell was changed   *)
(* by others, by another pending change, or granted by another role, or    *)
(* it is a limit that is no integer.                                       *)
THEOREM SavedChangeIsApplied == Spec => SavedIsApplied
  <1>1. IInv /\ [Next]_vars =>
          [\A g \in {"db", "any"} :
             Apply(g) /\ Run(Batch(g)).ok =>
                 \A i \in DOMAIN Batch(g), c \in DOMAIN catalog :
                     LET s == Batch(g)[i]
                     IN  /\ s.alone
                         /\ c \in DOMAIN s.asks \ s.ignored
                         /\ catalog[c] = s.was[c] /\ Sole(catalog[c])
                         /\ \A j \in DOMAIN Batch(g) : Batch(g)[j].direct
                         /\ \A j \in DOMAIN Batch(g) \ {i} :
                             c \notin DOMAIN Batch(g)[j].asks \cup Reached(Batch(g), j)
                         => Reads(catalog', c) \in s.asks[c]]_vars
    <2> SUFFICES ASSUME IInv, NEW g \in {"db", "any"}, Apply(g), Run(Batch(g)).ok,
                        NEW i \in DOMAIN Batch(g), NEW c \in DOMAIN catalog,
                        Batch(g)[i].alone, c \in DOMAIN Batch(g)[i].asks \ Batch(g)[i].ignored,
                        catalog[c] = Batch(g)[i].was[c], Sole(catalog[c]),
                        \A j \in DOMAIN Batch(g) : Batch(g)[j].direct,
                        \A j \in DOMAIN Batch(g) \ {i} :
                            c \notin DOMAIN Batch(g)[j].asks \cup Reached(Batch(g), j)
                 PROVE  Reads(catalog', c) \in Batch(g)[i].asks[c]
      OBVIOUS
    <2> DEFINE b == Batch(g)
               s == b[i]
               before == After(b)[i - 1]
               after == After(b)[i]
    <2>1. OnAPage /\ InOrder(catalog) /\ c \in Cells
      BY PageIs, CellsOf
    <2>2. PICK S : b \in Seq(S) /\ \A x \in S : Item(x)
      BY BatchIs
    <2>3. catalog' = After(b)[Len(b)].cat
      BY DEF Apply, Run
    <2>4. \A j \in DOMAIN b \ {i} : b[j].direct /\ c \notin DOMAIN b[j].asks \cup Reached(b, j)
      OBVIOUS
    <2>5. \A k \in 0 .. Len(b) : After(b)[k].ok
      BY BatchIs
    <2>6. s.alone /\ s.direct /\ c \in DOMAIN s.asks \ s.ignored /\ catalog[c] = s.was[c] /\ Sole(catalog[c])
      OBVIOUS
    <2>7. i \in DOMAIN b
      OBVIOUS
    <2> HIDE DEF b
    <2>8. Len(b) \in Nat /\ DOMAIN b = 1 .. Len(b) /\ i \in 1 .. Len(b) /\ i - 1 \in 0 .. Len(b)
          /\ i \in 0 .. Len(b) /\ 0 \in 0 .. Len(b) /\ Len(b) \in 0 .. Len(b) /\ i - 1 \in Nat /\ i \in Nat
      BY <2>2, <2>7
    <2>9. before.cat[c] = catalog[c]
      <3> DEFINE m == i - 1
      <3>0. \A j \in 0 + 1 .. m : j \in DOMAIN b \ {i}
        BY <2>8
      <3>1. /\ m \in Nat /\ 0 \in Nat /\ 0 <= m /\ m <= Len(b)
            /\ \A j \in 0 + 1 .. m : b[j].direct /\ c \notin DOMAIN b[j].asks \cup Reached(b, j)
        BY <2>4, <2>8, <3>0
      <3> HIDE DEF m
      <3>2. After(b)[m].cat[c] = After(b)[0].cat[c]
        BY <2>1, <2>2, <3>1, StaysPut
      <3>3. After(b)[0].cat = catalog
        BY <2>8, AfterIs DEF First
      <3> QED BY <3>2, <3>3 DEF m
    <2>10. Reads(after.cat, c) \in s.asks[c]
      <3>1. after = Step(before, s.op) /\ after.ok /\ Result(before) /\ Item(s)
        BY <2>1, <2>2, <2>5, <2>8, AfterIs, BatchRuns
      <3> HIDE DEF after, before, s
      <3>2. ~Refused(before.cat, s.op) /\ after.cat = Effect(before.cat, s.op)
        BY <2>1, <3>1, Steps, Zenon
      <3>3. ItemOn(s, before.cat)
        BY <2>1, <3>1, <3>2, ItemsKeep DEF Result
      <3>4. before.cat[c] = s.was[c] /\ Sole(before.cat[c]) /\ c \in (Cells \cap DOMAIN s.asks) \ s.ignored
        BY <2>1, <2>6, <2>9
      <3> QED BY <2>6, <3>2, <3>3, <3>4 DEF ItemOn
    <2>11. catalog'[c] = after.cat[c]
      <3> DEFINE n == Len(b)
      <3>0. \A j \in i + 1 .. n : j \in DOMAIN b \ {i}
        BY <2>8
      <3>1. /\ n \in Nat /\ i <= n /\ n <= Len(b)
            /\ \A j \in i + 1 .. n : b[j].direct /\ c \notin DOMAIN b[j].asks \cup Reached(b, j)
        BY <2>4, <2>8, <3>0
      <3> HIDE DEF n
      <3>2. After(b)[n].cat[c] = After(b)[i].cat[c]
        <4>1. i \in Nat /\ \A x \in S : Item(x)
          BY <2>2, <2>8
        <4> HIDE DEF s, before, after
        <4> QED BY <2>1, <2>2, <3>1, <4>1, StaysPut, SMTT(60)
      <3> QED BY <2>3, <3>2 DEF n
    <2>12. Reads(catalog', c) \in s.asks[c]
      BY <2>10, <2>11, ReadsCell
    <2> QED BY <2>12 DEF b
  <1> QED BY <1>1, Invariant, PTL DEF Spec, SavedIsApplied

=============================================================================

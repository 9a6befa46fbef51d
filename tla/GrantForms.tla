----------------------------- MODULE GrantForms -----------------------------
(***************************************************************************)
(* The forms that grant and revoke (Permissions.tsx, Grants.tsx), as the   *)
(* operators Pages uses: what a form opens with, what its handlers do to   *)
(* the draft, what it asks for and which operations it sends; and what the *)
(* server makes of those operations (pg/changes.py).                       *)
(*                                                                         *)
(* A cell <<o, g, p>> is privilege p of role g on object o; its value says *)
(* what each grantor gave.  The operations carry no GRANTED BY: PostgreSQL *)
(* runs them as the owner.  A cell <<"default", s, g, p>> is an entry of   *)
(* the default privileges, where only the creator of the objects grants.   *)
(***************************************************************************)
EXTENDS FiniteSets, Naturals, Sequences

CONSTANTS
    Object, Grantee, Privilege,
    Owner,        \* of every object.  A bound: GranteeSelect.tsx offers it as it
                  \* offers every role, here it is never the grantee
    Maintain,     \* the privilege servers before 17 do not have
    None

Grantor == Grantee \cup {Owner}
Level == {"none", "plain", "option"}

ObjectCell == Object \X Grantee \X Privilege
DefaultCell == {"default"} \X {"any", "schema"} \X Grantee \X Privilege
Cell == ObjectCell \cup DefaultCell

Rows(v) == {r \in Grantor : v[r] # "none"}
Best(v) == IF \E r \in Grantor : v[r] = "option" THEN "option"
           ELSE IF Rows(v) # {} THEN "plain" ELSE "none"
Reads(cat, c) == Best(cat[c])

-----------------------------------------------------------------------------
(* The server                                                              *)

(* A grant whose grantor lost the grant option                             *)
Orphan(cat, c, r) ==
    /\ c \in ObjectCell /\ r \in Grantee
    /\ cat[c][r] # "none"
    /\ Best(cat[<<c[1], r, c[3]>>]) # "option"

(* Only owners give grant options here, and no grant has lost its own      *)
Catalog ==
    {cat \in [Cell -> [Grantor -> Level]] :
        \A c \in Cell, r \in Grantee : cat[c][r] # "option" /\ ~Orphan(cat, c, r)}

Given(level, op) ==
    CASE op.op \in {"grant", "default_grant"} ->
            IF op.option \/ level = "option" THEN "option" ELSE "plain"
      [] op.op = "revoke" /\ op.only -> IF level = "option" THEN "plain" ELSE level
      [] OTHER -> "none"

Written(cat, op) ==
    [c \in Cell |-> IF c \in op.cells THEN [cat[c] EXCEPT ![Owner] = Given(@, op)] ELSE cat[c]]

(* RESTRICT, unless CASCADE was ticked                                     *)
Refused(cat, op) ==
    /\ op.op = "revoke" /\ ~op.cascade
    /\ \E c \in ObjectCell, r \in Grantee : Orphan(Written(cat, op), c, r)

Effect(cat, op) ==
    LET new == Written(cat, op)
    IN  [c \in Cell |-> [r \in Grantor |-> IF Orphan(new, c, r) THEN "none" ELSE new[c][r]]]

(* CASCADE takes away what the grantee gave to others                      *)
Reach(cat, op) ==
    IF op.op = "revoke" /\ op.cascade
    THEN {c \in ObjectCell : \E d \in op.cells : c[1] = d[1] /\ c[3] = d[3]} ELSE {}

(* The database an operation is for: databases are granted on in any       *)
Group(op) == "db"

Grant(cells, option) == [op |-> "grant", cells |-> cells, option |-> option]
Revoke(cells, only, cascade) ==
    [op |-> "revoke", cells |-> cells, only |-> only, cascade |-> cascade]

(* What others do meanwhile: the owner, and a role with the grant option   *)
Commands ==
    {Grant({c}, b) : c \in ObjectCell, b \in BOOLEAN}
    \cup {Revoke({c}, b, TRUE) : c \in ObjectCell, b \in BOOLEAN}

Regrants(cat) ==
    {x \in ObjectCell \X Grantee :
        x[2] # x[1][2] /\ Best(cat[<<x[1][1], x[2], x[1][3]>>]) = "option"}

Foreign(cat) ==
    {Effect(cat, op) : op \in Commands}
    \cup {[cat EXCEPT ![x[1]][x[2]] = "plain"] : x \in Regrants(cat)}

-----------------------------------------------------------------------------
(* The forms.  A draft is what the modal holds: the row it was opened on,  *)
(* and its fields.                                                         *)

(* privilegesFor: the version may not be known yet                         *)
PrivilegesFor == {Privilege, Privilege \ {Maintain}}

Fields(editor, o, listed, last) ==
    [editor |-> editor, object |-> o, grantee |-> None, selected |-> {}, option |-> FALSE,
     cascade |-> FALSE, mode |-> "grant", scope |-> "any", listed |-> listed, last |-> last]

(* `last`: of the rows of one grantee and privilege, which the query lists *)
(* in no order, the one that ends up in the map                            *)
Lasts(seen, o) ==
    {Owner} \cup UNION {Rows(seen[c]) : c \in {x \in ObjectCell : x[1] = o /\ Cardinality(Rows(seen[x])) > 1}}

OpensEditor(seen, o) == {Fields("GrantEditor", o, l, r) : l \in PrivilegesFor, r \in Lasts(seen, o)}
OpensEditors(seen) == UNION {OpensEditor(seen, o) : o \in Object}
OpensLists == {Fields(e, None, Privilege, Owner) : e \in {"Bulk", "DefaultPrivilegesEditor"}}

Opens(seen) == OpensEditors(seen) \cup OpensLists

ValueOf(from, d, p) == from[<<d.object, d.grantee, p>>]

(* existing: the level the editor shows of privilege p                     *)
Existing(from, d, p) ==
    LET v == ValueOf(from, d, p)
    IN  IF d.grantee = None \/ Rows(v) = {} THEN "none"
        ELSE IF v[d.last] # "none" THEN v[d.last]
        ELSE v[CHOOSE r \in Rows(v) : TRUE]

Held(from, d) == {p \in Privilege : Existing(from, d, p) # "none"}
AllGrantable(from, d) ==
    Held(from, d) # {} /\ \A p \in Held(from, d) : Existing(from, d, p) = "option"

(* pickGrantee: the ticks become what the grantee has on the object        *)
PickGrantee(from, d, g) ==
    LET e == [d EXCEPT !.grantee = g]
        rows == {x \in Privilege \X Grantor : ValueOf(from, e, x[1])[x[2]] # "none"}
    IN  IF d.editor # "GrantEditor" THEN e
        ELSE [e EXCEPT !.selected = {x[1] : x \in rows},
                       !.option = rows # {} /\ \A x \in rows : ValueOf(from, e, x[1])[x[2]] = "option"]

Toggle(s, x) == IF x \in s THEN s \ {x} ELSE s \cup {x}

(* One change handler of the modal, on one object or on all of a schema    *)
EditorEdits(from, d) ==
    {PickGrantee(from, d, g) : g \in Grantee}
    \cup {[d EXCEPT !.selected = Toggle(@, p)] : p \in d.listed}
    \cup {e \in {[d EXCEPT !.option = ~@]} : d.mode = "grant"}
    \cup {e \in {[d EXCEPT !.cascade = ~@]} : d.editor = "GrantEditor" \/ d.mode = "revoke"}
    \cup (IF d.editor = "Bulk" THEN {[d EXCEPT !.mode = m] : m \in {"grant", "revoke"}} ELSE {})

DefaultEdits(d) ==
    {[d EXCEPT !.grantee = g] : g \in Grantee}
    \cup {[d EXCEPT !.selected = Toggle(@, p)] : p \in d.listed}
    \cup {e \in {[d EXCEPT !.option = ~@]} : d.mode = "grant"}
    \cup {[d EXCEPT !.mode = m] : m \in {"grant", "revoke"}}
    \cup {[d EXCEPT !.scope = s] : s \in {"any", "schema"}}

Edits(from, d) == IF d.editor = "DefaultPrivilegesEditor" THEN DefaultEdits(d) ELSE EditorEdits(from, d)

(* The draft before the user changed anything but the grantee              *)
Loaded(from, d) ==
    IF d.editor = "GrantEditor" /\ d.grantee # None THEN PickGrantee(from, d, d.grantee)
    ELSE [d EXCEPT !.selected = {}]

CanSave(d) == d.grantee # None /\ (d.editor # "GrantEditor" => d.selected # {})

(* What the form asks for: the levels it accepts for a cell.  "A toggled   *)
(* grant option also applies to the privileges the role keeps."            *)
Asked(from, d, p) ==
    IF p \notin d.selected THEN "none"
    ELSE IF Existing(from, d, p) = "none" \/ d.option # Loaded(from, d).option
         THEN IF d.option THEN "option" ELSE "plain"
    ELSE Existing(from, d, p)

BulkCells(d) ==
    IF d.editor = "Bulk" THEN Object \X {d.grantee} \X d.selected
    ELSE {"default"} \X {d.scope} \X {d.grantee} \X d.selected

Asks(from, d) ==
    IF d.grantee = None THEN <<>>
    ELSE IF d.editor = "GrantEditor"
    THEN [c \in {d.object} \X {d.grantee} \X d.listed |-> {Asked(from, d, c[3])}]
    ELSE [c \in BulkCells(d) |->
            IF d.mode = "revoke" THEN {"none"}
            ELSE IF d.option THEN {"option"} ELSE {"plain", "option"}]

-----------------------------------------------------------------------------
(* submit.  `kept` are the privileges a toggled grant option reaches.      *)
EditorOps(from, d, kept) ==
    LET cells(ps) == {d.object} \X {d.grantee} \X ps
        level(p) == Existing(from, d, p)
        added == {p \in d.listed \cap d.selected : level(p) = "none"}
        removed == {p \in d.listed \ d.selected : level(p) # "none"}
        upgrade == {p \in kept : d.option /\ level(p) = "plain"}
        downgrade == {p \in kept : ~d.option /\ level(p) = "option"}
        when(ps, op) == IF ps # {} THEN <<op>> ELSE <<>>
    IN  when(added \cup upgrade, Grant(cells(added \cup upgrade), d.option))
        \o when(downgrade, Revoke(cells(downgrade), TRUE, d.cascade))
        \o when(removed, Revoke(cells(removed), FALSE, d.cascade))

(* Mutant: whether the option was toggled is not asked                     *)
Kept_Always(from, d) == {p \in d.listed \cap d.selected : Existing(from, d, p) # "none"}

Kept(from, d) ==
    IF d.option # AllGrantable(from, d)
    THEN {p \in d.listed \cap d.selected : Existing(from, d, p) # "none"} ELSE {}

BulkOps(d) ==
    IF d.mode = "grant" THEN <<Grant(BulkCells(d), d.option)>>
    ELSE <<Revoke(BulkCells(d), FALSE, d.cascade)>>

DefaultOps(d) ==
    <<[op |-> IF d.mode = "grant" THEN "default_grant" ELSE "default_revoke",
       cells |-> BulkCells(d), option |-> d.option]>>

Sends(from, d) ==
    CASE d.editor = "GrantEditor" -> EditorOps(from, d, Kept(from, d))
      [] d.editor = "Bulk" -> BulkOps(d)
      [] OTHER -> DefaultOps(d)

(* Only the owner granted what the editor shows                            *)
Sole(v) == Rows(v) \subseteq {Owner}
Direct(from, d) ==
    d.editor = "GrantEditor" /\ d.grantee # None => \A p \in Privilege : Sole(ValueOf(from, d, p))

(* Grants: a row's Revoke takes one privilege from its grantee             *)
Buttons(seen) ==
    {[op |-> Revoke({c}, FALSE, FALSE), asks |-> [x \in {c} |-> {"none"}],
      direct |-> Rows(seen[c]) = {Owner}] : c \in {x \in ObjectCell : Rows(seen[x]) # {}}}

=============================================================================

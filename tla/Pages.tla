-------------------------------- MODULE Pages -------------------------------
(***************************************************************************)
(* What every page with a form does: a query's rows are shown, a form is   *)
(* opened on them and keeps them, its handlers change the draft, saving    *)
(* turns the difference into operations for the basket, and those are      *)
(* applied to a catalog that others have changed meanwhile.                *)
(*                                                                         *)
(* The pages come in four families, one module each; a behaviour stays     *)
(* with one of them.  The catalog is a function from cells to values.      *)
(***************************************************************************)
EXTENDS FiniteSets, Naturals, Sequences

CONSTANTS
    Object, Grantee, Role, Privilege, Owner, Maintain, Profile, User, Me, None,
    Start,        \* the catalogs each family starts from
    MaxForeign,   \* for each family, most changes by others
    MaxSaves      \* and most forms saved and buttons pressed


VARIABLES
    page,      \* the family
    catalog,   \* the server
    seen,      \* the rows the page shows
    form,      \* the open form, [from, draft], or None
    basket,    \* operations not yet applied, with what was asked for
    foreign,   \* how many changes others made
    saves

vars == <<page, catalog, seen, form, basket, foreign, saves>>

Grants == INSTANCE GrantForms
Roles == INSTANCE RoleForms
Server == INSTANCE ServerForms
Admin == INSTANCE AdminForms

(* Every catalog is a function on the cells of its family, and PostgreSQL  *)
(* keeps the grants in order from the start                                *)
ASSUME PagesConstants ==
    /\ DOMAIN Start = {"grants", "roles", "server", "admin"}
    /\ MaxForeign \in [DOMAIN Start -> Nat]
    /\ MaxSaves \in [DOMAIN Start -> Nat]
    /\ Owner \notin Grantee
    /\ Start["grants"] \subseteq Grants!Catalog
    /\ \A cat \in Start["roles"] : Roles!InOrder(cat)
    /\ \A cat \in Start["server"] : cat = [c \in Server!Cell |-> cat[c]]
    /\ \A cat \in Start["admin"] : cat = [c \in Admin!Cell |-> cat[c]]

ForPage(g, r, s, a) ==
    CASE page = "grants" -> g [] page = "roles" -> r [] page = "server" -> s [] OTHER -> a

Opens == ForPage(Grants!Opens(seen), Roles!Opens(seen), Server!Opens(seen), Admin!Opens(seen))
Buttons == ForPage(Grants!Buttons(seen), Roles!Buttons(seen), Server!Buttons(seen), Admin!Buttons(seen))
ByOthers == ForPage(Grants!Foreign(catalog), Roles!Foreign(catalog),
                    Server!Foreign(catalog), Admin!Foreign(catalog))

Edits(f, d) == ForPage(Grants!Edits(f, d), Roles!Edits(f, d), Server!Edits(f, d), Admin!Edits(f, d))
Loaded(f, d) == ForPage(Grants!Loaded(f, d), Roles!Loaded(f, d), Server!Loaded(f, d), Admin!Loaded(f, d))
Asks(f, d) == ForPage(Grants!Asks(f, d), Roles!Asks(f, d), Server!Asks(f, d), Admin!Asks(f, d))
Sends(f, d) == ForPage(Grants!Sends(f, d), Roles!Sends(f, d), Server!Sends(f, d), Admin!Sends(f, d))
Direct(f, d) == ForPage(Grants!Direct(f, d), Roles!Direct(f, d), Server!Direct(f, d), Admin!Direct(f, d))
CanSave(d) == ForPage(Grants!CanSave(d), Roles!CanSave(d), Server!CanSave(d), Admin!CanSave(d))

Refused(cat, o) ==
    ForPage(Grants!Refused(cat, o), Roles!Refused(cat, o), Server!Refused(cat, o), Admin!Refused(cat, o))
Effect(cat, o) == ForPage(Grants!Effect(cat, o), Roles!Effect(cat, o), Server!Effect(cat, o), Admin!Effect(cat, o))
Reach(cat, o) == ForPage(Grants!Reach(cat, o), Roles!Reach(cat, o), Server!Reach(cat, o), Admin!Reach(cat, o))
Group(o) == ForPage(Grants!Group(o), Roles!Group(o), Server!Group(o), Admin!Group(o))
Reads(cat, c) == IF page = "grants" THEN Grants!Reads(cat, c) ELSE cat[c]
Sole(v) == page = "grants" => Grants!Sole(v)
Transactional(o) == page = "server" => Server!Transactional(o)
Undone(old, new) == IF page = "server" THEN Server!Undone(old, new) ELSE old
Ignored(d) == IF page = "roles" THEN Roles!Ignored(d) ELSE {}

(* Forms that are saved at once and stay open until the answer             *)
Immediate == page = "admin"

Init ==
    /\ page \in DOMAIN Start
    /\ catalog \in Start[page]
    /\ seen = catalog
    /\ form = None
    /\ basket = <<>>
    /\ foreign = 0
    /\ saves = 0

-----------------------------------------------------------------------------
(* The cells the user changed in the form, and what was asked for them     *)
Touched(f, d) ==
    LET now == Asks(f, d)  first == Asks(f, Loaded(f, d))
    IN  {c \in DOMAIN now : c \notin DOMAIN first \/ first[c] # now[c]}

Saved(op, asks, from, alone, direct, ignored) ==
    [op |-> op, asks |-> asks, was |-> [c \in DOMAIN asks |-> from[c]],
     alone |-> alone, direct |-> direct, ignored |-> ignored]

(* An open form reads neither the catalog nor the rows: what happens to    *)
(* them while it is edited is taken to happen before or after              *)
Idle == form = None \/ basket # <<>>

Refetch ==
    /\ Idle
    /\ seen # catalog
    /\ seen' = catalog
    /\ UNCHANGED <<page, catalog, form, basket, foreign, saves>>

OpenForm ==
    /\ form = None
    /\ saves < MaxSaves[page]
    /\ \E d \in Opens : form' = [from |-> seen, draft |-> d]
    /\ UNCHANGED <<page, catalog, seen, basket, foreign, saves>>

Edit ==
    /\ form # None
    /\ \E d \in Edits(form.from, form.draft) : form' = [form EXCEPT !.draft = d]
    /\ UNCHANGED <<page, catalog, seen, basket, foreign, saves>>

CloseForm ==
    /\ form # None
    /\ form' = None
    /\ UNCHANGED <<page, catalog, seen, basket, foreign, saves>>

(* submit.  Without a difference nothing is added, and the grant editor    *)
(* says so and stays.  Each `add` of a handler appends to the items of     *)
(* that render, so that only its last operation is kept.                   *)
Save ==
    /\ form # None
    /\ saves < MaxSaves[page]
    /\ Immediate => basket = <<>>
    /\ CanSave(form.draft)
    /\ LET f == form.from  d == form.draft  ops == Sends(f, d)
           asks == [c \in Touched(f, d) |-> Asks(f, d)[c]]
       IN  IF ops = <<>>
           THEN /\ form' = IF d.editor = "GrantEditor" THEN form ELSE None
                /\ UNCHANGED <<basket, saves>>
           ELSE /\ basket' = Append(basket, Saved(ops[Len(ops)], asks, f, Len(ops) = 1, Direct(f, d), Ignored(d)))
                /\ form' = IF Immediate THEN form ELSE None
                /\ saves' = saves + 1
    /\ UNCHANGED <<page, catalog, seen, foreign>>

Press ==
    /\ form = None
    /\ saves < MaxSaves[page]
    /\ Immediate => basket = <<>>
    /\ \E b \in Buttons : basket' = Append(basket, Saved(b.op, b.asks, seen, TRUE, b.direct, {}))
    /\ saves' = saves + 1
    /\ UNCHANGED <<page, catalog, seen, form, foreign>>

-----------------------------------------------------------------------------
(* The items of the basket at the positions in I, in their order           *)
Picked(I) ==
    LET upTo[i \in 0 .. Len(basket)] ==
            IF i = 0 THEN <<>>
            ELSE IF i \in I THEN Append(upTo[i - 1], basket[i]) ELSE upTo[i - 1]
    IN  upTo[Len(basket)]

OfGroup(g) == {i \in DOMAIN basket : Group(basket[i].op) = g}
Batch(g) == Picked(OfGroup(g))

(* The operations of a batch in their order, up to the first refused one:  *)
(* the catalog after each of them, and whether none was refused            *)
Step(r, op) ==
    IF r.ok /\ ~Refused(r.cat, op) THEN [r EXCEPT !.cat = Effect(r.cat, op)]
    ELSE [r EXCEPT !.ok = FALSE]

After(batch) ==
    LET step[i \in 0 .. Len(batch)] ==
            IF i = 0 THEN [cat |-> catalog, ok |-> TRUE]
            ELSE Step(step[i - 1], batch[i].op)
    IN  step

Run(batch) == After(batch)[Len(batch)]

(* What goes along with the i-th operation, given the ones before it       *)
Reached(batch, i) == Reach(After(batch)[i - 1].cat, batch[i].op)

(* A batch in which everything is transactional is rolled back when it     *)
(* fails; a failed one stays pending, and a refused direct save shows its  *)
(* error                                                                   *)
Apply(g) ==
    /\ Batch(g) # <<>>
    /\ Immediate \/ form = None
    /\ LET r == Run(Batch(g))
           atomic == \A i \in DOMAIN Batch(g) : Transactional(Batch(g)[i].op)
       IN  /\ catalog' = IF r.ok \/ ~atomic THEN r.cat ELSE Undone(catalog, r.cat)
           /\ basket' = IF r.ok \/ Immediate THEN Picked(DOMAIN basket \ OfGroup(g)) ELSE basket
           /\ form' = IF r.ok THEN None ELSE form
    /\ UNCHANGED <<page, seen, foreign, saves>>

Discard ==
    /\ ~Immediate
    /\ form = None
    /\ \E i \in DOMAIN basket : basket' = Picked(DOMAIN basket \ {i})
    /\ UNCHANGED <<page, catalog, seen, form, foreign, saves>>

Others ==
    /\ Idle
    /\ foreign < MaxForeign[page]
    /\ \E cat \in ByOthers : catalog' = cat /\ cat # catalog
    /\ foreign' = foreign + 1
    /\ UNCHANGED <<page, seen, form, basket, saves>>

Next ==
    \/ Refetch \/ OpenForm \/ Edit \/ CloseForm \/ Save \/ Press
    \/ \E g \in {"db", "any"} : Apply(g)
    \/ Discard \/ Others

Spec == Init /\ [][Next]_vars

-----------------------------------------------------------------------------
(* However stale its rows, what is applied changes only what the user      *)
(* changed in the form, pressed, or was told goes with it (CASCADE, what   *)
(* hangs on a dropped role; an instance is saved whole).                   *)
UntouchedKept ==
    [][\A g \in {"db", "any"} :
        Apply(g) /\ (\A i \in DOMAIN Batch(g) : Batch(g)[i].direct) =>
            \A c \in DOMAIN catalog :
                catalog'[c] # catalog[c] =>
                    \E i \in DOMAIN Batch(g) :
                        c \in DOMAIN Batch(g)[i].asks \cup Reached(Batch(g), i)]_vars

(* What was asked for is what the page shows after a successful apply,     *)
(* unless somebody else changed that cell since the form was opened,       *)
(* another pending change reaches it, a role other than the owner granted  *)
(* it, the handler had several operations to add, or it was a connection   *)
(* limit that is no integer (RoleAttributes.tsx:138 leaves that out while  *)
(* it sends the rest).                                                     *)
SavedIsApplied ==
    [][\A g \in {"db", "any"} :
        Apply(g) /\ Run(Batch(g)).ok =>
            \A i \in DOMAIN Batch(g), c \in DOMAIN catalog :
                LET s == Batch(g)[i]
                IN  /\ s.alone
                    /\ c \in DOMAIN s.asks \ s.ignored
                    /\ catalog[c] = s.was[c] /\ Sole(catalog[c])
                    /\ \A j \in DOMAIN Batch(g) : Batch(g)[j].direct
                    /\ \A j \in DOMAIN Batch(g) \ {i} :
                        c \notin DOMAIN Batch(g)[j].asks \cup Reached(Batch(g), j)
                    => Reads(catalog', c) \in s.asks[c]]_vars

(* A form that sends differences sends something exactly when the user     *)
(* changed something: no change is dropped, none is made up.  One change   *)
(* is: a connection limit that is no integer (RoleAttributes.tsx:138), and *)
(* when it is the only one the form closes as if nothing was changed.      *)
SendsWhatIsTouched ==
    form # None /\ CanSave(form.draft) /\ Direct(form.from, form.draft)
        /\ form.draft.editor \in {"GrantEditor", "RoleForm"} =>
            (Touched(form.from, form.draft) \ Ignored(form.draft) = {}
                <=> Sends(form.from, form.draft) = <<>>)

=============================================================================

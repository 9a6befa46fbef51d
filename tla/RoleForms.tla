------------------------------ MODULE RoleForms -----------------------------
(***************************************************************************)
(* The forms about roles (RoleAttributes.tsx, Memberships.tsx and          *)
(* Ownership.tsx), with the interface of GrantForms.  Of the attributes    *)
(* three stand for the rest: a flag, a field one may leave empty, and the  *)
(* password, which is never shown.                                         *)
(*                                                                         *)
(* A membership is a row for each grantor, "us" or another; the operations *)
(* that grant and revoke it carry no GRANTED BY.                           *)
(***************************************************************************)
EXTENDS FiniteSets, Naturals, Sequences

CONSTANTS Role, Object, None

RoleCell == {"role"} \X Role
AttrCell == {"attr"} \X Role \X {"login", "connlimit", "password"}
MemberCell == {"member"} \X Role \X Role \X {"us", "other"}
OwnerCell == {"owner"} \X Object
Cell == RoleCell \cup AttrCell \cup MemberCell \cup OwnerCell

Options == {"member", "admin", "inherit", "set"}
Reads(cat, c) == cat[c]

Exists(cat, r) == cat[<<"role", r>>]
Owned(cat, r) == {c \in OwnerCell : cat[c] = r}
OfRole(r) == {c \in AttrCell : c[2] = r} \cup {c \in MemberCell : r \in {c[2], c[3]}}
Default(c) ==
    IF c[1] = "member" THEN {}
    ELSE CASE c[3] = "login" -> "off" [] c[3] = "connlimit" -> "-1" [] OTHER -> "none"

(* A role that does not exist has no attributes                            *)
InOrder(cat) ==
    /\ cat = [c \in Cell |-> cat[c]]
    /\ \A c \in AttrCell : ~Exists(cat, c[2]) => cat[c] = Default(c)

-----------------------------------------------------------------------------
(* The server.  `sets` are the attributes named, `member_of` the roles.    *)
Refused(cat, op) ==
    CASE op.op = "create_role" -> Exists(cat, op.role) \/ \E r \in op.member_of : ~Exists(cat, r)
      [] op.op = "grant_role" ->
            \/ ~Exists(cat, op.role) \/ ~Exists(cat, op.member)
            \/ \E b \in {"us", "other"} : cat[<<"member", op.member, op.role, b>>] # {}
      [] op.op = "revoke_role" -> ~Exists(cat, op.role) \/ ~Exists(cat, op.member)
      [] op.op = "alter_owner" -> cat[op.cell] = None \/ ~Exists(cat, op.role)
      [] op.op = "drop_role" ->
            \/ ~Exists(cat, op.role)
            \/ op.to # None /\ ~Exists(cat, op.to)
            \/ op.to = None /\ ~op.drop_owned /\ Owned(cat, op.role) # {}
      [] op.op = "reassign_owned" -> ~Exists(cat, op.role) \/ ~Exists(cat, op.to)
      [] OTHER -> ~Exists(cat, op.role)

(* Options that are not named stay, or take the default of a new row       *)
Membership(old, op) ==
    {"member"}
    \cup {o \in {"admin", "inherit", "set"} :
            CASE op.options[o] = "true" -> TRUE
              [] op.options[o] = "false" -> FALSE
              [] OTHER -> IF old = {} THEN o # "admin" ELSE o \in old}

Effect(cat, op) ==
    [c \in Cell |->
        CASE op.op = "alter_role" /\ c \in DOMAIN op.sets -> op.sets[c]
          [] op.op = "create_role" ->
                IF c = <<"role", op.role>> THEN TRUE
                ELSE IF c \in DOMAIN op.sets THEN op.sets[c]
                ELSE IF c \in {<<"member", r, op.role, "us">> : r \in op.member_of}
                     THEN {"member", "inherit", "set"} ELSE cat[c]
          [] op.op = "grant_role" /\ c = <<"member", op.role, op.member, "us">> -> Membership(cat[c], op)
          [] op.op = "revoke_role" /\ c = <<"member", op.role, op.member, "us">> -> {}
          [] op.op = "alter_owner" /\ c = op.cell -> op.role
          [] op.op \in {"reassign_owned", "drop_role"} /\ c \in Owned(cat, op.role) -> op.to
          [] op.op = "drop_role" /\ c = <<"role", op.role>> -> FALSE
          [] op.op = "drop_role" /\ c \in OfRole(op.role) -> Default(c)
          [] OTHER -> cat[c]]

(* Dropping a role takes its attributes and memberships, and both ways of  *)
(* giving away all it owns reach what it came to own since                 *)
Reach(cat, op) ==
    CASE op.op = "drop_role" -> OfRole(op.role) \cup Owned(cat, op.role)
      [] op.op = "reassign_owned" -> Owned(cat, op.role)
      [] OTHER -> {}

Group(op) == IF op.op \in {"alter_owner", "reassign_owned"} THEN "db" ELSE "any"

AlterRole(r, sets) == [op |-> "alter_role", role |-> r, sets |-> sets]
CreateRole(r, sets, of) == [op |-> "create_role", role |-> r, sets |-> sets, member_of |-> of]
DropRole(r, to, owned) == [op |-> "drop_role", role |-> r, to |-> to, drop_owned |-> owned]
AlterOwner(c, r) == [op |-> "alter_owner", cell |-> c, role |-> r]
ReassignOwned(r, to) == [op |-> "reassign_owned", role |-> r, to |-> to]
GrantRole(r, m, options) == [op |-> "grant_role", role |-> r, member |-> m, options |-> options]
RevokeRole(r, m) == [op |-> "revoke_role", role |-> r, member |-> m]

(* What other administrators do meanwhile                                  *)
Logins(v) == {AlterRole(r, [c \in {<<"attr", r, "login">>} |-> v]) : r \in Role}

Commands ==
    Logins("on") \cup Logins("off")
    \cup {CreateRole(r, [c \in {} |-> ""], {}) : r \in Role}
    \cup {DropRole(r, None, FALSE) : r \in Role}
    \cup {AlterOwner(x[1], x[2]) : x \in OwnerCell \X Role}
    \cup {RevokeRole(x[1], x[2]) : x \in {y \in Role \X Role : y[1] # y[2]}}

Foreign(cat) == {Effect(cat, op) : op \in {o \in Commands : ~Refused(cat, o)}}

-----------------------------------------------------------------------------
(* The forms.  `role` is the row a form was opened on, or what it picked.  *)
RoleDraft(from, r) ==
    [editor |-> "RoleForm", role |-> r, name |-> None, member_of |-> {}, clear |-> FALSE, typed |-> FALSE,
     login |-> IF r = None THEN "off" ELSE from[<<"attr", r, "login">>],
     connlimit |-> IF r = None THEN "-1" ELSE from[<<"attr", r, "connlimit">>]]
MemberDraft(pg16) ==
    [editor |-> "AddMembership", role |-> None, member |-> None, pg16 |-> pg16,
     options |-> [o \in {"admin", "inherit", "set"} |-> ""]]
Pick(editor, row) == [editor |-> editor, row |-> row, to |-> None, drop_owned |-> FALSE]

OpensAttributes(seen) ==
    {RoleDraft(seen, r) : r \in {x \in Role : Exists(seen, x)} \cup {None}}
    \cup {Pick("DropRole", r) : r \in {x \in Role : Exists(seen, x)}}

OpensOwnership(seen) ==
    {Pick("ReassignOwned", r) : r \in {x \in Role : Owned(seen, x) # {}}}
    \cup {Pick("ChangeOwner", c) : c \in {x \in OwnerCell : seen[x] # None}}

OpensMemberships == {MemberDraft(b) : b \in BOOLEAN}

Opens(seen) == OpensAttributes(seen) \cup OpensOwnership(seen) \cup OpensMemberships

(* GranteeSelect: the roles of the instance, but for those excluded        *)
Roles(from, excluded) == {r \in Role : Exists(from, r)} \ excluded

Toggle(s, x) == IF x \in s THEN s \ {x} ELSE s \cup {x}

(* What one can type into the field of the limit and is no integer         *)
Fraction == "1.5"

RoleEdits(from, d) ==
    {[d EXCEPT !.login = v] : v \in {"on", "off"}}
    \cup {[d EXCEPT !.connlimit = v] : v \in {"", "-1", "2", Fraction}}
    \cup {e \in {[d EXCEPT !.typed = ~@]} : ~d.clear}
    \cup (IF d.role # None THEN {[d EXCEPT !.clear = ~@]}
          ELSE {[d EXCEPT !.name = r] : r \in Role}
               \cup {[d EXCEPT !.member_of = Toggle(@, r)] : r \in Roles(from, {})})

SetOption(d, o, values) == {[d EXCEPT !.options = [@ EXCEPT ![o] = v]] : v \in values}

MemberEdits(from, d) ==
    {[d EXCEPT !.role = r] : r \in Roles(from, {})}
    \cup {[d EXCEPT !.member = r] : r \in Roles(from, {d.role})}
    \cup SetOption(d, "admin", {"", "true"})
    \cup (IF d.pg16 THEN UNION {SetOption(d, o, {"", "true", "false"}) : o \in {"inherit", "set"}} ELSE {})

(* The checkbox for DROP OWNED is ticked and fixed while a role is picked  *)
DropEdits(from, d) ==
    {[d EXCEPT !.to = r] : r \in Roles(from, {d.row}) \cup {None}}
    \cup {e \in {[d EXCEPT !.drop_owned = ~@]} : d.to = None}

OwnerEdits(from, d) ==
    {[d EXCEPT !.to = r] : r \in Roles(from, {IF d.editor = "ChangeOwner" THEN from[d.row] ELSE d.row})}

Edits(from, d) ==
    CASE d.editor = "RoleForm" -> RoleEdits(from, d)
      [] d.editor = "AddMembership" -> MemberEdits(from, d)
      [] d.editor = "DropRole" -> DropEdits(from, d)
      [] OTHER -> OwnerEdits(from, d)

Loaded(from, d) ==
    CASE d.editor = "RoleForm" -> RoleDraft(from, d.role)
      [] d.editor = "AddMembership" -> MemberDraft(d.pg16)
      [] OTHER -> Pick("", d.row)

CanSave(d) ==
    CASE d.editor = "RoleForm" -> d.role # None \/ d.name # None
      [] d.editor = "AddMembership" -> None \notin {d.role, d.member} /\ d.role # d.member
      [] OTHER -> d.editor = "DropRole" \/ d.to # None

-----------------------------------------------------------------------------
(* submit                                                                  *)

(* Mutant: Number(connlimit) of an empty field                             *)
Limit_EmptyIsZero(from, d) ==
    LET n == IF d.connlimit = "" THEN "0" ELSE d.connlimit
    IN  IF n = Fraction \/ (d.role # None /\ from[<<"attr", d.role, "connlimit">>] = n) THEN {}
        ELSE {<<"connlimit", n>>}

(* "An empty field means leave as is; Number('') would be 0".  A fraction  *)
(* is left out without a word.                                             *)
Limit(from, d) ==
    IF d.connlimit \in {"", Fraction} \/ (d.role = None /\ d.connlimit = "-1") THEN {}
    ELSE IF d.role # None /\ from[<<"attr", d.role, "connlimit">>] = d.connlimit THEN {}
    ELSE {<<"connlimit", d.connlimit>>}

Password(d) ==
    IF d.clear THEN {<<"password", "none">>} ELSE IF d.typed THEN {<<"password", "new">>} ELSE {}

Login(from, d) ==
    IF d.role = None \/ from[<<"attr", d.role, "login">>] # d.login THEN {<<"login", d.login>>} ELSE {}

(* attrs: only what differs from the row                                   *)
Attrs(from, d, role) ==
    LET pairs == Login(from, d) \cup Limit(from, d) \cup Password(d)
    IN  [c \in {<<"attr", role, x[1]>> : x \in pairs} |-> (CHOOSE x \in pairs : x[1] = c[3])[2]]

Sends(from, d) ==
    CASE d.editor = "RoleForm" /\ d.role # None ->
            IF DOMAIN Attrs(from, d, d.role) = {} THEN <<>>
            ELSE <<AlterRole(d.role, Attrs(from, d, d.role))>>
      [] d.editor = "RoleForm" /\ d.role = None -> <<CreateRole(d.name, Attrs(from, d, d.name), d.member_of)>>
      [] d.editor = "AddMembership" -> <<GrantRole(d.role, d.member, d.options)>>
      [] d.editor = "DropRole" -> <<DropRole(d.row, d.to, d.drop_owned)>>
      [] d.editor = "ChangeOwner" -> <<AlterOwner(d.row, d.to)>>
      [] OTHER -> <<ReassignOwned(d.row, d.to)>>

-----------------------------------------------------------------------------
(* What a form asks for                                                    *)
AsksAttrs(d, role) ==
    LET shown == {<<"login", d.login>>} \cup Password(d)
                 \cup (IF d.connlimit = "" THEN {} ELSE {<<"connlimit", d.connlimit>>})
    IN  [c \in {<<"attr", role, x[1]>> : x \in shown} |-> {(CHOOSE x \in shown : x[1] = c[3])[2]}]

(* The limit somebody typed that is no integer                             *)
Ignored(d) ==
    IF d.editor = "RoleForm" /\ d.connlimit = Fraction
    THEN {<<"attr", r, "connlimit">> : r \in {d.role, d.name}} ELSE {}

AsksRole(d) ==
    IF d.role # None THEN AsksAttrs(d, d.role)
    ELSE IF d.name = None THEN <<>>
    ELSE LET attrs == AsksAttrs(d, d.name)
             members == {<<"member", r, d.name, "us">> : r \in d.member_of}
         IN  [c \in DOMAIN attrs \cup members \cup {<<"role", d.name>>} |->
                CASE c \in DOMAIN attrs -> attrs[c]
                  [] c \in members -> {v \in SUBSET Options : "member" \in v}
                  [] OTHER -> {TRUE}]

AsksMember(d) ==
    IF ~CanSave(d) THEN <<>>
    ELSE [c \in {<<"member", d.role, d.member, "us">>} |->
            {v \in SUBSET Options :
                /\ "member" \in v
                /\ \A o \in DOMAIN d.options : /\ d.options[o] = "true" => o \in v
                                              /\ d.options[o] = "false" => o \notin v}]

Asks(from, d) ==
    CASE d.editor = "" -> <<>>
      [] d.editor = "RoleForm" -> AsksRole(d)
      [] d.editor = "AddMembership" -> AsksMember(d)
      [] d.editor = "ChangeOwner" -> IF d.to = None THEN <<>> ELSE [c \in {d.row} |-> {d.to}]
      [] OTHER ->
            LET owned == {x \in Owned(from, d.row) : d.to # None \/ d.drop_owned}
                dropped == IF d.editor = "DropRole" THEN {<<"role", d.row>>} ELSE {}
            IN  [c \in owned \cup dropped |-> IF c \in owned THEN {d.to} ELSE {FALSE}]

Direct(from, d) == TRUE

(* Memberships: a row's Revoke does not name the grantor of the row        *)
Buttons(seen) ==
    {[op |-> RevokeRole(c[2], c[3]), asks |-> [x \in {c} |-> {{}}], direct |-> c[4] = "us"] :
        c \in {x \in MemberCell : seen[x] # {}}}

=============================================================================

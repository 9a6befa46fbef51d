----------------------------- MODULE AdminForms -----------------------------
(***************************************************************************)
(* The forms about this application's own data: instances                  *)
(* (Connections.tsx) and accounts (Users.tsx), with the interface of       *)
(* GrantForms.  They are saved at once, past the basket; api/profiles.py   *)
(* and api/users.py are the server.                                        *)
(***************************************************************************)
EXTENDS FiniteSets, Naturals, Sequences

CONSTANTS
    Profile,
    User,
    Me,       \* the signed-in user, an admin
    None

Field == {"exists", "host", "password", "patroni_url", "patroni_password"}
ProfileCell == {"profile"} \X Profile \X Field
UserCell == {"user"} \X User \X {"role", "password"}
Cell == ProfileCell \cup UserCell

At(p, f) == <<"profile", p, f>>
RoleOf(u) == <<"user", u, "role">>
Reads(cat, c) == cat[c]
Exists(cat, p) == cat[At(p, "exists")] = "yes"
Admins(cat) == {u \in User : cat[RoleOf(u)] = "admin"}

-----------------------------------------------------------------------------
(* The server.  `body` holds the fields that are sent and not null.        *)
Put(p, body) == [op |-> "put_profile", profile |-> p, body |-> body]
Post(p, body) == [op |-> "post_profile", profile |-> p, body |-> body]
DeleteProfile(p) == [op |-> "delete_profile", profile |-> p]
SetUser(u, field, value) == [op |-> "put_user", user |-> u, cell |-> <<"user", u, field>>, value |-> value]
CreateUser(u, role) == [op |-> "post_user", user |-> u, value |-> role]
DeleteUser(u) == [op |-> "delete_user", user |-> u]

(* Names are unique, and an admin remains                                  *)
Denied(cat, op) ==
    CASE op.op = "post_profile" -> Exists(cat, op.profile)
      [] op.op \in {"put_profile", "delete_profile"} -> ~Exists(cat, op.profile)
      [] op.op = "post_user" -> cat[RoleOf(op.user)] # "none"
      [] op.op = "put_user" ->
            \/ cat[RoleOf(op.user)] = "none"
            \/ op.cell = RoleOf(op.user) /\ op.value # "admin" /\ Admins(cat) = {op.user}
      [] OTHER -> cat[RoleOf(op.user)] = "none" \/ Admins(cat) = {op.user}

(* Every one of these endpoints asks for an admin                          *)
Refused(cat, op) == cat[RoleOf(Me)] # "admin" \/ Denied(cat, op)

(* Without Patroni there is no password for it                             *)
Stored(cat, op, f) ==
    LET sent == IF f \in DOMAIN op.body THEN op.body[f]
                ELSE IF op.op = "post_profile" THEN "none" ELSE cat[At(op.profile, f)]
    IN  IF f = "exists" THEN "yes"
        ELSE IF f = "patroni_password" /\ op.body["patroni_url"] = "none" THEN "none" ELSE sent

Effect(cat, op) ==
    [c \in Cell |->
        CASE op.op \in {"put_profile", "post_profile"} /\ c \in {"profile"} \X {op.profile} \X Field ->
                Stored(cat, op, c[3])
          [] op.op = "delete_profile" /\ c \in {"profile"} \X {op.profile} \X Field -> "none"
          [] op.op = "put_user" /\ c = op.cell -> op.value
          [] op.op = "post_user" /\ c[1] = "user" /\ c[2] = op.user ->
                IF c[3] = "role" THEN op.value ELSE "new"
          [] op.op = "delete_user" /\ c[1] = "user" /\ c[2] = op.user -> "none"
          [] OTHER -> cat[c]]

(* A saved instance writes every field it sends, changed or not            *)
Reach(cat, op) ==
    CASE op.op \in {"put_profile", "post_profile"} -> {At(op.profile, f) : f \in DOMAIN op.body}
      [] op.op = "delete_profile" -> {At(op.profile, f) : f \in Field}
      [] op.op \in {"post_user", "delete_user"} -> {<<"user", op.user, f>> : f \in {"role", "password"}}
      [] OTHER -> {}

Group(op) == "any"

Body(host, password, url, secret) ==
    LET sent == {<<"host", host>>, <<"patroni_url", url>>}
                \cup {x \in {<<"password", password>>, <<"patroni_password", secret>>} : x[2] # "null"}
    IN  [f \in {x[1] : x \in sent} |-> (CHOOSE x \in sent : x[1] = f)[2]]

Commands ==
    {Put(p, Body(h, s, u, t)) : p \in Profile, h \in {"h2"}, s \in {"null", "other"},
        u \in {"none", "u"}, t \in {"null", "other"}}
    \cup {DeleteProfile(p) : p \in Profile}
    \cup {SetUser(u, "role", v) : u \in User, v \in {"viewer", "admin"}}
    \cup {DeleteUser(u) : u \in User \ {Me}}

Foreign(cat) == {Effect(cat, op) : op \in {o \in Commands : ~Denied(cat, o)}}

-----------------------------------------------------------------------------
(* The forms.  `keep` and `secret_keep` stand for a stored password that   *)
(* is neither shown nor sent until its field is typed in.                  *)
ProfileDraft(from, p) ==
    LET at(f) == IF p = None THEN "none" ELSE from[At(p, f)]
    IN  [editor |-> "ProfileForm", profile |-> p, name |-> None,
         host |-> IF p = None THEN "" ELSE at("host"),
         password |-> "none", keep |-> at("password") # "none",
         patroni |-> at("patroni_url") # "none", url |-> at("patroni_url"),
         secret |-> "none", secret_keep |-> at("patroni_password") # "none"]

UserDraft(editor, u) == [editor |-> editor, user |-> u, role |-> "viewer", typed |-> FALSE]

(* Both pages offer this to admins only                                    *)
OpensProfiles(seen) ==
    {ProfileDraft(seen, p) : p \in {x \in Profile : Exists(seen, x)} \cup {None}}

OpensUsers(seen) ==
    {UserDraft("CreateUser", None)}
    \cup {UserDraft("ResetPassword", u) : u \in {x \in User : seen[RoleOf(x)] # "none"} \ {Me}}

Opens(seen) == IF seen[RoleOf(Me)] = "admin" THEN OpensProfiles(seen) \cup OpensUsers(seen) ELSE {}

ProfileEdits(d) ==
    {[d EXCEPT !.host = h] : h \in {"", "h3"}}
    \cup {[d EXCEPT !.password = v, !.keep = FALSE] : v \in {"none", "new"}}
    \cup {[d EXCEPT !.patroni = ~@]}
    \cup (IF d.patroni THEN {[d EXCEPT !.url = v] : v \in {"none", "u2"}}
                            \cup {[d EXCEPT !.secret = v, !.secret_keep = FALSE] : v \in {"none", "new"}}
          ELSE {})
    \cup (IF d.profile = None THEN {[d EXCEPT !.name = p] : p \in Profile} ELSE {})

CreateUserEdits(d) ==
    {[d EXCEPT !.user = u] : u \in User} \cup {[d EXCEPT !.role = r] : r \in {"viewer", "admin"}}
    \cup {[d EXCEPT !.typed = ~@]}

Edits(from, d) ==
    CASE d.editor = "ProfileForm" -> ProfileEdits(d)
      [] d.editor = "CreateUser" -> CreateUserEdits(d)
      [] OTHER -> {[d EXCEPT !.typed = ~@]}

Loaded(from, d) ==
    IF d.editor = "ProfileForm" THEN ProfileDraft(from, d.profile) ELSE UserDraft(d.editor, None)

CanSave(d) ==
    IF d.editor = "ProfileForm"
    THEN d.host # "" /\ (d.patroni => d.url # "none") /\ (d.profile = None => d.name # None)
    ELSE d.user # None /\ d.typed

Target(d) == IF d.profile = None THEN d.name ELSE d.profile

(* Mutant: an instance that is edited keeps its passwords                  *)
Payload_KeepsPasswords(d) ==
    Body(d.host, IF d.profile # None THEN "null" ELSE d.password,
         IF d.patroni THEN d.url ELSE "none",
         IF d.profile # None THEN "null" ELSE IF d.patroni THEN d.secret ELSE "none")

(* payload: null keeps what is stored                                      *)
Payload(d) ==
    Body(d.host,
         IF d.profile # None /\ d.keep THEN "null" ELSE d.password,
         IF d.patroni THEN d.url ELSE "none",
         IF ~d.patroni THEN "none" ELSE IF d.profile # None /\ d.secret_keep THEN "null" ELSE d.secret)

Sends(from, d) ==
    CASE d.editor = "ProfileForm" -> <<IF d.profile = None THEN Post(d.name, Payload(d)) ELSE Put(d.profile, Payload(d))>>
      [] d.editor = "CreateUser" -> <<CreateUser(d.user, d.role)>>
      [] OTHER -> <<SetUser(d.user, "password", "new")>>

(* What the fields say                                                     *)
AsksProfile(d) ==
    LET fields == {f \in Field :
                    CASE f = "password" -> ~d.keep
                      [] f = "patroni_password" -> ~(d.patroni /\ d.secret_keep)
                      [] f = "exists" -> d.profile = None
                      [] OTHER -> TRUE}
    IN  [c \in {At(Target(d), f) : f \in fields} |->
            {CASE c[3] = "host" -> d.host
               [] c[3] = "password" -> d.password
               [] c[3] = "patroni_url" -> IF d.patroni THEN d.url ELSE "none"
               [] c[3] = "patroni_password" -> IF d.patroni THEN d.secret ELSE "none"
               [] OTHER -> "yes"}]

Only(cell, value) == [c \in {cell} |-> {value}]

Asks(from, d) ==
    IF d.editor = "ProfileForm" THEN IF Target(d) = None THEN <<>> ELSE AsksProfile(d)
    ELSE IF d.user = None \/ ~d.typed THEN <<>>
    ELSE IF d.editor = "CreateUser" THEN Only(RoleOf(d.user), d.role)
    ELSE Only(<<"user", d.user, "password">>, "new")

Direct(from, d) == TRUE

(* A row's role select and its Delete; one's own account has no Delete     *)
Button(op, c, v) == [op |-> op, asks |-> Only(c, v), direct |-> TRUE]
DeleteProfileButtons(seen) ==
    {Button(DeleteProfile(p), At(p, "exists"), "none") : p \in {x \in Profile : Exists(seen, x)}}

UserButtons(seen) ==
    {Button(SetUser(x[1], "role", x[2]), RoleOf(x[1]), x[2]) :
        x \in {y \in User \X {"viewer", "admin"} : seen[RoleOf(y[1])] \notin {"none", y[2]}}}
    \cup {Button(DeleteUser(u), RoleOf(u), "none") : u \in {x \in User : seen[RoleOf(x)] # "none"} \ {Me}}

Buttons(seen) ==
    IF seen[RoleOf(Me)] = "admin" THEN DeleteProfileButtons(seen) \cup UserButtons(seen) ELSE {}

=============================================================================

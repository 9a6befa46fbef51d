------------------------------- MODULE Access -------------------------------
(* Who may do what in one database, as the console explains it:             *)
(* pg/catalog/roles.py and pg/catalog/privileges.py.                         *)
(*                                                                           *)
(* PostgreSQL (external) holds the catalog and decides what a role may do.   *)
(* The report of effective_privileges asks it: "granted" always comes from   *)
(* has_*_privilege, the sources from the ACL entries of the roles whose      *)
(* privileges flow to the role.  These are statements of their own, each     *)
(* with its own snapshot, and others change the catalog between them.        *)
(*                                                                           *)
(* One privilege stands for each kind of object: CONNECT on the database,    *)
(* USAGE on the schema, SELECT on a table, EXECUTE on a function.            *)
EXTENDS Naturals, FiniteSets, Sequences, SequencesExt

CONSTANTS
  Role,             \* role names
  PgDatabaseOwner,  \* the predefined role of whoever owns the database
  PgReadAllData,    \* the predefined role that may read every table
  PUBLIC,
  Subject,          \* the roles a report is asked for
  Member,           \* pairs <<member, role>> a GRANT may join
  Catalogs,         \* the catalogs to start from
  MaxChanges        \* bound: changes of the catalog

Object == {"database", "schema", "table", "function"}
Grantee == Role \cup {PUBLIC}

\* A catalog.  pg_database_owner is there and is a member of no role: PostgreSQL
\* refuses to grant it one.
Catalog ==
  {c \in [modern : BOOLEAN, rolinherit : [Role -> BOOLEAN], roles : SUBSET Role,
          members : SUBSET [member : Role, role : Role, inherit : BOOLEAN],
          super : SUBSET Role, owner : [Object -> Role],
          acl : [Object -> SUBSET Grantee], policy : SUBSET Grantee] :
     /\ PgDatabaseOwner \in c.roles
     /\ \A m \in c.members : m.member # PgDatabaseOwner}

ASSUME RolesAssumption == IsFiniteSet(Role)
ASSUME PredefinedRoles == {PgDatabaseOwner, PgReadAllData} \subseteq Role
ASSUME PublicIsNoRole == PUBLIC \notin Role
ASSUME SubjectAssumption == Subject \subseteq Role
ASSUME MembersAssumption == Member \subseteq (Role \ {PgDatabaseOwner}) \X Role
ASSUME CatalogsAssumption == \A c \in Catalogs : c \in Catalog

VARIABLES
  cat,      \* the catalog of the server
  changes,  \* changes made so far
  rd        \* the report being made

vars == <<cat, changes, rd>>

-----------------------------------------------------------------------------
(* The server                                                                *)

\* Whether privileges flow through membership m.
Flows(c, m) == IF c.modern THEN m.inherit ELSE c.rolinherit[m.member]

\* What follows edges from r: the least set with r that no edge leads out of.
Closed(edges, roles) == \A e \in edges : e[1] \in roles => e[2] \in roles
Reached(edges, r) ==
  LET closed == {roles \in SUBSET Role : r \in roles /\ Closed(edges, roles)}
  IN {s \in Role : \A roles \in closed : s \in roles}

Inheriting(c) ==
  {<<m.member, m.role>> : m \in {n \in c.members : Flows(c, n)}}

\* The roles whose privileges r has.
PrivsOf(c, r) ==
  Reached(Inheriting(c) \cup {<<c.owner["database"], PgDatabaseOwner>>}, r)

HasPrivilege(c, r, o) ==
  \/ r \in c.super
  \/ c.acl[o] \cap (PrivsOf(c, r) \cup {PUBLIC}) # {}
  \/ o \in {"schema", "table"} /\ PgReadAllData \in PrivsOf(c, r)

\* Row security leaves r some row: it does not apply, or a policy lets r in.
SeesRows(c, r) ==
  \/ r \in c.super
  \/ c.owner["table"] \in PrivsOf(c, r)
  \/ c.policy \cap (PrivsOf(c, r) \cup {PUBLIC}) # {}

-----------------------------------------------------------------------------
(* Membership closures                                                       *)

\* One more hop of the recursive query: hops are <<from, to, flows>>.
Longer(hops, e) ==
  {[path |-> Append(e.path, h[2]), inherited |-> e.inherited /\ h[3]] :
     h \in {g \in hops : g[1] = Last(e.path) /\ g[2] \notin ToSet(e.path)}}

\* The rows of WITH RECURSIVE, by depth.
Levels(hops, r) ==
  LET level[n \in 0..Cardinality(Role)] ==
        IF n = 0 THEN {[path |-> <<r>>, inherited |-> TRUE]}
        ELSE UNION {Longer(hops, e) : e \in level[n-1]}
  IN level

Chains(hops, r) == UNION {Levels(hops, r)[n] : n \in 1..Cardinality(Role)}

\* Every chain of memberships that leads up from r, and every one that leads down.
membership_closure(c, r) == Chains({<<m.member, m.role, Flows(c, m)>> : m \in c.members}, r)
reverse_closure(c, r)    == Chains({<<m.role, m.member, Flows(c, m)>> : m \in c.members}, r)

dedupe_closure_Shortest(entries) ==
  LET ends == {Last(e.path) : e \in entries}
      to(r) == {e \in entries : Last(e.path) = r}
  IN {CHOOSE e \in to(r) : \A f \in to(r) : Len(e.path) <= Len(f.path) : r \in ends}

First(es) == CHOOSE e \in es : \A f \in es : Len(e.path) <= Len(f.path)

\* The shortest inherited path, else the shortest.
Best(es) ==
  IF \E e \in es : e.inherited THEN First({e \in es : e.inherited}) ELSE First(es)

\* One entry for each role.
dedupe_closure(entries) ==
  {Best({e \in entries : Last(e.path) = r}) : r \in {Last(e.path) : e \in entries}}

\* inherits_from and inherited_by of get_role_detail, the inherited ones.
InheritsFrom(c, r) ==
  {Last(e.path) : e \in {d \in dedupe_closure(membership_closure(c, r)) : d.inherited}}
InheritedBy(c, r) ==
  {Last(e.path) : e \in {d \in dedupe_closure(reverse_closure(c, r)) : d.inherited}}

-----------------------------------------------------------------------------
(* The report                                                                *)

Idle == [stage |-> "idle"]

\* An unknown role is a 404.
Unknown(r) ==
  /\ rd.stage = "idle"
  /\ r \notin cat.roles
  /\ UNCHANGED vars

\* The version and the role's attributes.
Begin(r) ==
  /\ rd.stage = "idle"
  /\ r \in cat.roles
  /\ rd' = [stage |-> "names", role |-> r, super |-> r \in cat.super, spoilt |-> {},
            via |-> <<>>, oids |-> {}, names |-> {}, granted |-> <<>>, owner |-> <<>>,
            sources |-> <<>>, policies |-> FALSE]
  /\ UNCHANGED <<cat, changes>>

Names ==
  /\ rd.stage = "names"
  /\ rd' = [rd EXCEPT !.stage = "closure", !.names = cat.roles]
  /\ UNCHANGED <<cat, changes>>

\* The roles whose privileges flow to rd.role, each with the hops to it.
Via(closure) ==
  LET inherited == {e \in closure : e.inherited}
      ends == {Last(e.path) : e \in inherited}
  IN [r \in ends \cup {rd.role} |->
        IF r = rd.role THEN <<>>
        ELSE Tail((CHOOSE e \in inherited : Last(e.path) = r).path)]

Closure ==
  /\ rd.stage = "closure"
  /\ LET via == Via(dedupe_closure(membership_closure(cat, rd.role)))
     IN rd' = [rd EXCEPT !.stage = "database", !.via = via, !.oids = DOMAIN via]
  /\ UNCHANGED <<cat, changes>>

\* f with v at x.
With(f, x, v) == [y \in DOMAIN f \cup {x} |-> IF y = x THEN v ELSE f[y]]

\* The owner of the database is an implicit member of pg_database_owner.
add_database_owner(via, datdba) ==
  IF PgDatabaseOwner \in rd.names /\ datdba \in DOMAIN via
     /\ PgDatabaseOwner \notin DOMAIN via
  THEN With(via, PgDatabaseOwner, Append(via[datdba], PgDatabaseOwner))
  ELSE via

\* has_*_privilege refuses the name of a role that no longer exists.
RowFails(stage) ==
  /\ rd.stage = stage /\ rd.role \notin cat.roles
  /\ rd' = Idle
  /\ UNCHANGED <<cat, changes>>

Granted(o) == With(rd.granted, o, HasPrivilege(cat, rd.role, o))
Owner(o)   == With(rd.owner, o, cat.owner[o])

DatabaseRow_KeepsOids ==
  /\ rd.stage = "database" /\ rd.role \in cat.roles
  /\ rd' = [rd EXCEPT !.stage = "database_acl",
              !.via = add_database_owner(rd.via, cat.owner["database"]),
              !.granted = Granted("database"), !.owner = Owner("database")]
  /\ UNCHANGED <<cat, changes>>

DatabaseRow ==
  /\ rd.stage = "database" /\ rd.role \in cat.roles
  /\ LET via == add_database_owner(rd.via, cat.owner["database"])
     IN rd' = [rd EXCEPT !.stage = "database_acl", !.via = via, !.oids = DOMAIN via,
                 !.granted = Granted("database"), !.owner = Owner("database")]
  /\ UNCHANGED <<cat, changes>>

\* The query of the rows of o, with the privileges the server says rd.role has.
Row(o, stage, next) ==
  /\ rd.stage = stage /\ rd.role \in cat.roles
  /\ rd' = [rd EXCEPT !.stage = next, !.granted = Granted(o), !.owner = Owner(o)]
  /\ UNCHANGED <<cat, changes>>

source(g, o) ==
  [kind |-> IF g = rd.owner[o] THEN "owner" ELSE "acl",
   grantee |-> g,
   via |-> IF g \in DOMAIN rd.via THEN rd.via[g] ELSE <<>>]

\* build_privileges for the entries the ACL query returned.
Sources(o, entries) ==
  LET found == {source(g, o) : g \in entries}
  IN IF rd.granted[o] /\ found = {} /\ rd.super
     THEN {[kind |-> "superuser", grantee |-> rd.role, via |-> <<>>]}
     ELSE found

\* The query of the ACL of o: the entries of the roles in oids and of PUBLIC.
Acl(o, stage, next) ==
  /\ rd.stage = stage
  /\ LET entries == cat.acl[o] \cap (rd.oids \cup {PUBLIC})
     IN rd' = [rd EXCEPT !.stage = next, !.sources = With(@, o, Sources(o, entries))]
  /\ UNCHANGED <<cat, changes>>

DatabaseAcl == Acl("database", "database_acl", "schema")
SchemaRow   == Row("schema", "schema", "schema_acl")
SchemaAcl   == Acl("schema", "schema_acl", "table")
TableRow    == Row("table", "table", "table_acl")
TableAcl    == Acl("table", "table_acl", "policies")
FunctionRow == Row("function", "function", "function_acl")
FunctionAcl == Acl("function", "function_acl", "done")

Policies_NotPublic ==
  /\ rd.stage = "policies"
  /\ rd' = [rd EXCEPT !.stage = "function", !.policies = cat.policy \cap rd.oids # {}]
  /\ UNCHANGED <<cat, changes>>

\* The policies of the table that name PUBLIC or a role in oids.
Policies ==
  /\ rd.stage = "policies"
  /\ rd' = [rd EXCEPT !.stage = "function",
              !.policies = cat.policy \cap (rd.oids \cup {PUBLIC}) # {}]
  /\ UNCHANGED <<cat, changes>>

Answer ==
  /\ rd.stage = "done"
  /\ rd' = Idle
  /\ UNCHANGED <<cat, changes>>

IsOwner(o) == rd.owner[o] \in DOMAIN rd.via

\* The page says "no policy applies to this role: all rows are hidden".
SaysHidden == ~rd.policies /\ ~IsOwner("table")

-----------------------------------------------------------------------------
(* Others change the catalog                                                 *)

\* History: what a change makes of the report under way.  It spoils "roles" when
\* the memberships were read already, "rows" when row security was, an object
\* when it comes between the query of its rows and that of its ACL.
Past(stages) == rd.stage \notin {"idle"} \cup stages
Between(o) == rd.stage # "idle" /\ o \in DOMAIN rd.granted \ DOMAIN rd.sources

RolesSpoilt == IF Past({"names", "closure"}) THEN {"roles"} ELSE {}
AclSpoilt(o) == IF Between(o) THEN {o} ELSE {}
OwnerSpoilt(o) ==
  AclSpoilt(o)
    \cup (IF o = "database" /\ Past({"names", "closure", "database"}) THEN {"roles"} ELSE {})
    \cup (IF o = "table" /\ rd.stage # "idle" /\ o \in DOMAIN rd.granted THEN {"rows"} ELSE {})
PolicySpoilt ==
  IF rd.stage \in {"function", "function_acl", "done"} THEN {"rows"} ELSE {}

Change(c, spoilt) ==
  /\ cat' = c
  /\ changes' = changes + 1
  /\ rd' = IF rd.stage = "idle" THEN rd ELSE [rd EXCEPT !.spoilt = @ \cup spoilt]

GrantRole(e, inherit) ==
  /\ e[1] \in cat.roles /\ e[2] \in cat.roles
  /\ e[1] \notin Reached({<<m.member, m.role>> : m \in cat.members}, e[2])
  /\ Change([cat EXCEPT !.members =
       @ \cup {[member |-> e[1], role |-> e[2], inherit |-> inherit]}], RolesSpoilt)

RevokeRole(m) == Change([cat EXCEPT !.members = @ \ {m}], RolesSpoilt)

Grant(o, g)  == /\ g \in cat.roles \cup {PUBLIC} /\ g \notin cat.acl[o]
                /\ Change([cat EXCEPT !.acl[o] = @ \cup {g}], AclSpoilt(o))
Revoke(o, g) == Change([cat EXCEPT !.acl[o] = @ \ {g}], AclSpoilt(o))

\* The entries of the old owner become the new one's.
AlterOwner(o, r) ==
  /\ r \in cat.roles \ {cat.owner[o]}
  /\ Change([cat EXCEPT !.owner[o] = r,
       !.acl[o] = IF cat.owner[o] \in @ THEN (@ \ {cat.owner[o]}) \cup {r} ELSE @],
       OwnerSpoilt(o))

\* A role that owns nothing and is named in no ACL and no policy.
DropRole(r) ==
  /\ r \in cat.roles \ {PgDatabaseOwner, PgReadAllData}
  /\ r \notin cat.policy
  /\ \A o \in Object : r # cat.owner[o] /\ r \notin cat.acl[o]
  /\ Change([cat EXCEPT !.roles = @ \ {r},
       !.members = {m \in @ : r \notin {m.member, m.role}}], RolesSpoilt)

AlterPolicy(g) == /\ g \in cat.roles \cup {PUBLIC}
                  /\ Change([cat EXCEPT !.policy = {g}], PolicySpoilt)

-----------------------------------------------------------------------------
Reading ==
  \/ \E r \in Subject : Begin(r) \/ Unknown(r)
  \/ Names \/ Closure
  \/ DatabaseRow \/ DatabaseAcl \/ SchemaRow \/ SchemaAcl
  \/ TableRow \/ TableAcl \/ Policies \/ FunctionRow \/ FunctionAcl
  \/ \E s \in {"database", "schema", "table", "function"} : RowFails(s)
  \/ Answer

Others ==
  /\ changes < MaxChanges
  /\ \/ \E e \in Member, inherit \in BOOLEAN : GrantRole(e, inherit)
     \/ \E m \in cat.members : RevokeRole(m)
     \/ \E o \in Object, g \in Grantee : Grant(o, g)
     \/ \E o \in Object : \E g \in cat.acl[o] : Revoke(o, g)
     \/ \E o \in Object, r \in Role : AlterOwner(o, r)
     \/ \E r \in Role : DropRole(r)
     \/ \E g \in Grantee : AlterPolicy(g)

Next == Reading \/ Others

Init ==
  /\ cat \in Catalogs
  /\ changes = 0
  /\ rd = Idle

Spec == Init /\ [][Next]_vars

-----------------------------------------------------------------------------
(* Properties                                                                *)

\* The two closures of the role page are one relation read from its two ends,
\* and it is the inheritance PostgreSQL uses, on servers before and after 16:
\* merging the chains loses no role (dedupe_closure, roles.py:230).
ClosureIsInheritance ==
  rd.stage = "idle" => \A r \in cat.roles :
    /\ InheritsFrom(cat, r) = Reached(Inheriting(cat), r) \ {r}
    /\ \A s \in cat.roles : s \in InheritsFrom(cat, r) <=> r \in InheritedBy(cat, s)

Complete == rd.stage = "done" /\ "roles" \notin rd.spoilt

\* path is a chain of roles along which privileges flow.
Chain(path) ==
  \A i \in 1..Len(path)-1 :
    <<path[i], path[i+1]>> \in
      Inheriting(cat) \cup {<<cat.owner["database"], PgDatabaseOwner>>}

\* privileges.py:6-8: "each granted privilege can say which role holds the grant
\* and through which chain it was inherited".  The catalog may change between any
\* two queries: as long as the memberships stay, a change spoils the explanation
\* of the object it falls between the two queries of, and no other.  Of every
\* other object a privilege has a source exactly when it is granted, and the
\* chain of the source is there.  The exception: what a member of
\* pg_read_all_data may read without any ACL entry has no source.
Explained ==
  Complete =>
    \A o \in Object \ rd.spoilt :
      /\ rd.sources[o] # {} => rd.granted[o]
      /\ rd.granted[o] =>
           \/ rd.sources[o] # {}
           \/ o \in {"schema", "table"} /\ PgReadAllData \in PrivsOf(cat, rd.role)
      /\ \A s \in rd.sources[o] :
           /\ Chain(<<rd.role>> \o s.via)
           /\ s.grantee # PUBLIC => Last(<<rd.role>> \o s.via) = s.grantee

\* "No policy applies to this role: all rows are hidden" is said of a table whose
\* row security is not forced exactly when the role sees none of its rows
\* (EffectivePrivileges.tsx:159, privileges.py:391-403).  The exception: it is
\* also said of superusers (and of roles with BYPASSRLS), who see them all.
HiddenRowsAreHidden ==
  Complete /\ "rows" \notin rd.spoilt /\ rd.role \notin cat.super =>
    (SaysHidden <=> ~SeesRows(cat, rd.role))

=============================================================================

------------------------------ MODULE MCAccess ------------------------------
EXTENDS Access

CONSTANTS alice, team, lead

MCRole == {alice, team, lead, PgDatabaseOwner, PgReadAllData}
MCMember == {<<alice, team>>, <<alice, lead>>, <<team, lead>>, <<lead, PgReadAllData>>}

Rows(e) == {{}} \cup {{[member |-> e[1], role |-> e[2], inherit |-> i]} : i \in BOOLEAN}

MemberSets ==
  {a \cup b \cup c \cup d :
     a \in Rows(<<alice, team>>), b \in Rows(<<alice, lead>>),
     c \in Rows(<<team, lead>>), d \in Rows(<<lead, PgReadAllData>>)}

\* Newer servers keep the option in the membership, older ones in the role.
Versions ==
  {[modern |-> TRUE, rolinherit |-> [r \in MCRole |-> TRUE]]} \cup
  {[modern |-> FALSE, rolinherit |-> [r \in MCRole |-> r \notin no]] :
     no \in {{}, {alice}, {team}}}

\* lead owns the database, and so the schema; team the table and the function.
\* On older servers the memberships are given without an option.
MCCatalog(v, ms, super, table) ==
  [modern |-> v.modern, rolinherit |-> v.rolinherit, roles |-> MCRole,
   members |-> IF v.modern THEN ms ELSE {[m EXCEPT !.inherit = TRUE] : m \in ms},
   super |-> super,
   owner |-> ("database" :> lead @@ "schema" :> PgDatabaseOwner
              @@ "table" :> team @@ "function" :> team),
   acl |-> ("database" :> {lead} @@ "schema" :> {PgDatabaseOwner}
            @@ "table" :> table @@ "function" :> {team, PUBLIC}),
   policy |-> {lead}]

MCCatalogs ==
  {MCCatalog(v, ms, super, table) :
     v \in Versions, ms \in MemberSets, super \in {{}, {alice}}, table \in {{}, {team, lead}}}
=============================================================================

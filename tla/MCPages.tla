------------------------------ MODULE MCPages -------------------------------
EXTENDS Pages, TLC

(* Grants on one object: levels the owner gave to a and b, and what a gave *)
(* on to b                                                                 *)
Value(owner, a) == [r \in Grantee \cup {Owner} |-> IF r = Owner THEN owner ELSE IF r = "a" THEN a ELSE "none"]
GrantStart ==
    {[c \in Grants!Cell |->
        IF c \in Grants!ObjectCell /\ c[1] = "t"
        THEN IF c[2] = "a" THEN Value(f[c[3]][1], "none") ELSE Value(f[c[3]][2], f[c[3]][3])
        ELSE Value("none", "none")] :
            f \in {g \in [Privilege -> {<<"none", "none", "none">>, <<"plain", "none", "none">>,
                                       <<"option", "none", "plain">>, <<"option", "option", "plain">>}] :
                    g["MAINTAIN"][1] # "plain" /\ g["MAINTAIN"][2] # g["SELECT"][2]}}

(* Roles r1, which may be a member of r2 by two grantors, and r2           *)
RoleStart ==
    {[c \in Roles!Cell |->
        CASE c[1] = "role" -> c[2] # "b"  [] c[1] = "owner" -> "a"
          [] c \in {<<"member", "r", "a", x>> : x \in by} -> {"member", "inherit", "set"}
          [] OTHER -> Roles!Default(c)] : by \in SUBSET {"us", "other"}}

ServerStart ==
    {[c \in Server!Cell |->
        CASE c[1] = "conf" -> "default" [] c[1] = "running" -> "a" [] c[1] = "override" -> o
          [] c[1] = "extension" -> (IF c[2] = "base" THEN v ELSE 0)
          [] c[1] = "slot" -> "inactive" [] c[1] = "backend" -> "mine" [] OTHER -> "old"] :
            <<o, v>> \in {<<"a", 0>>, <<None, 1>>}}

AdminStart ==
    {[c \in Admin!Cell |->
        CASE c[1] = "user" -> (IF c[3] = "password" THEN "old" ELSE IF c[2] = Me THEN "admin" ELSE "viewer")
          [] c[2] # "p" -> "none" [] c[3] = "exists" -> "yes" [] c[3] = "host" -> "h1"
          [] c[3] \in DOMAIN f -> f[c[3]]] :
            f \in {[password |-> "old", patroni_url |-> "u", patroni_password |-> "old"],
                   [password |-> "none", patroni_url |-> "none", patroni_password |-> "none"]}}

MCMaxSaves == [grants |-> 1, roles |-> 1, server |-> 2, admin |-> 1]
MCMaxForeign == [grants |-> 1, roles |-> 1, server |-> 1, admin |-> 1]
MCStart == [grants |-> GrantStart, roles |-> RoleStart, server |-> ServerStart, admin |-> AdminStart]
=============================================================================

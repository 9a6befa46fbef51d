----------------------------- MODULE MCAccounts -----------------------------
(* Instances of Accounts for TLC.                                          *)
EXTENDS Accounts, TLC

CONSTANTS a1, a2, r1, r2, r3, w1, w2

(* One process on SQLite: everybody who writes a role                      *)
OneProcess ==
    [workerOf |-> (r1 :> w1 @@ r2 :> w1), postgres |-> FALSE, sso |-> {a2},
     idpRoles |-> {"viewer", "admin"}, cliRoles |-> {"operator"}, firstRoles |-> Role,
     newRoles |-> {"viewer", "admin"}, signIns |-> {}, resets |-> FALSE]

(* ... and who writes a password, with logins meanwhile                    *)
Passwords ==
    [OneProcess EXCEPT !.idpRoles = {}, !.cliRoles = {}, !.newRoles = {"viewer"},
                       !.signIns = {a1}, !.resets = TRUE]

(* r1 and r2 share a process, r3 has its own, on PostgreSQL: admins demote *)
(* and delete each other                                                   *)
TwoProcesses ==
    [OneProcess EXCEPT !.workerOf = (r1 :> w1 @@ r2 :> w1 @@ r3 :> w2), !.postgres = TRUE,
                       !.sso = {}, !.idpRoles = {}, !.cliRoles = {},
                       !.firstRoles = {"viewer", "admin"}, !.newRoles = {"viewer"}]

(* ... and promote each other and sign in                                  *)
Promotions ==
    [TwoProcesses EXCEPT !.workerOf = (r1 :> w1 @@ r3 :> w2), !.firstRoles = Role,
                         !.newRoles = {"viewer", "admin"}, !.signIns = {a2}]

MCDeployment == {OneProcess, Passwords, TwoProcesses, Promotions}
OnlyPromotions == {Promotions}

(* Every account change that was started ends, though an asyncio.Lock and  *)
(* row locks are taken one inside the other in several processes           *)
(* (users.py:71).  r2 is to r1 as r1 to r2, and r3 waits for rows only.    *)
ChangesEnd == Ends(r1)
=============================================================================

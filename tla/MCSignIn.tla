------------------------------ MODULE MCSignIn ------------------------------
(* Two concurrent requests from two addresses; one enrolled administrator   *)
(* and one account without a second factor.                                 *)
EXTENDS SignIn

MCSourceOf == [c \in Clients |-> IF c = CHOOSE d \in Clients : TRUE THEN "s1" ELSE "s2"]
MCStart == <<[Row("ann", "admin", FALSE) EXCEPT !.enabled = TRUE, !.secret = 1, !.last = 0],
             Row("bob", "admin", FALSE)>>

Load(ops, count, until) == [ops |-> ops, requests |-> count, time |-> until]
MCLoads == {Load({"login", "stepUp"}, 4, 6),
            Load({"login", "fault"}, 3, 2),
            Load({"login", "update"}, 3, 3),
            Load({"login", "loginMFA", "setup", "verify", "disable"}, 4, 2),
            Load({"stepUp", "guarded", "setup", "verify"}, 4, 3),
            Load({"stepUp", "guarded", "disable", "update"}, 3, 2),
            Load({"create", "update", "delete", "restart"}, 3, 1)}
=============================================================================

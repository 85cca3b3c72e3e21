------------------------------ MODULE MCAccess ------------------------------
(* Two concurrent requests, two names beside the service account's, rules   *)
(* of one account and of two listeners, one of which has no row.            *)
EXTENDS Access

MCSymmetry == Permutations(Clients)

MCPrincipals == <<"ann", "bob", "svc">>
MCListenerIds == <<"l1", "l2">>
MCNames == {"ann", "bob", "svc"}
MCRows == {"l1"}
MCStart == <<[name |-> "ann", hash |-> 1, disabled |-> FALSE],
             [name |-> "svc", hash |-> 2, disabled |-> FALSE]>>
MCDeclared == [l \in MCRows |-> "other"]

PoolRule(sel, who, listener) ==
  [sel |-> sel, who |-> who, scope |-> IF listener = "" THEN "" ELSE "listener", listener |-> listener,
   filter |-> <<"a">>, perm |-> "read"]

MCPool == {PoolRule("", "ann", ""), PoolRule("pattern", "", "l1"), PoolRule("user", "bob", "l2")}

\* A restart takes the place of a request.
Bounded == ops + restarts <= MaxOps
=============================================================================

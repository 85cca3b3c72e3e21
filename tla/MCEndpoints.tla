---------------------------- MODULE MCEndpoints ----------------------------
EXTENDS Endpoints, TLC

Listener(id, port, protocol, tls, mutual) ==
  [id |-> id, port |-> port, protocol |-> protocol, tls |-> tls, mutual |-> mutual]

\* No listener; one bound to the profile; two protocols on one
\* port, which Validate accepts and the table of listeners does not.
MCPlans ==
  { {},
    {Listener("l2", 8883, "mqtt", TRUE, FALSE)},
    {Listener("l3", 1884, "mqtt", FALSE, FALSE), Listener("l4", 1884, "websockets", FALSE, FALSE)} }

\* The broker does not start with the two listeners on one port either.
MCRefusedPlans == {plan \in MCPlans : Cardinality(plan) = 2}

\* No property tells clients or revisions apart.
MCSymmetry == Permutations(Clients) \union Permutations(Revisions)
=============================================================================

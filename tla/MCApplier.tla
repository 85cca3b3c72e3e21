------------------------------ MODULE MCApplier ------------------------------
(***************************************************************************)
(* Applier for TLC: the broker-wide ACL file, one listener's ACL file and  *)
(* the password file, one non-empty content.                               *)
(***************************************************************************)
EXTENDS Applier

MCPath == {"acl", "listener", "passwd"}
MCRank == [p \in MCPath |-> CASE p = "acl" -> 1 [] p = "listener" -> 2 [] OTHER -> 3]

\* Write the listener's file, delete it, or leave it alone; all bodies new or
\* all empty; every snapshot.
MCRequests ==
    {[write  |-> MCPath \ L, remove |-> R,
      body   |-> [p \in MCPath |-> b], snap |-> s] :
        L \in SUBSET {"listener"}, R \in SUBSET {"listener"},
        b \in Body \cup {Blank}, s \in [MCPath -> Body \cup {Blank}]}

MCRequestsWF == {q \in MCRequests : q.write \cap q.remove = {}}
=============================================================================

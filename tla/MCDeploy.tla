------------------------------ MODULE MCDeploy ------------------------------
(***************************************************************************)
(* Deploy for TLC: the broker-wide ACL file, one listener's file and the   *)
(* password file, with two versions of the managed content.                *)
(***************************************************************************)
EXTENDS Deploy, TLC

MCPath == {"acl", "listener", "passwd"}
MCBody == Version \cup {Foreign} \cup PasswdBody

\* Revisions and deployments are interchangeable.
Symmetry == Permutations(Rev) \cup Permutations(Dep) \cup Permutations(Version)

\* One change of what is rendered, by a mutation or by an adoption, and an
\* adoption or a failing call.
OneChange == edits + adopts <= 1 /\ adopts + faults <= 1
=============================================================================

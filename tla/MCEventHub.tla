----------------------------- MODULE MCEventHub -----------------------------
(***************************************************************************)
(* EventHub for TLC: all the streams belong to one account.                *)
(***************************************************************************)
EXTENDS EventHub

MCUserOf == [s \in Stream |-> CHOOSE u \in User : TRUE]
=============================================================================

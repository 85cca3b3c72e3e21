----------------------------- MODULE ApplierSpec -----------------------------
(***************************************************************************)
(* What mosquitto.Applier.Apply promises its caller (applier.go): a        *)
(* request names the files to write, the files to delete and, for each of  *)
(* them, the content to put back when the call cannot complete.  However   *)
(* the call ends, its effect on the disk is one of the Outcomes of         *)
(* ManagedFiles, and the error class it returns tells which.               *)
(*                                                                         *)
(* The deploy service (module Deploy) is written against these outcomes;   *)
(* module Applier is the step-by-step code and implements them.            *)
(***************************************************************************)
EXTENDS ManagedFiles

VARIABLES
    disk,       \* [Path -> Content]
    req,        \* the request of the current or the last call
    result      \* "none", "busy" during a call, or the result of the last one

vars == <<disk, req, result>>

Init == /\ disk \in [Path -> Content]
        /\ req \in Request
        /\ result = "none"

Call == /\ result # "busy"
        /\ WellFormed(req')
        /\ result' = "busy"
        /\ UNCHANGED disk

Return == /\ result = "busy"
          /\ <<result', disk'>> \in Outcomes(disk, req)
          /\ UNCHANGED req

Next == Call \/ Return

Spec == Init /\ [][Next]_vars
=============================================================================

--------------------------- MODULE MCBrokerConfig ---------------------------
(***************************************************************************)
(* BrokerConfig for TLC: two reload-only values; a restart-only value, the *)
(* same one with a directive in another listener block, and one the broker *)
(* does not start with, known to the catalog in one configuration of the   *)
(* two that have it.                                                       *)
(***************************************************************************)
EXTENDS BrokerConfig, TLC

MCSoft == {"s1", "s2"}
MCHard == {"h1", "moved", "bad"}
MCNames == [h \in MCHard |-> IF h = "moved" THEN "h1" ELSE h]
MCTexts == {t \in Body : t.hard = "moved" => t.soft = "s1"}
MCInstalled == {[soft |-> "s1", hard |-> "h1"]}
MCBad == {"bad"}
MCInvalid == {[soft |-> "s2", hard |-> "bad"]}

MCAdapters == {"signal", "restart"}
MCReloadCommand == {"reload"}

Symmetry == Permutations(Rev) \cup Permutations(Include)
=============================================================================

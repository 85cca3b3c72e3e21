--------------------------- MODULE MCBrokerMonitor ---------------------------
(***************************************************************************)
(* BrokerMonitor for TLC.                                                  *)
(***************************************************************************)
EXTENDS BrokerMonitor
=============================================================================

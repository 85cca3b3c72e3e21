---------------------------- MODULE BrokerHost ----------------------------
(* What the certificate service and the listener service share: the files   *)
(* the broker reads when it starts (mosquitto.conf and the active link of    *)
(* the certificate profile), the rows of listener_specs, the broker process  *)
(* and the runner that restarts it.                                          *)
EXTENDS Naturals, FiniteSets

CONSTANTS
  Revisions,    \* identifiers of certificate revisions of the one profile
  NoRevision,   \* no active link
  CARevisions,  \* the revisions whose material carries a certificate authority
  Plans,        \* the listener configurations an operator may ask for, none among them
  RefusedPlans, \* those the broker does not start with for a reason MCM does not
                \* check: a port in use, an option it does not know
  MaxEdits,     \* bound: writes of mosquitto.conf by somebody else
  Composed      \* a docker compose runner is configured (else NoopRestartRunner)

ASSUME HostAssumption ==
  /\ NoRevision \notin Revisions
  /\ CARevisions \subseteq Revisions
  /\ {} \in Plans
  /\ RefusedPlans \subseteq Plans \ {{}}
  /\ MaxEdits \in Nat
  /\ Composed \in BOOLEAN

VARIABLES
  link,      \* target of <profile>/active, or NoRevision
  material,  \* files of each revision: "none", "partial" or "complete"
  conf,      \* mosquitto.conf: [head: who wrote the rest last, block: listeners]
  lrows,     \* listener_specs: the specs MCM has persisted
  broker,    \* what the running broker loaded: [up, block, cert]
  edits,     \* history: number of the last write of the rest of mosquitto.conf
  clean,     \* history: no crash, no overlapping applies, and no file or link
             \* that could not be put back
  marked,    \* history: every change of a row to active or superseded was written
  served     \* history: no restart since the last one that succeeded failed after
             \* it reached the broker, and none of a recovery failed

hostVars == <<link, material, conf, lrows, broker, edits, clean, marked, served>>

Edits == 0..MaxEdits
Links == Revisions \union {NoRevision}

HostTypeOK ==
  /\ link \in Links
  /\ material \in [Revisions -> {"none", "partial", "complete"}]
  /\ conf \in [head : Edits, block : Plans]
  /\ lrows \in Plans
  /\ broker \in [up : BOOLEAN, block : Plans, cert : Links]
  /\ edits \in Edits
  /\ clean \in BOOLEAN /\ marked \in BOOLEAN /\ served \in BOOLEAN

HostInit ==
  /\ link = NoRevision
  /\ material = [r \in Revisions |-> "none"]
  /\ conf = [head |-> 0, block |-> {}]
  /\ lrows = {}
  /\ broker = [up |-> TRUE, block |-> {}, cert |-> NoRevision]
  /\ edits = 0
  /\ clean = TRUE /\ marked = TRUE /\ served = TRUE

\* The listeners that serve the certificate of the profile.
Bound(plan) == {s \in plan : s.tls}

\* Mosquitto reads both files when it starts, and exits when a listener names
\* a certificate that is not there or cannot be served as configured. The
\* command that started it does not wait for that.
Loaded ==
  [up    |-> (Bound(conf.block) # {} => link # NoRevision) /\ conf.block \notin RefusedPlans,
   block |-> conf.block,
   cert  |-> link]

\* Restart of the runner. The compose command may fail before or after it
\* reached the broker (a cancelled request kills the command, not the daemon),
\* also when it is the restart of a recovery; the no-op runner only records the
\* call.
RestartSucceeds ==
  /\ broker' = IF Composed THEN Loaded ELSE broker
  /\ served' = TRUE

RestartFails(recovering) ==
  /\ Composed
  /\ broker' \in {broker, Loaded}
  /\ served' = (served /\ ~recovering /\ broker' = broker)
=============================================================================

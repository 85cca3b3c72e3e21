----------------------------- MODULE Endpoints -----------------------------
(* The certificate service and the listener service together: both restart   *)
(* the broker, a listener names the certificate of a profile, and the        *)
(* verification of a certificate reads the rows of the listeners.            *)
EXTENDS Listeners

CONSTANT MaxApplies   \* bound: applies of certificates and of listeners

ASSUME AppliesAssumption == MaxApplies \in Nat

VARIABLE begun        \* applies begun so far

vars == <<hostVars, certVars, listenerVars, begun>>

Busy == la.pc # "idle" \/ \E c \in Clients : Applying(c)

Quiet == la.pc = "idle" /\ \A c \in Clients : req[c].pc = "idle"

Init == HostInit /\ CertInit /\ ListenerInit /\ begun = 0

\* MCM stops: the requests and the previews are gone, the files and the rows
\* are not. An idle MCM loses its previews only.
Crash ==
  /\ ~Quiet
  /\ req' = [c \in Clients |-> NoRequest]
  /\ la' = NoApply
  /\ previews' = << >>
  /\ clean' = FALSE /\ marked' = FALSE
  /\ UNCHANGED <<link, material, conf, lrows, broker, edits, served, profile, crows, tmp, begun>>

Begin ==
  /\ begun < MaxApplies
  /\ begun' = begun + 1
  /\ \/ \E c \in Clients, r \in Revisions :
          BeginApply(c, r, Busy) /\ UNCHANGED listenerVars
     \/ \E p \in PreviewIds : BeginListenerApply(p, Busy)

CertStep(c) == (CreateStep(c) \/ ApplyStep(c)) /\ UNCHANGED <<listenerVars, begun>>

Upload(c) ==
  (\E r \in Revisions : SaveRevision(c, r)) /\ UNCHANGED <<listenerVars, begun>>

PreviewStep ==
  /\ \E p \in PreviewIds :
       \/ \E plan \in Plans : Preview(p, plan)
       \/ Expire(p) \/ ApplyExpired(p)
  /\ UNCHANGED begun

Next ==
  \/ \E c \in Clients : Upload(c) \/ CertStep(c)
  \/ PreviewStep
  \/ ListenerStep /\ UNCHANGED begun
  \/ EditElsewhere /\ UNCHANGED begun
  \/ Begin
  \/ Crash

Spec == Init /\ [][Next]_vars

-----------------------------------------------------------------------------
\* Types of the files, the rows, the requests and the previews.
TypeOK == HostTypeOK /\ CertTypeOK /\ ListenerTypeOK /\ begun \in 0..MaxApplies

\* Whatever fails, crashes or interleaves: a recorded revision has all its
\* files, and the active link points at a recorded revision. SaveRevision
\* writes before the row is inserted and only unrecorded material is discarded.
MaterialBehindRows ==
  /\ \A r \in Revisions : crows[r] # "none" => material[r] = "complete"
  /\ link # NoRevision => crows[link] # "none"

\* Without overlapping applies, crashes and files that could not be put back,
\* whatever restarts, handshakes, activations and row updates failed before:
\* mosquitto.conf holds the persisted listeners; the revision recorded active is
\* the one the link points at, unless the update of a row's state failed after
\* the switch; and the broker loaded those listeners and that certificate, and is
\* up with them if it starts with them at all, unless the last restart failed
\* after it reached the broker or in a recovery.
BrokerRunsRecorded ==
  clean /\ Quiet =>
    /\ conf.block = lrows
    /\ marked => ListProfiles.recorded = {ListProfiles.active} \ {NoRevision}
    /\ Composed /\ served =>
         broker = [up |-> lrows \notin RefusedPlans, block |-> lrows, cert |-> link]

\* "If the restart fails, the snapshot from step 1 is restored BEFORE the function
\* returns, so the broker never sees a half-applied configuration"
\* (internal/listener/listener_service.go:321-323): between the requests the broker
\* runs the listeners that are persisted. Not kept: the command may fail after
\* it restarted the broker, and what it loaded is not taken back.
HalfAppliedNeverSeen ==
  clean /\ Quiet /\ Composed => broker.block = lrows

\* "The active revision is read from the certificate store, so the reported state
\* always matches the material the broker reads" (certificate/service.go:404-405):
\* the broker reads one revision, and no second one is reported active. Not kept:
\* two applies that read the same previous revision leave both rows active.
OneReportedActive ==
  marked /\ Quiet => Cardinality(ListProfiles.recorded) <= 1

\* A write of the rest of mosquitto.conf that does not overlap an apply of the
\* listeners survives every later apply, successful or rolled back.
EditKept == clean => conf.head = edits
=============================================================================

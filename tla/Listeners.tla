----------------------------- MODULE Listeners -----------------------------
(* The listener service: an immutable preview of the desired listeners, and  *)
(* an apply that splices them into mosquitto.conf, restarts the broker and   *)
(* then replaces the rows of listener_specs, undoing the file when a later   *)
(* step fails.                                                               *)
EXTENDS Certificates

CONSTANT PreviewIds   \* bound: previews the service holds at a time

VARIABLES
  previews,  \* the in-memory previews
  la         \* the one apply in progress (inProgress)

listenerVars == <<previews, la>>

NoApply == [pc |-> "idle", id |-> 0, plan |-> {}, head |-> 0,
            snap |-> [head |-> 0, block |-> {}], cause |-> "none"]

ListenerTypeOK ==
  /\ DOMAIN previews \subseteq PreviewIds
  /\ \A p \in DOMAIN previews :
       previews[p] \in [plan : Plans, consumed : BOOLEAN, expired : BOOLEAN]
  /\ la \in [pc : {"idle", "resolve", "snapshot", "read", "write", "restart", "persist",
                   "restore", "compensate", "consume"},
             id : PreviewIds \union {0}, plan : Plans, head : Edits,
             snap : [head : Edits, block : Plans], cause : {"none", "write", "restart", "persist"}]

ListenerInit ==
  /\ previews = << >>
  /\ la = NoApply

\* resolveTLSMaterialFor reports no issue for any listener of the plan.
NoResolveIssue(plan) ==
  \A s \in Bound(plan) : Resolvable /\ (s.mutual => link \in CARevisions)

\* Validate: no two listeners with the same port, bind and protocol.
NoValidateIssue(plan) ==
  \A s, t \in plan : s # t => <<s.port, s.protocol>> # <<t.port, t.protocol>>

\* listenerSpecBindingAvailable is stricter: one row for a port and bind.
BindingsAvailable(plan) == \A s, t \in plan : s # t => s.port # t.port

\* ReplaceAllListenerSpecs: one transaction, refused as a whole.
ReplaceAllListenerSpecs(plan) == BindingsAvailable(plan) /\ lrows' = plan

\* gcPreviewsLocked keeps the previews that have not expired.
LivePreviews == {q \in DOMAIN previews : ~previews[q].expired}

\* Preview stores the plan under a fresh identifier and drops the previews
\* that have expired.
Preview(p, plan) ==
  LET kept == LivePreviews
  IN /\ p \notin kept /\ p # la.id
     /\ NoResolveIssue(plan) /\ NoValidateIssue(plan)
     /\ previews' = [q \in kept \union {p} |->
                       IF q = p
                       THEN [plan |-> plan, consumed |-> FALSE, expired |-> FALSE]
                       ELSE previews[q]]
     /\ UNCHANGED <<hostVars, certVars, la>>

\* The time to live of a preview passes.
Expire(p) ==
  /\ p \in DOMAIN previews
  /\ ~previews[p].expired
  /\ previews' = [previews EXCEPT ![p].expired = TRUE]
  /\ UNCHANGED <<hostVars, certVars, la>>

-----------------------------------------------------------------------------
(* Apply.                                                                    *)

To(pc) == la' = [la EXCEPT !.pc = pc]

Done == la' = NoApply

\* An expired preview is forgotten.
ApplyExpired(p) ==
  /\ p \in DOMAIN previews
  /\ previews[p].expired
  /\ previews' = [q \in DOMAIN previews \ {p} |-> previews[q]]
  /\ UNCHANGED <<hostVars, certVars, la>>

BeginListenerApply(p, busy) ==
  /\ p \in DOMAIN previews
  /\ ~previews[p].expired
  /\ ~previews[p].consumed
  /\ la.pc = "idle"
  /\ la' = [NoApply EXCEPT !.pc = "resolve", !.id = p, !.plan = previews[p].plan]
  /\ clean' = (clean /\ ~busy)
  /\ UNCHANGED <<link, material, conf, lrows, broker, edits, marked, served, certVars, previews>>

ResolveMaterial ==
  /\ la.pc = "resolve"
  /\ IF NoResolveIssue(la.plan) THEN To("snapshot") ELSE Done
  /\ UNCHANGED <<hostVars, certVars, previews>>

Snapshot ==
  /\ la.pc = "snapshot"
  /\ \/ la' = [la EXCEPT !.pc = "read", !.snap = conf]
     \/ Done
  /\ UNCHANGED <<hostVars, certVars, previews>>

\* Write, first half: renderHead reads the file again, the checks run and the
\* block is rendered.
WriteRead ==
  /\ la.pc = "read"
  /\ \/ la' = [la EXCEPT !.pc = "write", !.head = conf.head]
     \/ la' = [la EXCEPT !.pc = "restore", !.cause = "write"]
  /\ UNCHANGED <<hostVars, certVars, previews>>

\* Mutant: the rest of the file is rendered from scratch.
WriteFileBare ==
  /\ la.pc = "write"
  /\ conf' = [head |-> 0, block |-> la.plan] /\ To("restart")
  /\ UNCHANGED <<link, material, lrows, broker, edits, clean, marked, served, certVars, previews>>

\* Write, second half: AtomicWriteConf.
WriteFile ==
  /\ la.pc = "write"
  /\ \/ conf' = [head |-> la.head, block |-> la.plan] /\ To("restart")
     \/ la' = [la EXCEPT !.pc = "restore", !.cause = "write"] /\ UNCHANGED conf
  /\ UNCHANGED <<link, material, lrows, broker, edits, clean, marked, served, certVars, previews>>

RestartListeners ==
  /\ la.pc = "restart"
  /\ \/ RestartSucceeds /\ To("persist")
     \/ /\ RestartFails(FALSE)
        /\ la' = [la EXCEPT !.pc = "restore", !.cause = "restart"]
  /\ UNCHANGED <<link, material, conf, lrows, edits, clean, marked, certVars, previews>>

PersistRows ==
  /\ la.pc = "persist"
  /\ \/ ReplaceAllListenerSpecs(la.plan) /\ To("consume")
     \/ la' = [la EXCEPT !.pc = "restore", !.cause = "persist"] /\ UNCHANGED lrows
  /\ UNCHANGED <<link, material, conf, broker, edits, clean, marked, served, certVars, previews>>

\* Restore writes the snapshot back. Only a failure after the restart is
\* followed by a second restart.
Restore ==
  /\ la.pc = "restore"
  /\ \/ /\ conf' = la.snap
        /\ IF la.cause = "persist" THEN To("compensate") ELSE Done
        /\ UNCHANGED clean
     \/ Done /\ clean' = FALSE /\ UNCHANGED conf
  /\ UNCHANGED <<link, material, lrows, broker, edits, marked, served, certVars, previews>>

Compensate ==
  /\ la.pc = "compensate"
  /\ RestartSucceeds \/ RestartFails(TRUE)
  /\ Done
  /\ UNCHANGED <<link, material, conf, lrows, edits, clean, marked, certVars, previews>>

\* The entry is read again under the lock: one that was collected meanwhile
\* comes back empty, consumed and long expired.
Consume ==
  LET zero == [plan |-> {}, consumed |-> TRUE, expired |-> TRUE]
  IN /\ la.pc = "consume"
     /\ previews' = [q \in DOMAIN previews \union {la.id} |->
                       IF q # la.id THEN previews[q]
                       ELSE IF q \in DOMAIN previews
                            THEN [previews[q] EXCEPT !.consumed = TRUE] ELSE zero]
     /\ Done
     /\ UNCHANGED <<hostVars, certVars>>

ListenerStep ==
  \/ ResolveMaterial \/ Snapshot \/ WriteRead \/ WriteFile \/ RestartListeners
  \/ PersistRows \/ Restore \/ Compensate \/ Consume

-----------------------------------------------------------------------------
\* The broker-config flow, or an operator, rewrites the rest of
\* mosquitto.conf and keeps its listener blocks.
EditElsewhere ==
  /\ edits < MaxEdits
  /\ edits' = edits + 1
  /\ conf' = [conf EXCEPT !.head = edits + 1]
  /\ clean' = (clean /\ la.pc = "idle")
  /\ UNCHANGED <<link, material, lrows, broker, marked, served, certVars, listenerVars>>
=============================================================================

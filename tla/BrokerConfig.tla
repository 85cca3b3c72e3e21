----------------------------- MODULE BrokerConfig -----------------------------
(***************************************************************************)
(* The deployment of mosquitto.conf (internal/deploy/service.go from       *)
(* PreviewBrokerConfig on, broker_config_*.go): a preview of a draft or of *)
(* a form (settings, bridges, plugins) becomes a revision; an apply checks *)
(* it, records a deployment, consumes the revision, writes the file,       *)
(* reloads or restarts the broker, verifies it and recovers when it        *)
(* cannot.                                                                 *)
(*                                                                         *)
(* A configuration is what a reload activates (soft) and what only a       *)
(* restart activates (hard).  An apply holds the mutation lock: previews   *)
(* and adoptions happen while no apply runs.                               *)
(***************************************************************************)
EXTENDS Naturals

CONSTANTS
    Soft, Hard,     \* values of the reload-only and of the other directives
    Names,          \* of a value in Hard: what it gives each directive name,
                    \* whatever listener block the directive stands in
    Bad,            \* hard values the broker refuses to start with
    Invalid,        \* configurations the catalog reports an error for
    Installed,      \* configurations the broker runs when MCM first starts
    Texts,          \* configurations operators write, by hand or in a preview
    Include,        \* contents of the included files
    Down,           \* the broker does not run
    Rev, MaxDep,    \* revisions; bound: deployments
    Adapters,       \* the adapters considered: "signal" cannot restart the
                    \* broker, "restart" can, and "reload" has a ReloadCommand
                    \* that MCM takes for a restart and that only reloads it
    MaxEdits,       \* bound: edits of the files and restarts by hand
    MaxFaults       \* bound: failing calls and crashes

Body == [soft : Soft, hard : Hard]
Dep == 1 .. MaxDep
Kinds == {"broker_config", "bridges"}   \* "plugins" and "dynsec" are as "bridges"
Editors == {"draft", "form"}

ASSUME BrokerConfigAssumption ==
    /\ Bad \subseteq Hard
    /\ Names = [h \in Hard |-> Names[h]]
    /\ Invalid \subseteq Body
    /\ Installed \subseteq {b \in Body : b.hard \notin Bad}
    /\ Texts \subseteq Body
    /\ Down \notin Body
    /\ MaxDep \in Nat \ {0} /\ MaxEdits \in Nat /\ MaxFaults \in Nat
    /\ Adapters \subseteq {"signal", "reload", "restart"}

VARIABLES
    conf, incl,     \* the root file and the files it includes
    running, hup,   \* the configuration the broker runs; a pending SIGHUP
    adapter,        \* the applier MCM was started with
    revState,       \* broker_config_revisions: "absent", "open", "applied"
    revs,           \* what a revision recorded
    covered,        \* revisions the latest adoption is newer than
    deps,           \* deployments in the order of their ids
    phase, cur,     \* the running apply: its revision, deployment and kind,
                    \* and needsRestart
    verdict,        \* the status it is about to record
    live,           \* its request context is not cancelled
    writes,         \* history: how often a revision was written to the file
    edits, faults

files == <<conf, incl>>
broker == <<running, hup, adapter>>
reviews == <<revState, revs, covered>>
apply == <<cur, verdict, live>>
vars == <<files, broker, reviews, deps, phase, apply, writes, edits, faults>>

Phases == {"idle", "insert", "applying", "consume", "write", "signal", "verify",
           "restore", "resignal", "reverify", "finish"}
Final == {"active_verified", "failed", "rolled_back", "rollback_failed"}
Statuses == Final \cup {"none", "saved", "applying", "pending_activation"}

Revision == [base : Body, body : Body, editor : Editors, incl : Include]

TypeOK ==
    /\ conf \in Body /\ incl \in Include
    /\ running \in Body \cup {Down} /\ hup \in BOOLEAN /\ adapter \in Adapters
    /\ revState \in [Rev -> {"absent", "open", "applied"}]
    /\ covered \in SUBSET Rev
    /\ revs \in [Rev -> Revision]
    /\ deps \in [Dep -> [rev : Rev, kind : Kinds, status : Statuses]]
    /\ phase \in Phases
    /\ cur \in [rev : Rev, dep : Dep, kind : Kinds, restart : BOOLEAN]
    /\ verdict \in Statuses
    /\ live \in BOOLEAN
    /\ writes \in [Rev -> Nat]
    /\ edits \in 0 .. MaxEdits /\ faults \in 0 .. MaxFaults

\* CanRestart: a container name or a reload command is configured.
CanRestart == adapter # "signal"

\* Mosquitto started on a configuration.
Boot(c) == IF c.hard \in Bad THEN Down ELSE c

\* A SIGHUP on it: a configuration it cannot accept is ignored.
Reloaded(c) == IF running = Down \/ c.hard \in Bad THEN running
               ELSE [running EXCEPT !.soft = c.soft]

Init ==
    /\ conf \in Installed /\ incl \in Include
    /\ running = conf /\ hup = FALSE /\ adapter \in Adapters
    /\ revState = [r \in Rev |-> "absent"] /\ covered = {}
    /\ revs = [r \in Rev |-> [base |-> conf, body |-> conf, editor |-> "draft", incl |-> incl]]
    /\ cur \in [rev : Rev, dep : {1}, kind : {"broker_config"}, restart : {FALSE}]
    /\ deps = [d \in Dep |-> [rev |-> cur.rev, kind |-> "broker_config", status |-> "none"]]
    /\ phase = "idle" /\ verdict = "none" /\ live = FALSE
    /\ writes = [r \in Rev |-> 0]
    /\ edits = 0 /\ faults = 0
-----------------------------------------------------------------------------
\* The root file or an include is edited by hand, or the broker is bounced.
EditConf(b) ==
    /\ phase = "idle" /\ edits < MaxEdits /\ b # conf
    /\ conf' = b
    /\ edits' = edits + 1
    /\ UNCHANGED <<incl, broker, reviews, deps, phase, apply, writes, faults>>

EditInclude(i) ==
    /\ phase = "idle" /\ edits < MaxEdits /\ i # incl
    /\ incl' = i
    /\ edits' = edits + 1
    /\ UNCHANGED <<conf, broker, reviews, deps, phase, apply, writes, faults>>

Bounce ==
    /\ phase = "idle" /\ edits < MaxEdits
    /\ running' = Boot(conf) /\ hup' = FALSE
    /\ edits' = edits + 1
    /\ UNCHANGED <<files, adapter, reviews, deps, phase, apply, writes, faults>>

\* previewBrokerConfigLocked: a draft with a catalog error is refused, the
\* unchanged file is stored whatever the catalog says.  The settings, bridges
\* and plugins forms store the same row without a snapshot of the includes, and
\* have no directive of a listener block to move.
Preview(r, b, e) ==
    /\ phase = "idle" /\ revState[r] = "absent"
    /\ e = "draft" => b = conf \/ b \notin Invalid
    /\ e = "form" => b.hard = conf.hard \/ Names[b.hard] # Names[conf.hard]
    /\ revs' = [revs EXCEPT ![r] = [base |-> conf, body |-> b, editor |-> e, incl |-> incl]]
    /\ revState' = [revState EXCEPT ![r] = "open"]
    /\ UNCHANGED <<files, broker, covered, deps, phase, apply, writes, edits, faults>>

\* A new adoption row is newer than every revision there is.
AdoptionRecorded == covered' = {r \in Rev : revState[r] # "absent"}

AdoptBrokerConfig ==
    /\ phase = "idle"
    /\ AdoptionRecorded
    /\ UNCHANGED <<files, broker, revState, revs, deps, phase, apply, writes, edits, faults>>

\* checkBrokerConfigIncludes, where the revision has a snapshot.
IncludesMatch(r) == revs[r].editor = "draft" => revs[r].incl = incl

\* brokerConfigImpact, for a draft, compares the values each directive name has
\* in the whole file: a directive moved between two blocks is no change to it.
\* classifyChangedDirectives looks at the directives a form changed, which has
\* none in a listener block; classifyReload, for a draft applied as another kind,
\* looks at the whole file, which has a listener at least.
RequiresRestart(r, k) ==
    IF revs[r].editor = "form" THEN revs[r].body.hard # revs[r].base.hard
    ELSE k # "broker_config" \/ Names[revs[r].body.hard] # Names[revs[r].base.hard]

kindNeedsRestart(k) == k = "bridges"

\* Mutant: the base of the revision is not compared with the file.
AnyBase(r) == TRUE
BaseMatches(r) == conf = revs[r].base

\* applyBrokerConfigRevision up to the first row it writes.  A revision that
\* expired and a verification that is not available are refused without any
\* effect: such an apply does not begin.
BeginApply(r, d, k, force, adopt) ==
    /\ phase = "idle"
    /\ deps[d].status = "none" /\ \A e \in 1 .. d - 1 : deps[e].status # "none"
    /\ revState[r] = "open"
    /\ BaseMatches(r)
    /\ IncludesMatch(r)
    /\ k = "broker_config" => revs[r].body \notin Invalid
    /\ RequiresRestart(r, k) => force /\ (k = "broker_config" => CanRestart)
    /\ IF adopt THEN AdoptionRecorded ELSE r \in covered /\ UNCHANGED covered
    /\ cur' = [rev |-> r, dep |-> d, kind |-> k,
               restart |-> RequiresRestart(r, k) \/ kindNeedsRestart(k)]
    /\ phase' = "insert" /\ live' = TRUE /\ verdict' = "none"
    /\ UNCHANGED <<files, broker, revState, revs, deps, writes, edits, faults>>
-----------------------------------------------------------------------------
Fault == faults < MaxFaults /\ faults' = faults + 1
CtxFails == (~live /\ UNCHANGED faults) \/ Fault
Goto(p) == phase' = p
Done == Goto("idle") /\ live' = FALSE
SetStatus(s) == deps' = [deps EXCEPT ![cur.dep].status = s]
Decide(s) == Goto("finish") /\ verdict' = s

Inserted == deps' = [deps EXCEPT ![cur.dep] =
                        [rev |-> cur.rev, kind |-> cur.kind, status |-> "saved"]]

Insert ==
    /\ phase = "insert" /\ live
    /\ Inserted
    /\ Goto("applying")
    /\ UNCHANGED <<files, broker, reviews, apply, writes, edits, faults>>

InsertFails ==
    /\ phase = "insert" /\ CtxFails
    /\ Inserted \/ UNCHANGED deps
    /\ Done
    /\ UNCHANGED <<files, broker, reviews, cur, verdict, writes, edits>>

MarkApplying ==
    /\ phase = "applying"
    /\ SetStatus("applying")
    /\ Goto("consume")
    /\ UNCHANGED <<files, broker, reviews, apply, writes, edits, faults>>

MarkApplyingFails ==
    /\ phase = "applying" /\ Fault
    /\ Done
    /\ UNCHANGED <<files, broker, reviews, deps, cur, verdict, writes, edits>>

\* Mutant: the revision is left open.
ConsumeNothing ==
    /\ phase = "consume"
    /\ Goto("write")
    /\ UNCHANGED <<files, broker, reviews, deps, apply, writes, edits, faults>>

Consume ==
    /\ phase = "consume" /\ revState[cur.rev] = "open"
    /\ revState' = [revState EXCEPT ![cur.rev] = "applied"]
    /\ Goto("write")
    /\ UNCHANGED <<files, broker, revs, covered, deps, apply, writes, edits, faults>>

ConsumeFails ==
    /\ phase = "consume" /\ Fault
    /\ Decide("failed")
    /\ UNCHANGED <<files, broker, reviews, deps, cur, live, writes, edits>>

\* activateBrokerConfig: stat and AtomicWriteConf.
Write ==
    /\ phase = "write"
    /\ conf' = revs[cur.rev].body
    /\ writes' = [writes EXCEPT ![cur.rev] = @ + 1]
    /\ Goto("signal")
    /\ UNCHANGED <<incl, broker, reviews, deps, apply, edits, faults>>

\* When the stat fails the deployment is left "applying".
WriteFails ==
    /\ phase = "write" /\ Fault
    /\ \/ Decide("failed") /\ UNCHANGED live
       \/ Done /\ UNCHANGED verdict
    /\ UNCHANGED <<files, broker, reviews, deps, cur, writes, edits>>

\* What the deployment is after the broker was signalled.
Signalled(restarted) ==
    IF cur.restart /\ ~restarted THEN Decide("pending_activation")
    ELSE IF cur.kind # "broker_config" THEN Decide("active_verified")
    ELSE Goto("verify") /\ UNCHANGED verdict

\* RestartBroker: the docker applier restarts the container, the file applier
\* runs the operator's command.
BrokerRestarted == IF adapter = "restart" THEN running' = Boot(conf) /\ hup' = FALSE
                               ELSE hup' = TRUE /\ UNCHANGED running

Restart ==
    /\ phase = "signal" /\ cur.restart /\ CanRestart /\ live
    /\ BrokerRestarted
    /\ Signalled(TRUE)
    /\ UNCHANGED <<files, adapter, reviews, deps, cur, live, writes, edits, faults>>

\* Cut off by the client that left, or failed: the broker may have restarted.
RestartFails ==
    /\ phase = "signal" /\ cur.restart /\ CanRestart /\ CtxFails
    /\ BrokerRestarted \/ UNCHANGED broker
    /\ Goto("restore")
    /\ UNCHANGED <<files, adapter, reviews, deps, apply, writes, edits>>

\* ReloadBrokerOnly, also when a restart is needed and not supported.
Reload ==
    /\ phase = "signal" /\ ~(cur.restart /\ CanRestart)
    /\ hup' = TRUE
    /\ Signalled(FALSE)
    /\ UNCHANGED <<files, running, adapter, reviews, deps, cur, live, writes, edits, faults>>

ReloadFails ==
    /\ phase = "signal" /\ ~(cur.restart /\ CanRestart) /\ Fault
    /\ hup' \in {hup, TRUE}
    /\ Goto("restore")
    /\ UNCHANGED <<files, running, adapter, reviews, deps, apply, writes, edits>>

\* verifyActivation: the probe logs in and is allowed and denied what it should.
VerifyPasses ==
    /\ phase = "verify" /\ live /\ running # Down
    /\ Decide("active_verified")
    /\ UNCHANGED <<files, broker, reviews, deps, cur, live, writes, edits, faults>>

VerifyFails ==
    /\ phase = "verify"
    /\ Goto("restore")
    /\ UNCHANGED <<files, broker, reviews, deps, apply, writes, edits, faults>>

\* The managed files or the probe's user cannot be read any more.
VerifyUnavailable ==
    /\ phase = "verify" /\ CtxFails
    /\ Decide("pending_activation")
    /\ UNCHANGED <<files, broker, reviews, deps, cur, live, writes, edits>>
-----------------------------------------------------------------------------
\* Mutant: the recovery only signals the broker.
RestoreNothing ==
    /\ phase = "restore"
    /\ Goto("resignal")
    /\ UNCHANGED <<files, broker, reviews, deps, apply, writes, edits, faults>>

\* recoverBrokerConfig, on a context of its own.
Restore ==
    /\ phase = "restore"
    /\ conf' = revs[cur.rev].base
    /\ Goto("resignal")
    /\ UNCHANGED <<incl, broker, reviews, deps, apply, writes, edits, faults>>

RestoreFails ==
    /\ phase = "restore" /\ Fault
    /\ Decide("rollback_failed")
    /\ UNCHANGED <<files, broker, reviews, deps, cur, live, writes, edits>>

Recovered == IF cur.restart THEN Decide("rolled_back")
                            ELSE Goto("reverify") /\ UNCHANGED verdict

\* Mutant: the broker is not told about the restored file.
ResignalSkipped ==
    /\ phase = "resignal"
    /\ Recovered
    /\ UNCHANGED <<files, broker, reviews, deps, cur, live, writes, edits, faults>>

\* A broker that can be restarted is, whatever the change was.
Resignal ==
    /\ phase = "resignal"
    /\ IF CanRestart THEN BrokerRestarted ELSE hup' = TRUE /\ UNCHANGED running
    /\ Recovered
    /\ UNCHANGED <<files, adapter, reviews, deps, cur, live, writes, edits, faults>>

ResignalFails ==
    /\ phase = "resignal" /\ Fault
    /\ \/ UNCHANGED broker
       \/ IF CanRestart THEN BrokerRestarted ELSE hup' = TRUE /\ UNCHANGED running
    /\ Decide("rollback_failed")
    /\ UNCHANGED <<files, adapter, reviews, deps, cur, live, writes, edits>>

\* The probe passes, or cannot run: only the message differs.
Reverify ==
    /\ phase = "reverify"
    /\ running # Down \/ faults < MaxFaults
    /\ Decide("rolled_back")
    /\ faults' = IF running = Down THEN faults + 1 ELSE faults
    /\ UNCHANGED <<files, broker, reviews, deps, cur, live, writes, edits>>

ReverifyFails ==
    /\ phase = "reverify"
    /\ Decide("rollback_failed")
    /\ UNCHANGED <<files, broker, reviews, deps, cur, live, writes, edits, faults>>

Finish ==
    /\ phase = "finish"
    /\ SetStatus(verdict)
    /\ Done
    /\ UNCHANGED <<files, broker, reviews, cur, verdict, writes, edits, faults>>

FinishFails ==
    /\ phase = "finish" /\ Fault
    /\ Done
    /\ UNCHANGED <<files, broker, reviews, deps, cur, verdict, writes, edits>>
-----------------------------------------------------------------------------
Cancel ==
    /\ phase # "idle" /\ live
    /\ live' = FALSE
    /\ UNCHANGED <<files, broker, reviews, deps, phase, cur, verdict, writes, edits, faults>>

\* MCM dies between two steps; nothing resumes the apply.
Crash ==
    /\ phase # "idle" /\ Fault
    /\ Done
    /\ UNCHANGED <<files, broker, reviews, deps, cur, verdict, writes, edits>>

BrokerReload ==
    /\ hup
    /\ running' = Reloaded(conf)
    /\ hup' = FALSE
    /\ UNCHANGED <<files, adapter, reviews, deps, phase, apply, writes, edits, faults>>

Operator == \/ \E b \in Texts : EditConf(b)
            \/ \E i \in Include : EditInclude(i)
            \/ Bounce \/ AdoptBrokerConfig
            \/ \E r \in Rev, b \in Texts, e \in Editors : Preview(r, b, e)
            \/ \E r \in Rev, d \in Dep, k \in Kinds, force, adopt \in BOOLEAN :
                  BeginApply(r, d, k, force, adopt)

Step == \/ Insert \/ InsertFails \/ MarkApplying \/ MarkApplyingFails
        \/ Consume \/ ConsumeFails \/ Write \/ WriteFails
        \/ Restart \/ RestartFails \/ Reload \/ ReloadFails
        \/ VerifyPasses \/ VerifyFails \/ VerifyUnavailable
        \/ Restore \/ RestoreFails \/ Resignal \/ ResignalFails
        \/ Reverify \/ ReverifyFails \/ Finish \/ FinishFails

Next == Operator \/ Step \/ Cancel \/ Crash \/ BrokerReload

Spec == Init /\ [][Next]_vars
-----------------------------------------------------------------------------
\* WrittenOnce: a revision is written to mosquitto.conf at most once, and only
\* after it was consumed ("Every attempt consumes the revision, including an
\* attempt that rolls back", docs/configuration-workflow.md).
WrittenOnce == \A r \in Rev : writes[r] = 0 \/ (writes[r] = 1 /\ revState[r] = "applied")

\* HandEditKept: an apply overwrites only the bytes its preview was taken
\* against, and a recovery only what the apply wrote: an edit made by hand
\* between the preview and the apply survives.
HandEditKept ==
    [][phase # "idle" /\ conf' # conf =>
          conf = IF phase = "write" THEN revs[cur.rev].base ELSE revs[cur.rev].body]_vars

\* A draft that moves directives between blocks and changes no other.
Moved(r) ==
    /\ revs[r].editor = "draft"
    /\ revs[r].body.hard # revs[r].base.hard
    /\ Names[revs[r].body.hard] = Names[revs[r].base.hard]

Becomes(d, s) == deps[d].status # s /\ deps'[d].status = s

\* A status deployment d gets in this step is a true statement.
HonestStatus(d) ==
    LET rev == revs[deps[d].rev]
        root == deps[d].kind = "broker_config" IN
    /\ Becomes(d, "active_verified") =>
          /\ conf = rev.body
          /\ IF root /\ (rev.body.hard = rev.base.hard \/ Moved(deps[d].rev))
             THEN hup \/ running = Reloaded(rev.body)
             ELSE running = Boot(rev.body)
          /\ root => running # Down
    /\ Becomes(d, "rolled_back") =>
          /\ conf = rev.base
          /\ hup \/ running \in {Boot(rev.base), Reloaded(rev.base)}
    /\ Becomes(d, "failed") => conf = rev.base

\* StatusIsTrue: a deployment becomes active_verified only when the file is its
\* revision and the broker runs it: started on it when a restart-only directive
\* changed its values or the change is a bridge or a plugin ("`force` cannot turn SIGHUP
\* into restart", docs/configuration-workflow.md), signalled otherwise; it
\* becomes rolled_back only when the previous bytes are back and the broker was
\* told ("restored and the broker signalled again"), and failed only when they
\* never left.
StatusIsTrue == [][\A d \in Dep : HonestStatus(d)]_vars

\* "A restart-required change is refused unless the configured adapter actually
\* supports restart" (docs/configuration-workflow.md): where the broker cannot be
\* restarted no deployment of a root configuration changes what only a restart
\* activates.  brokerConfigImpact takes a directive that moved from one listener
\* block to another for unchanged, so that this does not hold.
RestartRefused ==
    adapter = "signal" =>
        \A d \in Dep : deps[d].status # "none" /\ deps[d].kind = "broker_config" =>
            revs[deps[d].rev].body.hard = revs[deps[d].rev].base.hard

\* Deployments whose status admits that the broker may be down.
LeftDown ==
    \E d \in Dep : \/ deps[d].status = "pending_activation"
                   \/ /\ deps[d].status = "active_verified"
                      /\ deps[d].kind = "bridges" \/ Moved(deps[d].rev)

\* BrokerLeftUp: a root configuration the broker does not start with is not left
\* in place: the broker is down after an apply only if the client left before the
\* verification, or if a bridge or plugin change, which is not verified, or a move
\* of directives, which is verified without a restart, did it.
BrokerLeftUp ==
    phase = "idle" /\ faults = 0 /\ edits = 0 /\ running = Down => LeftDown
=============================================================================

-------------------------------- MODULE Deploy --------------------------------
(***************************************************************************)
(* The password/ACL deployment of internal/deploy/service.go: Preview      *)
(* stores an immutable revision of what would be written; Apply checks it  *)
(* against the disk and the database, records a deployment, consumes the   *)
(* revision, hands the files to the applier, verifies the broker and rolls *)
(* back when it cannot.                                                    *)
(*                                                                         *)
(* One action per database call, applier call or verification attempt of   *)
(* applyRevision.  Apply holds the mutation lock (MutationCoordinator), so *)
(* database mutations and previews happen only while no apply runs; what   *)
(* interleaves with an apply is the adoption of an ACL source, which takes *)
(* no lock, the client that disconnects, the broker that reloads, the      *)
(* clock and a crash of MCM.                                               *)
(***************************************************************************)
EXTENDS Naturals, ManagedFiles

CONSTANTS
    ACL,            \* the broker-wide ACL file
    Version,        \* what the managed rules of one file, or the users, can be
    Foreign,        \* hand-written ACL content that blockingACLEntries protects
    MaxSalt,        \* bound: salts drawn for the service account's hash
    Rev, Dep,       \* preview revision and deployment ids
    VerifyAttempts, \* verifyAttempts
    MaxEdits,       \* bound: database mutations under the mutation lock
    MaxAdopts,      \* bound: ACL sources adopted (no lock)
    MaxTampers,     \* bound: edits of the files behind MCM's back
    MaxFaults,      \* bound: database calls and applier calls that fail
    MayCancel,      \* the client of the request may disconnect
    MayCrash        \* MCM may be killed

Listener == Path \ {ACL, Passwd}    \* the per-listener ACL files, by path

\* A password file: the enabled users and the hash of the service account.
\* Salt 0 is a hash that does not verify the configured password, or none.
PasswdBody == [users : Version, salt : 0 .. MaxSalt]

ASSUME DeployAssumption ==
    /\ ACL \in Path /\ ACL # Passwd
    /\ Foreign \notin Version
    /\ Version \cup {Foreign} \cup PasswdBody \subseteq Body
    /\ MaxSalt \in Nat \ {0} /\ MaxEdits \in Nat /\ MaxAdopts \in Nat
    /\ MaxTampers \in Nat /\ MaxFaults \in Nat
    /\ VerifyAttempts \in Nat \ {0}
    /\ MayCancel \in BOOLEAN /\ MayCrash \in BOOLEAN

VARIABLES
    \* the database
    want,           \* the managed rules and users, per file; NoFile for a
                    \* listener without scoped rules
    wired,          \* listeners whose spec declares their acl_file
    registry,       \* managed_acl_files: the listener files MCM owns
    revState,       \* preview_revisions: "absent", "open", "applied"
    expired,        \* revisions older than previewRevisionTTL
    review,         \* what a revision recorded: base and rendered contents
    deps,           \* deployments: the revision and the status of each
    \* the files and the broker
    disk, serving, hup,
    salt,           \* salts drawn so far
    \* the running applyRevision
    phase,
    cur,            \* [rev, dep] of the running or the last apply
    plan,           \* the ApplyRequest (planACLFiles)
    prevManaged,    \* previousManaged
    live,           \* the request context is not cancelled
    pendErr,        \* pendingActivationErr # nil
    attempt,        \* verification attempts made
    \* history and bounds
    reached,        \* revisions handed to the applier, and how often
    cutShort,       \* the last applier call returned an error, or never returned
    edits, adopts, tampers, faults

database == <<want, wired, registry, revState, expired, review, deps>>
outside == <<disk, serving, hup, salt>>
local == <<cur, plan, prevManaged, live, pendErr, attempt>>
bounds == <<edits, adopts, tampers, faults>>
history == <<reached, cutShort>>
vars == <<database, outside, phase, local, history, bounds>>

Statuses == {"none", "saved", "applying", "pending_activation", "active_verified",
             "failed", "rolled_back", "rollback_failed"}
Terminal == {"active_verified", "failed", "rolled_back", "rollback_failed"}

Phases == {"idle", "insert", "applying", "consume", "burned", "list", "write",
           "failed", "record", "pending", "settle", "verify", "activate",
           "rollback", "rollback_failed", "unrecord", "rolled_back"}

Wants == {w \in [Path -> Version \cup {NoFile}] : w[ACL] # NoFile /\ w[Passwd] # NoFile}
Review == [base : [Path -> Text], body : [Path -> Content], db : Wants]

TypeOK ==
    /\ want \in Wants
    /\ wired \in SUBSET Listener
    /\ registry \in SUBSET Listener
    /\ revState \in [Rev -> {"absent", "open", "applied"}]
    /\ expired \in SUBSET Rev
    /\ review \in [Rev -> Review]
    /\ deps \in [Dep -> [rev : Rev, status : Statuses]]
    /\ disk \in [Path -> Content]
    /\ serving \in [Path -> Content]
    /\ hup \in BOOLEAN
    /\ salt \in 0 .. MaxSalt
    /\ phase \in Phases
    /\ cur \in [rev : Rev, dep : Dep]
    /\ plan \in Request
    /\ prevManaged \in SUBSET Listener
    /\ live \in BOOLEAN
    /\ pendErr \in BOOLEAN
    /\ attempt \in 0 .. VerifyAttempts
    /\ reached \in [Rev -> Nat]
    /\ cutShort \in BOOLEAN
    /\ edits \in 0 .. MaxEdits /\ adopts \in 0 .. MaxAdopts
    /\ tampers \in 0 .. MaxTampers /\ faults \in 0 .. MaxFaults
-----------------------------------------------------------------------------
\* render: the passwd body keeps the service account's hash when the one on
\* disk verifies the configured password, and draws a new salt otherwise.
Verifies(c) == c \in PasswdBody /\ c.salt # 0

ServiceSalt == IF Verifies(disk[Passwd]) THEN disk[Passwd].salt ELSE salt + 1

Render == [want EXCEPT ![Passwd] = [users |-> want[Passwd], salt |-> ServiceSalt]]

SaltDrawn == salt' = IF Verifies(disk[Passwd]) THEN salt ELSE salt + 1
SaltLeft == Verifies(disk[Passwd]) \/ salt < MaxSalt

\* The files a render holds; the per-listener ones among them.
Files(body) == {p \in Path : body[p] # NoFile}
ListenerFiles(body) == Files(body) \cap Listener

Reads == [p \in Path |-> Read(disk[p])]

\* planACLFiles: write every file of the render, delete the owned files it no
\* longer holds; every file carries its content as the snapshot.
Plan(body) == [write  |-> Files(body),
               remove |-> registry \ Files(body),
               body   |-> [p \in Path |-> Read(body[p])],
               snap   |-> Reads]

\* Mutant: the rollback forgets the files the apply deleted.
RollbackRequestWrittenOnly ==
    [write |-> plan.write, remove |-> {}, body |-> plan.snap,
     snap  |-> [p \in Path |-> Blank]]

\* rollbackRequest: the snapshots of the plan become the bodies, and the
\* request carries no snapshots of its own.
RollbackRequest == [write  |-> Touched(plan),
                    remove |-> {},
                    body   |-> plan.snap,
                    snap   |-> [p \in Path |-> Blank]]

Init ==
    /\ want \in Wants
    /\ wired = Listener
    /\ \E s \in 0 .. 1 :
          /\ salt = s
          /\ disk = [want EXCEPT ![Passwd] = [users |-> want[Passwd], salt |-> s]]
    /\ registry = ListenerFiles(disk)
    /\ serving = disk
    /\ hup = FALSE
    /\ revState = [r \in Rev |-> "absent"]
    /\ expired = {}
    /\ review = [r \in Rev |-> [base |-> Reads, body |-> disk, db |-> want]]
    /\ phase = "idle"
    /\ cur \in [rev : Rev, dep : Dep]
    /\ deps = [d \in Dep |-> [rev |-> cur.rev, status |-> "none"]]
    /\ plan = Plan(disk)
    /\ prevManaged = {}
    /\ live = FALSE /\ pendErr = FALSE /\ attempt = 0
    /\ reached = [r \in Rev |-> 0]
    /\ cutShort = FALSE
    /\ edits = 0 /\ adopts = 0 /\ tampers = 0 /\ faults = 0
-----------------------------------------------------------------------------
\* A managed mutation of users or rules (LockMutations).
Edit(p, v) ==
    /\ phase = "idle"
    /\ edits < MaxEdits
    /\ v # want[p] /\ [want EXCEPT ![p] = v] \in Wants
    /\ want' = [want EXCEPT ![p] = v]
    /\ edits' = edits + 1
    /\ UNCHANGED <<wired, registry, revState, expired, review, deps, outside,
                   phase, local, history, adopts, tampers, faults>>

\* The acl_file option of a listener spec is set or cleared (LockMutations).
Wire(l) ==
    /\ phase = "idle"
    /\ edits < MaxEdits
    /\ wired' = IF l \in wired THEN wired \ {l} ELSE wired \cup {l}
    /\ edits' = edits + 1
    /\ UNCHANGED <<want, registry, revState, expired, review, deps, outside,
                   phase, local, history, adopts, tampers, faults>>

\* handleAdoptSource: the request's body becomes the source the managed rules of
\* an ACL file are composed into, which changes what is rendered for the file.
\* SaveACLSource takes no lock, so this also happens while an apply runs.
Adopt(p, v) ==
    /\ adopts < MaxAdopts
    /\ p # Passwd /\ want[p] # NoFile /\ v # want[p]
    /\ want' = [want EXCEPT ![p] = v]
    /\ adopts' = adopts + 1
    /\ UNCHANGED <<wired, registry, revState, expired, review, deps, outside,
                   phase, local, history, edits, tampers, faults>>

\* Somebody puts hand-written rules into an ACL file, or replaces the password
\* file by one whose service hash is of another password.
Tamper(p) ==
    /\ phase = "idle"
    /\ tampers < MaxTampers
    /\ disk' = [disk EXCEPT ![p] = IF p = Passwd
                    THEN [users |-> want[Passwd], salt |-> 0] ELSE Foreign]
    /\ tampers' = tampers + 1
    /\ UNCHANGED <<database, serving, hup, salt, phase, local, history, edits, adopts, faults>>

Preview(r) ==
    /\ phase = "idle"
    /\ revState[r] = "absent"
    /\ SaltLeft
    /\ review' = [review EXCEPT ![r] = [base |-> Reads, body |-> Render, db |-> want]]
    /\ revState' = [revState EXCEPT ![r] = "open"]
    /\ SaltDrawn
    /\ UNCHANGED <<want, wired, registry, expired, deps, disk, serving, hup,
                   phase, local, history, bounds>>

\* previewRevisionTTL passes.
Expire(r) ==
    /\ revState[r] = "open" /\ r \notin expired
    /\ expired' = expired \cup {r}
    /\ UNCHANGED <<want, wired, registry, revState, review, deps, outside,
                   phase, local, history, bounds>>

\* The checks of applyRevision.  Only the broker-wide ACL file and the password
\* file have their base compared and are searched for unmanaged content.
BaseMatches(r) == \A p \in {ACL, Passwd} : review[r].base[p] = Read(disk[p])
RenderMatches(r) == review[r].body = Render
ScopeWired == ListenerFiles(Render) \subseteq wired
Blocking == Read(disk[ACL]) = Foreign

BeginApply(r, d) ==
    /\ phase = "idle"
    /\ deps[d].status = "none"
    /\ revState[r] = "open" /\ r \notin expired
    /\ BaseMatches(r)
    /\ SaltLeft /\ RenderMatches(r)
    /\ ScopeWired
    /\ ~Blocking
    /\ phase' = "insert"
    /\ cur' = [rev |-> r, dep |-> d]
    /\ plan' = Plan(review[r].body)
    /\ live' = TRUE /\ pendErr' = FALSE /\ attempt' = 0
    /\ SaltDrawn
    /\ UNCHANGED <<database, disk, serving, hup, prevManaged, history, bounds>>
-----------------------------------------------------------------------------
\* A database call fails on its own, or because it uses the request context
\* and the client is gone.
Fault == faults < MaxFaults /\ faults' = faults + 1
CtxFails == (~live /\ UNCHANGED faults) \/ Fault

SetStatus(s) == deps' = [deps EXCEPT ![cur.dep].status = s]
Goto(p) == phase' = p

RestOfDatabase == <<want, wired, registry, revState, expired, review>>
RestOfBounds == <<edits, adopts, tampers>>

\* InsertDeployment(ctx): the row, then a read of it.
Insert ==
    /\ phase = "insert" /\ live
    /\ deps' = [deps EXCEPT ![cur.dep] = [rev |-> cur.rev, status |-> "saved"]]
    /\ Goto("applying")
    /\ UNCHANGED <<RestOfDatabase, outside, local, history, bounds>>

\* Nothing is inserted, or the row is and reading it back fails.
InsertFails ==
    /\ phase = "insert" /\ CtxFails
    /\ \/ UNCHANGED deps
       \/ deps' = [deps EXCEPT ![cur.dep] = [rev |-> cur.rev, status |-> "saved"]]
    /\ Goto("idle")
    /\ UNCHANGED <<RestOfDatabase, outside, local, history, RestOfBounds>>

\* updateDeploymentStatus uses a context of its own: only a fault stops it.
MarkApplying ==
    /\ phase = "applying"
    /\ SetStatus("applying")
    /\ Goto("consume")
    /\ UNCHANGED <<RestOfDatabase, outside, local, history, bounds>>

MarkApplyingFails ==
    /\ phase = "applying" /\ Fault
    /\ Goto("idle")
    /\ UNCHANGED <<database, outside, local, history, RestOfBounds>>

\* Mutant: the revision is left open until the broker accepted it.
ConsumeLater ==
    /\ phase = "consume"
    /\ Goto("list")
    /\ UNCHANGED <<database, outside, local, history, bounds>>

\* consumePreviewRevision, before anything leaves the process.
Consume ==
    /\ phase = "consume"
    /\ revState[cur.rev] = "open"
    /\ revState' = [revState EXCEPT ![cur.rev] = "applied"]
    /\ Goto("list")
    /\ UNCHANGED <<want, wired, registry, expired, review, deps, outside,
                   local, history, bounds>>

ConsumeFails ==
    /\ phase = "consume"
    /\ \/ revState[cur.rev] # "open" /\ UNCHANGED faults
       \/ Fault
    /\ Goto("burned")
    /\ UNCHANGED <<database, outside, local, history, RestOfBounds>>

\* managedACLFiles(ctx), captured for the rollback.
ListManaged ==
    /\ phase = "list" /\ live
    /\ prevManaged' = registry
    /\ Goto("write")
    /\ UNCHANGED <<database, outside, cur, plan, live, pendErr, attempt, history, bounds>>

\* The deployment stays "applying": nothing updates it any more.
ListManagedFails ==
    /\ phase = "list" /\ CtxFails
    /\ Goto("idle")
    /\ UNCHANGED <<database, outside, local, history, RestOfBounds>>

\* The broker after a call for request q that returned an error, or never
\* returned: unless nothing was touched, the signal may have been sent, and the
\* broker may have handled it before the files were put back.
MaySignal(r, q) ==
    \/ UNCHANGED <<hup, serving>>
    \/ r # "untouched" /\ hup' = TRUE /\ UNCHANGED serving
    \/ r # "untouched" /\ hup' = FALSE /\ serving' = Written(disk, q)

\* Mutant: an applier without a pid file to signal returns nil (issue #293).
WriteSilent ==
    /\ phase = "write" /\ live
    /\ disk' = Written(disk, plan)
    /\ reached' = [reached EXCEPT ![cur.rev] = @ + 1]
    /\ cutShort' = FALSE
    /\ Goto("record")
    /\ UNCHANGED <<database, serving, hup, salt, local, bounds>>

\* applier.Apply(ctx, plan)
Write ==
    /\ phase = "write" /\ live
    /\ disk' = Written(disk, plan)
    /\ hup' = TRUE
    /\ reached' = [reached EXCEPT ![cur.rev] = @ + 1]
    /\ cutShort' = FALSE
    /\ Goto("record")
    /\ UNCHANGED <<database, serving, salt, local, bounds>>

\* A context that was cancelled before the call or, as docker exec runs under
\* it, in the middle; a failure the applier restored from, or one it did not.
WriteFails ==
    /\ phase = "write" /\ CtxFails
    /\ reached' = [reached EXCEPT ![cur.rev] = @ + 1]
    /\ \E o \in Outcomes(disk, plan) :
          /\ o[1] \in {"untouched", "restored", "rollback_failed"}
          /\ o[1] = "rollback_failed" => faults' # faults
          /\ disk' = o[2]
          /\ MaySignal(o[1], plan)
          /\ cutShort' = (cutShort \/ o[1] # "untouched")
          /\ Goto(IF o[1] = "rollback_failed" THEN "rollback_failed" ELSE "failed")
    /\ UNCHANGED <<database, salt, local, RestOfBounds>>

\* recordManagedACLFiles(ctx) and restoreManagedACLFiles(ctx): delete the rows
\* outside S, then add the ones of S; a failure, or a client that leaves between
\* two rows, stops after a prefix of that.
RegistryPrefixes(S) ==
    {registry \ D : D \in SUBSET (registry \ S)} \cup
    {(registry \cap S) \cup A : A \in SUBSET S}

Record ==
    /\ phase = "record" /\ live
    /\ registry' = plan.write \cap Listener
    /\ Goto("pending")
    /\ UNCHANGED <<want, wired, revState, expired, review, deps, outside,
                   local, history, bounds>>

RecordFails ==
    /\ phase = "record" /\ CtxFails
    /\ registry' \in RegistryPrefixes(plan.write \cap Listener)
    /\ Goto("rollback")
    /\ UNCHANGED <<want, wired, revState, expired, review, deps, outside,
                   local, history, RestOfBounds>>

MarkPending ==
    /\ phase = "pending"
    /\ SetStatus("pending_activation")
    /\ Goto("settle")
    /\ UNCHANGED <<RestOfDatabase, outside, local, history, bounds>>

MarkPendingFails ==
    /\ phase = "pending" /\ Fault
    /\ pendErr' = TRUE
    /\ Goto("settle")
    /\ UNCHANGED <<database, outside, cur, plan, prevManaged, live, attempt,
                   history, RestOfBounds>>

\* reloadSettleDelay, cut short when the client is gone.  How long the broker
\* takes to reload is not bounded by it.
Settle ==
    /\ phase = "settle"
    /\ Goto("verify")
    /\ UNCHANGED <<database, outside, local, history, bounds>>

\* VerifyActive logs in as a user of the reviewed files and uses a grant it has
\* there.  The broker may already accept both with the files it loaded before.
ProbeWorks == serving[Passwd] \in PasswdBody /\ serving[ACL] \in Body

\* pickVerificationProbe finds no usable identity: no attempt is made.
NoProbe ==
    /\ phase = "verify" /\ attempt = 0
    /\ Goto("rollback")
    /\ UNCHANGED <<database, outside, local, history, bounds>>

VerifyPasses ==
    /\ phase = "verify" /\ live /\ ProbeWorks
    /\ attempt' = attempt + 1
    /\ Goto(IF pendErr THEN "rollback" ELSE "activate")
    /\ UNCHANGED <<database, outside, cur, plan, prevManaged, live, pendErr,
                   history, bounds>>

\* Mutant: no bound on the attempts.
VerifyFailsForever ==
    /\ phase = "verify"
    /\ attempt' = IF attempt < VerifyAttempts THEN attempt + 1 ELSE 1
    /\ Goto(IF live THEN "verify" ELSE "rollback")
    /\ UNCHANGED <<database, outside, cur, plan, prevManaged, live, pendErr,
                   history, bounds>>

\* An attempt can fail for any reason; without a client there is no retry.
VerifyFails ==
    /\ phase = "verify"
    /\ attempt' = attempt + 1
    /\ Goto(IF attempt' < VerifyAttempts /\ live THEN "verify" ELSE "rollback")
    /\ UNCHANGED <<database, outside, cur, plan, prevManaged, live, pendErr,
                   history, bounds>>

Activate ==
    /\ phase = "activate"
    /\ SetStatus("active_verified")
    /\ Goto("idle")
    /\ UNCHANGED <<RestOfDatabase, outside, local, history, bounds>>

ActivateFails ==
    /\ phase = "activate" /\ Fault
    /\ Goto("rollback")
    /\ UNCHANGED <<database, outside, local, history, RestOfBounds>>

\* Mutant: the rollback writes the files and leaves the broker alone.
RollbackSilent ==
    /\ phase = "rollback"
    /\ disk' = Written(disk, RollbackRequest)
    /\ Goto("unrecord")
    /\ UNCHANGED <<database, serving, hup, salt, local, history, bounds>>

\* applier.Apply(rollbackCtx, rollbackRequest): the context is fresh.
Rollback ==
    /\ phase = "rollback"
    /\ disk' = Written(disk, RollbackRequest)
    /\ hup' = TRUE
    /\ cutShort' = FALSE
    /\ Goto("unrecord")
    /\ UNCHANGED <<database, serving, salt, local, reached, bounds>>

RollbackFails ==
    /\ phase = "rollback" /\ Fault
    /\ \E o \in Outcomes(disk, RollbackRequest) :
          /\ o[1] \in {"untouched", "restored", "rollback_failed"}
          /\ disk' = o[2]
          /\ MaySignal(o[1], RollbackRequest)
          /\ cutShort' = (cutShort \/ o[1] # "untouched")
    /\ Goto("rollback_failed")
    /\ UNCHANGED <<database, salt, local, reached, RestOfBounds>>

\* Mutant: the registry keeps the rows of the apply.
UnrecordSkipped ==
    /\ phase = "unrecord"
    /\ Goto("rolled_back")
    /\ UNCHANGED <<database, outside, local, history, bounds>>

Unrecord ==
    /\ phase = "unrecord" /\ live
    /\ registry' = prevManaged
    /\ Goto("rolled_back")
    /\ UNCHANGED <<want, wired, revState, expired, review, deps, outside,
                   local, history, bounds>>

\* The failure only ends up in the message of the deployment.
UnrecordFails ==
    /\ phase = "unrecord" /\ CtxFails
    /\ registry' \in RegistryPrefixes(prevManaged)
    /\ Goto("rolled_back")
    /\ UNCHANGED <<want, wired, revState, expired, review, deps, outside,
                   local, history, RestOfBounds>>

\* The status an apply that did not succeed ends with.
FinalStatus == CASE phase \in {"burned", "failed"} -> "failed"
                 [] phase = "rolled_back" -> "rolled_back"
                 [] phase = "rollback_failed" -> "rollback_failed"

\* Mutant: the final status is written with the request context.
FinishWithRequestContext ==
    /\ phase \in {"burned", "failed", "rolled_back", "rollback_failed"}
    /\ IF live THEN SetStatus(FinalStatus) ELSE UNCHANGED deps
    /\ Goto("idle")
    /\ UNCHANGED <<RestOfDatabase, outside, local, history, bounds>>

Finish ==
    /\ phase \in {"burned", "failed", "rolled_back", "rollback_failed"}
    /\ SetStatus(FinalStatus)
    /\ Goto("idle")
    /\ UNCHANGED <<RestOfDatabase, outside, local, history, bounds>>

FinishFails ==
    /\ phase \in {"burned", "failed", "rolled_back", "rollback_failed"} /\ Fault
    /\ Goto("idle")
    /\ UNCHANGED <<database, outside, local, history, RestOfBounds>>
-----------------------------------------------------------------------------
\* The client of the request disconnects.
Cancel ==
    /\ MayCancel /\ phase # "idle" /\ live
    /\ live' = FALSE
    /\ UNCHANGED <<database, outside, phase, cur, plan, prevManaged, pendErr,
                   attempt, history, bounds>>

\* MCM dies between two steps, or inside the applier.  Nothing resumes the
\* apply when it comes back.
Crash ==
    /\ MayCrash /\ phase # "idle" /\ Fault
    /\ \/ phase \notin {"write", "rollback"} /\ UNCHANGED <<disk, serving, hup, history>>
       \/ /\ phase = "write"
          /\ disk' \in Mixtures(disk, plan)
          /\ MaySignal("crashed", plan)
          /\ reached' = [reached EXCEPT ![cur.rev] = @ + 1]
          /\ cutShort' = TRUE
       \/ /\ phase = "rollback"
          /\ disk' \in Mixtures(disk, RollbackRequest)
          /\ MaySignal("crashed", RollbackRequest)
          /\ cutShort' = TRUE
          /\ UNCHANGED reached
    /\ Goto("idle")
    /\ UNCHANGED <<database, salt, local, RestOfBounds>>

BrokerReload ==
    /\ hup
    /\ serving' = disk
    /\ hup' = FALSE
    /\ UNCHANGED <<database, disk, salt, phase, local, history, bounds>>

\* Statement after statement of applyRevision.
Step == \/ Insert \/ InsertFails \/ MarkApplying \/ MarkApplyingFails
        \/ Consume \/ ConsumeFails \/ ListManaged \/ ListManagedFails
        \/ Write \/ WriteFails \/ Record \/ RecordFails
        \/ MarkPending \/ MarkPendingFails \/ Settle \/ NoProbe \/ VerifyPasses \/ VerifyFails
        \/ Activate \/ ActivateFails \/ Rollback \/ RollbackFails
        \/ Unrecord \/ UnrecordFails \/ Finish \/ FinishFails

Operator == \/ \E p \in Path, v \in Version \cup {NoFile} : Edit(p, v)
            \/ \E p \in Path, v \in Version : Adopt(p, v)
            \/ \E l \in Listener : Wire(l)
            \/ \E p \in Path : Tamper(p)
            \/ \E r \in Rev : Preview(r) \/ Expire(r)
            \/ \E r \in Rev, d \in Dep : BeginApply(r, d)

Next == Operator \/ Step \/ Cancel \/ Crash \/ BrokerReload

Spec == Init /\ [][Next]_vars

\* The calls without a deadline of their own: the reload command runs under
\* context.Background() (reloadViaCommand), docker exec and the statements on
\* the registry and the new deployment under the request's context.
NoDeadline == {"insert", "list", "write", "record", "rollback", "unrecord"}

\* The rest of applyRevision returns: the status updates and the consumption
\* run under persistenceTimeout, the settle delay and the attempts are bounded.
\* The event loop of Mosquitto gets to a signal it was sent.
FairSpec == Spec /\ WF_vars(phase \notin NoDeadline /\ Step) /\ WF_vars(BrokerReload)
-----------------------------------------------------------------------------
\* RevisionReachesApplierOnce: "no revision that reaches the applier can remain
\* reusable" (applyRevision): whatever database call fails and whenever MCM is
\* killed, the applier sees a revision at most once, and only a consumed one.
RevisionReachesApplierOnce ==
    \A r \in Rev : reached[r] = 0 \/ (reached[r] = 1 /\ revState[r] = "applied")

Becomes(d, s) == deps[d].status # s /\ deps'[d].status = s

\* A status deployment d gets in this step is a true statement.
HonestStatus(d) ==
    /\ Becomes(d, "active_verified") =>
          LET body == review[deps[d].rev].body IN
          /\ \A p \in Files(body) : disk[p] = body[p]
          /\ adopts = 0 => body = Render
          /\ \A l \in prevManaged \ Files(body) : disk[l] = NoFile
          /\ registry = ListenerFiles(body)
    /\ Becomes(d, "failed") \/ Becomes(d, "rolled_back") =>
          \A p \in Path : Read(disk[p]) = plan.snap[p]

\* StatusIsTrue: when a deployment becomes active_verified the files are the
\* ones its revision showed, they are still what the database asks for (if no
\* ACL source was adopted), the retired listener files are gone and the registry
\* names the files MCM owns; it becomes "failed" or "rolled_back" only when
\* every file reads as it did when the apply took its snapshots, the deleted
\* listener files included ("files restored from snapshot", deployments.go).
StatusIsTrue == [][\A d \in Dep : HonestStatus(d)]_vars

\* EveryApplyTracked: "a client disconnect cannot make a successful broker
\* operation look untracked" (persistenceTimeout): as long as no call fails by
\* itself, a revision that reached the applier has a deployment with a final
\* status once the apply is over.
EveryApplyTracked ==
    phase = "idle" /\ faults = 0 =>
        \A r \in Rev : reached[r] > 0 =>
            \E d \in Dep : deps[d].rev = r /\ deps[d].status \in Terminal

\* OwnedFilesRegistered: once an apply is over, a listener file with rules MCM
\* rendered is in the registry: the registry is how a later apply knows that it
\* "must delete that file again" (ManagedACLFileStore).
OwnedFilesRegistered ==
    phase = "idle" /\ faults = 0 =>
        \A l \in Listener : disk[l] \in Version => l \in registry

\* BrokerSignalled: an apply that is over leaves the broker with the files on
\* disk or with a pending signal to load them, after a rollback too, whatever
\* database call failed, whether MCM was killed and whether the client stayed:
\* only an applier call that itself returned an error may leave the broker with
\* other files.  Without it the listeners keep the access the files no longer
\* give.
BrokerSignalled ==
    phase = "idle" /\ ~cutShort /\ tampers = 0 => hup \/ serving = disk

\* VerifiedIsServed: the verifier may pass before the broker handled the signal,
\* so that active_verified may come too early; it still comes true: after it the
\* broker gets to serve the files on disk, unless another apply starts or they
\* are edited first.
VerifiedIsServed ==
    \A d \in Dep : (deps[d].status = "active_verified")
        ~> (serving = disk \/ phase # "idle" \/ tampers > 0)

\* ApplyEnds: the deploy lock is always given back, whichever calls fail and
\* whether or not the client waits, and every deployment ends in a final status
\* unless a call failed, MCM was killed or the client left: or else the apply
\* stands for ever in one of the calls that have no deadline.
ApplyEnds ==
    \/ \E p \in NoDeadline : <>[](phase = p)
    \/ /\ []<>(phase = "idle")
       /\ \A d \in Dep : (deps[d].status \in {"saved", "applying", "pending_activation"})
             ~> (deps[d].status \in Terminal \/ faults > 0 \/ ~live)
-----------------------------------------------------------------------------
(* What the documents say and the code does not keep. *)

\* VerifiedMeansServing: "active_verified: verified the broker is serving the new
\* config" (validDeploymentStatuses).  The broker handles the signal whenever it
\* gets to it, and the probe may work with the files it has.
VerifiedMeansServing ==
    [][\A d \in Dep : Becomes(d, "active_verified") => serving = disk]_vars

\* ValidatedStaysCurrent: "a revision cannot become stale after it has been
\* validated for apply" (MutationCoordinator): what becomes active_verified is
\* what the database asks for.  SaveACLSource does not take the lock.
ValidatedStaysCurrent ==
    [][\A d \in Dep : Becomes(d, "active_verified") => review[deps[d].rev].body = Render]_vars

\* RegistryRestored: "A rolled-back apply restored the previous ACL files, so the
\* registry must describe those files again" (restoreManagedACLFiles), which runs
\* under the context of a client that may have left.
RegistryRestored ==
    [][\A d \in Dep : Becomes(d, "rolled_back") => registry = prevManaged]_vars

\* ForeignRulesKept: "the apply refuses so a destructive render never lands
\* silently" (ErrUnmanagedACLContent): no call of the applier replaces hand-written
\* rules.  Only the broker-wide file is searched for them, not a listener's.
ForeignRulesKept ==
    [][phase = "write" => \A p \in Path : disk[p] = Foreign => disk'[p] = Foreign]_vars
=============================================================================

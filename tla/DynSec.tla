------------------------------- MODULE DynSec -------------------------------
(***************************************************************************)
(* The dynamic security flow of internal/deploy/dynsec.go and              *)
(* dynsec_adopt.go: an operator previews a document (PreviewDynSec) or the *)
(* migration from the file backend (AdoptDynSec), and applies the stored   *)
(* plan (ApplyDynSec) over the control channel of the plugin.  No lock is  *)
(* taken anywhere: requests overlap, other tools talk to the plugin, the   *)
(* answer of a request may be lost, and MCM may crash.                     *)
(***************************************************************************)
EXTENDS DynSecDocument

CONSTANTS Request,      \* concurrent HTTP requests
          Document,     \* the documents operators ask for
          Start,        \* the databases the plugin may start with
          Resent(_),    \* the documents an apply may carry for a reviewed one
          Foreign,      \* the commands other tools send
          ManagementRole, AnonymousGroup, UserRole, AnonymousRole, User,
          ManagementPassword,
          Generated,    \* the passwords generateDynsecPassword returns, in turn
          NoDocument, NoPlan,
          MaxPlans, MaxAdoptions, MaxApplies, MaxForeign

VARIABLES
  db,       \* the database the running plugin enforces; NoDocument: not loaded
  file,     \* the plugin's database file; NoDocument: none it can load
  backend,  \* what mosquitto.conf says: DetectAccessBackend
  plans,    \* dynsec_plans: a sequence, an id is an index
  req,      \* the requests
  applies, foreign,   \* how many applies began, how many foreign commands ran
  adoptions,          \* how many adoptions began, each with a password of its own
  adopting,           \* the adoptions under way
  cut                 \* history: an adoption overlapped another one or an apply, or
                      \* broke off after it had touched the database file

adoptVars == <<adoptions, adopting, cut>>
dynsecVars == <<db, file, backend, plans, req, applies, foreign, adoptVars>>

\* Databases and documents are well-typed; the plugin keeps one list of members,
\* so a database it starts with is normalised; a user is not the account of MCM,
\* which keeps its credential (buildAdoptedDocument).
ASSUME DynSecAssumption ==
    /\ Start \subseteq Database /\ \A d \in Start : d = Normalize(d)
    /\ Document \subseteq Database /\ Foreign \subseteq Command
    /\ NoDocument \notin Database
    /\ User \in Client /\ User # Management
    /\ {ManagementRole, UserRole, AnonymousRole} \subseteq Role /\ AnonymousGroup \in Group
    /\ ManagementPassword \in Password /\ Generated \in Seq(Password)
    /\ \E t \in Topic : t # ControlTopic

Idle == [pc |-> "idle", plan |-> NoPlan, effective |-> NoDocument, commands |-> <<>>,
         read |-> NoDocument, alone |-> TRUE, refused |-> FALSE, result |-> "none"]

DynSecInit ==
    /\ \/ db \in Start /\ backend = "dynamic-security"
       \/ db = NoDocument /\ backend = "file"
    /\ file = db
    /\ plans = <<>>
    /\ req = [r \in Request |-> Idle]
    /\ applies = 0 /\ foreign = 0
    /\ adoptions = 0 /\ adopting = {} /\ cut = FALSE

\* Everybody else's request notices that the database was written.
Disturbed(by) == [q \in Request |-> IF q = by \/ req[q].pc \in {"idle", "done"} THEN req[q]
                                    ELSE [req[q] EXCEPT !.alone = FALSE]]

dynsecStateHash(doc) == Redacted(doc)

DetectAccessBackend == backend

\* The answers of the plugin never carry a password.
ReadDatabase == Redacted(db)

GetDynSecPlan(p) == plans[p]

InsertDynSecPlan(p) == plans' = Append(plans, p)

(***************************************************************************)
(* PreviewDynSec: validated, normalised, planned against the state of the  *)
(* broker, guarded, stored without passwords.  "promised" (history) is     *)
(* what the operator is shown: the state the reviewed commands lead to.    *)
(***************************************************************************)
PreviewDynSec(d) ==
    LET desired == Normalize(d)
        plan    == BuildPlan(ReadDatabase, desired)
    IN  /\ Len(plans) < MaxPlans
        /\ Validate(d)
        /\ DetectAccessBackend = "dynamic-security" /\ db # NoDocument
        /\ CheckControlChannel(desired)
        /\ InsertDynSecPlan([kind |-> "update", base |-> dynsecStateHash(db),
                             commands |-> maskDynSecPlan(plan), desired |-> Redacted(desired),
                             revision |-> "none", over |-> "none", generation |-> 0, consumed |-> FALSE,
                             promised |-> Redacted(Execute(db, plan).db)])
        /\ UNCHANGED <<db, file, backend, req, applies, foreign, adoptVars>>

(***************************************************************************)
(* AdoptDynSec: the document is built and checked, the database file is    *)
(* written, and the configuration revision and the plan are stored; each   *)
(* part may fail.  The rules of the file backend are here the ones of one  *)
(* user and, perhaps, of the anonymous clients.                            *)
(***************************************************************************)
dynsecACLsForRule(topic, permission) ==
    [t \in {topic} |-> [allow |-> permission # "deny", priority |-> 0]]

migrateACLToDynsec(anonymous) ==
    LET plain == CHOOSE t \in Topic : t # ControlTopic
    IN  [r \in {UserRole} \cup (IF anonymous THEN {AnonymousRole} ELSE {}) |->
            dynsecACLsForRule(plain, "readwrite")]

buildAdoptedDocument(anonymous, password) ==
    LET roles == migrateACLToDynsec(anonymous)
    IN  [clients |-> [c \in {Management, User} |->
                        [roles |-> {IF c = Management THEN ManagementRole ELSE UserRole},
                         groups |-> {}, disabled |-> FALSE,
                         password |-> IF c = Management THEN ManagementPassword ELSE password]],
         groups  |-> IF anonymous
                     THEN [g \in {AnonymousGroup} |-> [roles |-> {AnonymousRole}, clients |-> {}]]
                     ELSE EmptyMap,
         roles   |-> WithKey(roles, ManagementRole, dynsecACLsForRule(ControlTopic, "readwrite")),
         open    |-> FALSE,
         anonymous |-> IF anonymous THEN AnonymousGroup ELSE NoGroup]

\* The file has no field for the group of the anonymous clients.
writeDynsecDatabaseOnce(doc) ==                             \* mutant: an existing file is kept
    file' = IF file = NoDocument THEN [doc EXCEPT !.anonymous = NoGroup] ELSE file
writeDynsecDatabase(doc) == file' = [doc EXCEPT !.anonymous = NoGroup]

\* The stored revision of mosquitto.conf: it loads the plugin, drops
\* password_file and acl_file, and applies only to the file that is there when
\* it is stored ("over").
previewAdoptionConfig == "previewed"

Adoption == [stage : {"built", "written"}, anonymous : BOOLEAN, generation : 1..Len(Generated)]
Adopted(a) == buildAdoptedDocument(a.anonymous, Generated[a.generation])

\* Everything up to the guard; the passwords of the new clients are generated here.
BuildAdopted ==
    /\ Len(plans) < MaxAdoptions
    /\ adoptions < Len(Generated)
    /\ DetectAccessBackend # "dynamic-security"
    /\ adoptions' = adoptions + 1
    /\ \E anonymous \in BOOLEAN :
         LET a == [stage |-> "built", anonymous |-> anonymous, generation |-> adoptions + 1]
         IN  /\ Validate(Adopted(a)) /\ CheckControlChannel(Adopted(a))
             /\ adopting' = adopting \cup {a}
    /\ cut' = (cut \/ adopting # {})
    /\ UNCHANGED <<db, file, backend, plans, req, applies, foreign>>

WriteAdopted(a) ==
    /\ a.stage = "built"
    /\ writeDynsecDatabase(Adopted(a))
    /\ adopting' = (adopting \ {a}) \cup {[a EXCEPT !.stage = "written"]}
    /\ UNCHANGED <<db, backend, plans, req, applies, foreign, adoptions, cut>>

\* The answer of this step is where the passwords are shown.
StoreAdopted(a) ==
    /\ a.stage = "written"
    /\ InsertDynSecPlan([kind |-> "adopt", base |-> NoDocument, commands |-> <<>>,
                         desired |-> Redacted(Adopted(a)), revision |-> previewAdoptionConfig,
                         over |-> DetectAccessBackend, generation |-> a.generation, consumed |-> FALSE,
                         promised |-> Redacted(Adopted(a))])
    /\ adopting' = adopting \ {a}
    /\ UNCHANGED <<db, file, backend, req, applies, foreign, adoptions, cut>>

\* The write fails, perhaps half-way, or what follows it does.
AdoptFails(a) ==
    /\ adopting' = adopting \ {a}
    /\ \/ a.stage = "built" /\ UNCHANGED <<file, cut>>
       \/ a.stage = "built" /\ file' = NoDocument /\ cut' = TRUE
       \/ a.stage = "written" /\ UNCHANGED file /\ cut' = TRUE
    /\ UNCHANGED <<db, backend, plans, req, applies, foreign, adoptions>>

AdoptDynSec == BuildAdopted \/ \E a \in adopting : WriteAdopted(a) \/ StoreAdopted(a) \/ AdoptFails(a)

(***************************************************************************)
(* ApplyDynSec.  The request may carry the document again, with its        *)
(* passwords; it is validated but not normalised.                          *)
(***************************************************************************)
BeginApply(r, p) ==
    /\ req[r].pc \in {"idle", "done"}
    /\ applies < MaxApplies
    /\ ~GetDynSecPlan(p).consumed
    /\ applies' = applies + 1
    /\ \E d \in {plans[p].desired} \cup (Document \cap Resent(plans[p].desired)) :
         req' = [req EXCEPT ![r] = [Idle EXCEPT !.plan = p, !.effective = d,
                   !.pc = IF plans[p].revision = "none" THEN "read" ELSE "config"]]
    /\ UNCHANGED <<db, file, backend, plans, foreign, adoptVars>>

Fail(r, why) == req' = [req EXCEPT ![r] = [@ EXCEPT !.pc = "done", !.result = why]]

\* The configuration revision of an adoption (applyBrokerConfigRevision and
\* waitForBroker): applied at most once, and the broker restarts into it.
ApplyConfig(r) ==
    /\ req[r].pc = "config"
    /\ plans[req[r].plan].revision = "previewed" /\ backend = plans[req[r].plan].over
    /\ file # NoDocument
    /\ plans' = [plans EXCEPT ![req[r].plan].revision = "applied"]
    /\ backend' = "dynamic-security"
    /\ db' = file
    /\ req' = [Disturbed(r) EXCEPT ![r].pc = "read"]
    /\ cut' = (cut \/ adopting # {})
    /\ UNCHANGED <<file, applies, foreign, adoptions, adopting>>

\* Refused (applied before, or mosquitto.conf has changed since), or applied
\* and rolled back.
ConfigFails(r) ==
    /\ req[r].pc = "config"
    /\ \/ plans' = [plans EXCEPT ![req[r].plan].revision = "applied"]
       \/ UNCHANGED plans /\ (plans[req[r].plan].revision = "applied" \/ backend # plans[req[r].plan].over)
    /\ Fail(r, "config")
    /\ UNCHANGED <<db, file, backend, applies, foreign, adoptVars>>

\* The state is read, and the plan must still be the reviewed one.
sameDynSecPlan(r, plan) == maskDynSecPlan(plan) = plans[req[r].plan].commands

BaseUnchecked(r) == TRUE                                \* mutant: the hash is not compared
BaseUnchanged(r) == \/ plans[req[r].plan].kind = "adopt"
                    \/ dynsecStateHash(db) = plans[req[r].plan].base

Accepted(r, plan) == /\ Validate(req[r].effective)
                     /\ BaseUnchanged(r)
                     /\ sameDynSecPlan(r, plan)
                     /\ CheckControlChannel(req[r].effective)

ReadCurrent(r) ==
    /\ req[r].pc = "read" /\ db # NoDocument
    /\ LET plan == BuildPlan(ReadDatabase, req[r].effective)
       IN  IF Accepted(r, plan)
           THEN req' = [req EXCEPT ![r] = [@ EXCEPT !.pc = IF plan = <<>> THEN "verify" ELSE "send",
                                           !.read = ReadDatabase, !.commands = plan, !.alone = TRUE]]
           ELSE Fail(r, "conflict")
    /\ UNCHANGED <<db, file, backend, plans, applies, foreign, adoptVars>>

\* The channel cannot be opened (waitForBroker included), or the read fails.
ReadFails(r) ==
    /\ req[r].pc = "read"
    /\ Fail(r, "unread")
    /\ UNCHANGED <<db, file, backend, plans, applies, foreign, adoptVars>>

\* What Adapter.Do returns: every command answered; the connection dropped or
\* answers missing (the outcome is then read back); or another error.
Answers == {"arrives", "lost", "timeout"}

\* Service.Apply: one request carries every command.  The plugin writes its
\* database to the file.
Send(r) ==
    LET out == Execute(db, req[r].commands)
    IN  /\ req[r].pc = "send"
        /\ db' = out.db /\ file' = out.db
        /\ \E answer \in Answers :
             req' = [Disturbed(r) EXCEPT ![r] =
                       [@ EXCEPT !.refused = out.refused,
                                 !.pc = IF answer = "timeout" \/ (answer = "arrives" /\ out.refused)
                                        THEN "done" ELSE "verify",
                                 !.result = IF answer = "timeout" THEN "timeout"
                                            ELSE IF answer = "arrives" /\ out.refused
                                                 THEN "refused" ELSE "none"]]
        /\ UNCHANGED <<backend, plans, applies, foreign, adoptVars>>

\* The publish did not reach the broker.
SendFails(r) ==
    /\ req[r].pc = "send"
    /\ Fail(r, "timeout")
    /\ UNCHANGED <<db, file, backend, plans, applies, foreign, adoptVars>>

\* readWithRetry and Verify.
ReadBack(r) ==
    /\ req[r].pc = "verify"
    /\ IF Verify(req[r].effective, ReadDatabase)
       THEN req' = [req EXCEPT ![r] = [@ EXCEPT !.pc = "consume", !.read = ReadDatabase]]
       ELSE Fail(r, "unverified")
    /\ UNCHANGED <<db, file, backend, plans, applies, foreign, adoptVars>>

ReadBackFails(r) ==
    /\ req[r].pc = "verify"
    /\ Fail(r, "unread")
    /\ UNCHANGED <<db, file, backend, plans, applies, foreign, adoptVars>>

\* ConsumeDynSecPlan, and the guard on the state that was read.
ConsumeDynSecPlan(p) == plans' = [plans EXCEPT ![p].consumed = TRUE]

Consume(r) ==
    /\ req[r].pc = "consume"
    /\ ConsumeDynSecPlan(req[r].plan)
    /\ Fail(r, CASE plans[req[r].plan].consumed -> "consumed"
                 [] ~CheckControlChannel(req[r].read) -> "guard"
                 [] OTHER -> "ok")
    /\ UNCHANGED <<db, file, backend, applies, foreign, adoptVars>>

\* Another tool on the control channel.
ForeignCommand(m) ==
    /\ foreign < MaxForeign
    /\ db # NoDocument
    /\ ~Refused(db, m)
    /\ foreign' = foreign + 1
    /\ db' = Execute(db, <<m>>).db /\ file' = db'
    /\ req' = [q \in Request |-> IF req[q].pc \in {"idle", "done"} THEN req[q]
                              ELSE [req[q] EXCEPT !.alone = FALSE]]
    /\ UNCHANGED <<backend, plans, applies, adoptVars>>

Crash ==
    /\ adopting # {} \/ \E r \in Request : req[r].pc \notin {"idle", "done"}
    /\ req' = [r \in Request |-> Idle]
    /\ adopting' = {}
    /\ cut' = (cut \/ \E a \in adopting : a.stage = "written")
    /\ UNCHANGED <<db, file, backend, plans, applies, foreign, adoptions>>

ApplyStep(r) == \/ ApplyConfig(r) \/ ConfigFails(r) \/ ReadCurrent(r) \/ ReadFails(r)
                \/ Send(r) \/ SendFails(r) \/ ReadBack(r) \/ ReadBackFails(r) \/ Consume(r)

Operator == \/ \E d \in Document : PreviewDynSec(d)
            \/ AdoptDynSec
            \/ \E r \in Request, p \in DOMAIN plans : BeginApply(r, p)

DynSecNext ==
    \/ Operator
    \/ \E r \in Request : ApplyStep(r)
    \/ \E m \in Foreign : ForeignCommand(m)
    \/ Crash

DynSecSpec == DynSecInit /\ [][DynSecNext]_dynsecVars

-----------------------------------------------------------------------------
\* dynsec.go: a change is applied only as it was reviewed.  Commands that reach
\* the plugin while nobody else writes to it leave exactly the state the preview
\* promised, whatever document the request carried and however often the plan
\* was tried before (a crash, a lost answer or a timeout leaves it unconsumed).
ReviewedEffect ==
    [][\A r \in Request :
         (req[r].pc = "send" /\ req[r].alone /\ db' # db /\ req'[r].pc # "send" /\ foreign' = foreign)
            => Redacted(db') = plans[req[r].plan].promised]_dynsecVars

\* plan.go's shapes the plugin refuses: an entry whose verdict changes under the
\* same priority is added without being removed, and a member of a group that
\* exists is added twice.
FlipsEntry(current, desired) ==
    \E x \in DOMAIN current.roles \cap DOMAIN desired.roles :
       \E t \in DOMAIN current.roles[x] \cap DOMAIN desired.roles[x] :
          /\ current.roles[x][t].allow # desired.roles[x][t].allow
          /\ current.roles[x][t].priority = desired.roles[x][t].priority
JoinsGroup(current, desired) ==
    \E g \in DOMAIN current.groups \cap DOMAIN desired.groups :
       desired.groups[g].clients \ current.groups[g].clients # {}
CreatesDisabled(current, desired) ==
    \E c \in DOMAIN desired.clients \ DOMAIN current.clients : desired.clients[c].disabled
\* The command that takes the group from the anonymous clients names no group.
ClearsAnonymous(current, desired) == desired.anonymous = NoGroup /\ current.anonymous # NoGroup

\* plan.go BuildPlan with service.go Verify: a plan that nobody disturbs is
\* refused or unverified only if it flips an entry, adds a client to a group that
\* exists, creates a client disabled, takes the group from the anonymous clients,
\* or comes with a document whose two views of a membership disagree.  Every other
\* plan turns the database into the document.
PlanConverges ==
    \A r \in Request :
       (req[r].result \in {"refused", "unverified"} /\ req[r].alone)
         => \/ FlipsEntry(req[r].read, req[r].effective)
            \/ JoinsGroup(req[r].read, req[r].effective)
            \/ CreatesDisabled(req[r].read, req[r].effective)
            \/ ClearsAnonymous(req[r].read, req[r].effective)
            \/ req[r].effective # Normalize(req[r].effective)

\* plan.go:279 (the summary of the change: "remove the group of the anonymous
\* clients"): a plan that does that and nothing the plugin refuses otherwise
\* succeeds.
AnonymousGroupRemoved ==
    \A r \in Request :
       (req[r].result \in {"refused", "unverified"} /\ req[r].alone
          /\ ClearsAnonymous(req[r].read, req[r].effective))
         => \/ FlipsEntry(req[r].read, req[r].effective)
            \/ JoinsGroup(req[r].read, req[r].effective)
            \/ CreatesDisabled(req[r].read, req[r].effective)

\* Who may reach the control channel by the memberships the groups hold, and
\* what bars the account of MCM from it: it is disabled (the plugin then refuses
\* the client), or one of its roles denies the channel.
Carries(doc, c) ==
    doc.clients[c].roles \cup UNION {doc.groups[g].roles :
                                        g \in {h \in DOMAIN doc.groups : c \in doc.groups[h].clients}}
roleDeniesControlChannel(doc, r) ==
    r \in DOMAIN doc.roles /\ ControlTopic \in DOMAIN doc.roles[r] /\ ~doc.roles[r][ControlTopic].allow
Principals(doc) == {c \in DOMAIN doc.clients : \E x \in Carries(doc, c) : roleGrantsControlChannel(doc, x)}
Barred(doc) == /\ Management \in DOMAIN doc.clients
               /\ \/ doc.clients[Management].disabled
                  \/ \E x \in Carries(doc, Management) : roleDeniesControlChannel(doc, x)
Limited(doc) == /\ Principals(doc) = {Management} /\ ~Barred(doc)
                /\ ~doc.open /\ ~GroupReaches(doc, doc.anonymous)

\* The verdict of an entry for the control channel changes under the same priority.
FlipsControl(current, desired) ==
    \E x \in DOMAIN current.roles \cap DOMAIN desired.roles :
       /\ ControlTopic \in DOMAIN current.roles[x] \cap DOMAIN desired.roles[x]
       /\ current.roles[x][ControlTopic].allow # desired.roles[x][ControlTopic].allow
       /\ current.roles[x][ControlTopic].priority = desired.roles[x][ControlTopic].priority

\* What CheckControlChannel lets through: the plugin refuses the command and
\* carries the rest out, or the document itself bars the account of MCM.
PassesGuard(current, desired) ==
    FlipsControl(current, desired) \/ ClearsAnonymous(current, desired) \/ Barred(desired)

\* dynsec.go: the guard sees the request's document, which is not normalised,
\* and the plugin may refuse some of its commands; still no apply that runs
\* alone takes the control channel away from the management account (it may log
\* in, it holds a role that allows the channel and none that denies it) or gives
\* it to anybody else.  The exceptions are a plan that turns the verdict of a
\* role on the control channel under the same priority, one that takes the group
\* from the anonymous clients, and a document that bars the account of MCM.
ChannelStaysLimited ==
    [][\A r \in Request :
         (req[r].pc = "send" /\ req[r].alone /\ db' # db /\ req'[r].pc # "send" /\ foreign' = foreign
            /\ ~PassesGuard(req[r].read, plans[req[r].plan].desired))
            => (Limited(db) => Limited(db'))]_dynsecVars

\* plan.go:760 ("The management account must keep its access.  Without it nobody
\* could administer the database of the plugin any more"): without another tool
\* the plugin never refuses the account of MCM.
ManagementKeepsAccess ==
    (foreign = 0 /\ db # NoDocument) => Management \in DOMAIN db.clients /\ ~db.clients[Management].disabled

\* dynsec_adopt.go: the database is written by the preview.  Whichever adoption
\* is applied, and also when its apply fails afterwards, the passwords in force
\* are the ones the most recent preview showed, as long as no adoption overlaps
\* another or an apply, or breaks off once it has touched the file.
LatestCredentials ==
    (~cut /\ db # NoDocument /\ foreign = 0 /\ plans # <<>> /\ \A p \in DOMAIN plans : plans[p].kind = "adopt")
      => db.clients[User].password = Generated[plans[Len(plans)].generation]

\* dynsec_adopt.go:47 ("The passwords of the clients the migration creates are
\* shown once, in the answer of this call"): once the plugin runs with a migrated
\* database, somebody was shown the password in force.
ShownCredentials ==
    (db # NoDocument /\ foreign = 0 /\ adopting = {} /\ plans # <<>> /\ \A p \in DOMAIN plans : plans[p].kind = "adopt")
      => \E p \in DOMAIN plans : db.clients[User].password = Generated[plans[p].generation]
=============================================================================

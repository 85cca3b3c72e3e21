--------------------------- MODULE Certificates ---------------------------
(* The certificate service: revisions of the material of one profile are     *)
(* stored on disk and recorded in the database, activated by switching a     *)
(* link, served after a restart of the broker and verified by a handshake.   *)
(* Apply takes no lock, so the requests of several clients interleave.       *)
EXTENDS BrokerHost

CONSTANTS
  Clients,   \* concurrent requests
  Reachable  \* MCM can dial the ports of the listeners

ASSUME ReachableAssumption == Reachable \in BOOLEAN

VARIABLES
  profile,  \* the row of certificate_profiles exists
  crows,    \* state of each row of certificate_revisions, "none" without one
  tmp,      \* target of the temporary link .active.<pid>.tmp, or NoRevision
  req       \* the request each client has in flight

certVars == <<profile, crows, tmp, req>>

RowStates == {"pending", "active", "superseded", "failed"}

Steps == {"idle", "profile", "insert", "unlink", "symlink", "rename",
          "deactivate", "restart", "verify", "mark", "supersede", "fail"}

NoRequest == [pc |-> "idle", rev |-> NoRevision, prev |-> NoRevision, back |-> FALSE]

CertTypeOK ==
  /\ profile \in BOOLEAN
  /\ crows \in [Revisions -> RowStates \union {"none"}]
  /\ tmp \in Links
  /\ req \in [Clients -> [pc : Steps, rev : Links, prev : Links, back : BOOLEAN]]

CertInit ==
  /\ profile = FALSE
  /\ crows = [r \in Revisions |-> "none"]
  /\ tmp = NoRevision
  /\ req = [c \in Clients |-> NoRequest]

Applying(c) == req[c].pc \notin {"idle", "profile", "insert"}

Goto(c, pc) == req' = [req EXCEPT ![c].pc = pc]

Return(c) == req' = [req EXCEPT ![c] = NoRequest]

-----------------------------------------------------------------------------
(* The store of the material on disk and the two tables.                     *)

\* SaveRevision writes the files one after the other, each through a temporary
\* file: it ends with all of them or fails with some.
StoreFiles(r, outcome) == material' = [material EXCEPT ![r] = outcome]

\* RemoveRevision refuses the active revision.
RemoveRevision(r) ==
  material' = IF link = r THEN material ELSE [material EXCEPT ![r] = "none"]

RevisionDirExists(r) == material[r] # "none"

\* ActiveFiles: the paths behind the active link.
ActiveFilesReadable == link # NoRevision /\ RevisionDirExists(link)

UpsertCertificateProfile == profile' = TRUE

InsertCertificateRevision(r) == crows' = [crows EXCEPT ![r] = "pending"]

HasRevisionRow(r) == crows[r] # "none"

UpdateCertificateRevisionState(r, state) == crows' = [crows EXCEPT ![r] = state]

\* ListProfiles reports the link of the store and the states of the rows.
ListProfiles ==
  [active |-> link, recorded |-> {r \in Revisions : crows[r] = "active"}]

-----------------------------------------------------------------------------
(* CreateRevision: files first, then the profile, then the revision.         *)

\* The material is valid and its identifier is fresh. A failure leaves the
\* directory with the files written so far, and no row ever names it.
SaveRevision(c, r) ==
  /\ req[c].pc = "idle"
  /\ material[r] = "none"
  /\ \/ /\ StoreFiles(r, "complete")
        /\ req' = [req EXCEPT ![c] = [NoRequest EXCEPT !.pc = "profile", !.rev = r]]
     \/ StoreFiles(r, "partial") /\ UNCHANGED req
  /\ UNCHANGED <<link, conf, lrows, broker, edits, clean, marked, served, profile, crows, tmp>>

\* discardRevision: the error of the removal is dropped.
DiscardRevision(r) == RemoveRevision(r)

UpsertProfile(c) ==
  /\ req[c].pc = "profile"
  /\ \/ UpsertCertificateProfile /\ Goto(c, "insert") /\ UNCHANGED material
     \/ DiscardRevision(req[c].rev) /\ Return(c) /\ UNCHANGED profile
  /\ UNCHANGED <<link, conf, lrows, broker, edits, clean, marked, served, crows, tmp>>

\* Mutant: an insert that failed after its commit discards the material.
InsertRevisionTwice(c) ==
  /\ req[c].pc = "insert"
  /\ InsertCertificateRevision(req[c].rev)
  /\ (UNCHANGED material \/ DiscardRevision(req[c].rev))
  /\ Return(c)
  /\ UNCHANGED <<link, conf, lrows, broker, edits, clean, marked, served, profile, tmp>>

InsertRevision(c) ==
  /\ req[c].pc = "insert"
  /\ \/ InsertCertificateRevision(req[c].rev) /\ UNCHANGED material
     \/ DiscardRevision(req[c].rev) /\ UNCHANGED crows
  /\ Return(c)
  /\ UNCHANGED <<link, conf, lrows, broker, edits, clean, marked, served, profile, tmp>>

-----------------------------------------------------------------------------
(* Apply.                                                                    *)

LoadRevision(r) == profile /\ HasRevisionRow(r)

\* The revision exists and is not the one the link points at. `busy` says
\* that another apply, of a certificate or of the listeners, is in flight.
BeginApply(c, r, busy) ==
  /\ req[c].pc = "idle"
  /\ LoadRevision(r)
  /\ link # r
  /\ req' = [req EXCEPT ![c] = [pc |-> "unlink", rev |-> r, prev |-> link, back |-> FALSE]]
  /\ clean' = (clean /\ ~busy)
  /\ UNCHANGED <<link, material, conf, lrows, broker, edits, marked, served, profile, crows, tmp>>

\* The revision Activate switches to: the requested one, or the previous one
\* when the request is rolling back.
Target(c) == IF req[c].back THEN req[c].prev ELSE req[c].rev

\* Apply returns the error of Activate, rollback only notes it.
ActivateFails(c) ==
  /\ IF req[c].back THEN Goto(c, "restart") ELSE Return(c)
  /\ clean' = (clean /\ ~req[c].back)

\* Activate: the revision's directory exists, an old temporary link is removed,
\* a new one is created (refused when the name is taken) and renamed over the
\* active link. The temporary name is that of the process, not of the request.
ActivateUnlink(c) ==
  /\ req[c].pc = "unlink"
  /\ IF RevisionDirExists(Target(c))
     THEN tmp' = NoRevision /\ Goto(c, "symlink") /\ UNCHANGED clean
     ELSE ActivateFails(c) /\ UNCHANGED tmp
  /\ UNCHANGED <<link, material, conf, lrows, broker, edits, marked, served, profile, crows>>

ActivateSymlink(c) ==
  /\ req[c].pc = "symlink"
  /\ \/ tmp = NoRevision /\ tmp' = Target(c) /\ Goto(c, "rename") /\ UNCHANGED clean
     \/ ActivateFails(c) /\ UNCHANGED tmp
  /\ UNCHANGED <<link, material, conf, lrows, broker, edits, marked, served, profile, crows>>

ActivateRename(c) ==
  /\ req[c].pc = "rename"
  /\ IF tmp # NoRevision
     THEN link' = tmp /\ Goto(c, "restart") /\ UNCHANGED clean
     ELSE ActivateFails(c) /\ UNCHANGED link
  /\ tmp' = NoRevision
  /\ UNCHANGED <<material, conf, lrows, broker, edits, marked, served, profile, crows>>

Deactivate(c) ==
  /\ req[c].pc = "deactivate"
  /\ \/ link' = NoRevision /\ UNCHANGED clean
     \/ clean' = FALSE /\ UNCHANGED link
  /\ Goto(c, "restart")
  /\ UNCHANGED <<material, conf, lrows, broker, edits, marked, served, profile, crows, tmp>>

\* rollback: to the previous revision, or to no active link.
BeginRollback(c) ==
  req' = [req EXCEPT ![c].back = TRUE,
                     ![c].pc = IF req[c].prev # NoRevision THEN "unlink" ELSE "deactivate"]

\* Mutant: a failed verification restores the link and does not restart.
RestartBrokerOnce(c) ==
  /\ req[c].pc = "restart"
  /\ \/ /\ IF req[c].back THEN UNCHANGED <<broker, served>> ELSE RestartSucceeds
        /\ Goto(c, IF req[c].back THEN "fail" ELSE "verify")
     \/ /\ RestartFails(req[c].back)
        /\ IF req[c].back THEN Goto(c, "fail") ELSE BeginRollback(c)
  /\ UNCHANGED <<link, material, conf, lrows, edits, clean, marked, profile, crows, tmp>>

RestartBroker(c) ==
  /\ req[c].pc = "restart"
  /\ \/ /\ RestartSucceeds
        /\ Goto(c, IF req[c].back THEN "fail" ELSE "verify")
     \/ /\ RestartFails(req[c].back)
        /\ IF req[c].back THEN Goto(c, "fail") ELSE BeginRollback(c)
  /\ UNCHANGED <<link, material, conf, lrows, edits, clean, marked, profile, crows, tmp>>

\* buildVerifyConfig needs a certificate authority to verify the chain against.
VerifiableChain == link \in CARevisions

\* dialListener retries until the broker that is starting accepts, or gives up.
DialSucceeds(s) == Reachable /\ broker.up /\ s \in broker.block

\* verifyListener compares the leaf the broker serves with the leaf behind the
\* active link. A listener MCM cannot judge is unverified, never failed; the
\* handshake itself may fail for reasons of its own.
Verdicts(s) ==
  IF ~ActiveFilesReadable \/ ~VerifiableChain \/ ~DialSucceeds(s)
  THEN {"unverified"}
  ELSE {"failed"} \union (IF s.mutual THEN {"unverified"}
                          ELSE IF broker.cert = link THEN {"verified"} ELSE {})

\* Every listener row bound to the profile is verified; one failure rolls back.
VerifyProfile(c) ==
  /\ req[c].pc = "verify"
  /\ \/ (\A s \in Bound(lrows) : Verdicts(s) # {"failed"}) /\ Goto(c, "mark")
     \/ (\E s \in Bound(lrows) : "failed" \in Verdicts(s)) /\ BeginRollback(c)
  /\ UNCHANGED <<hostVars, profile, crows, tmp>>

MarkActive(c) ==
  /\ req[c].pc = "mark"
  /\ \/ /\ UpdateCertificateRevisionState(req[c].rev, "active")
        /\ IF req[c].prev # NoRevision THEN Goto(c, "supersede") ELSE Return(c)
        /\ UNCHANGED marked
     \/ Return(c) /\ marked' = FALSE /\ UNCHANGED crows
  /\ UNCHANGED <<link, material, conf, lrows, broker, edits, clean, served, profile, tmp>>

\* A previous revision whose row cannot be read is left as it is.
MarkSuperseded(c) ==
  /\ req[c].pc = "supersede"
  /\ \/ /\ HasRevisionRow(req[c].prev)
        /\ UpdateCertificateRevisionState(req[c].prev, "superseded")
        /\ UNCHANGED marked
     \/ marked' = FALSE /\ UNCHANGED crows
  /\ Return(c)
  /\ UNCHANGED <<link, material, conf, lrows, broker, edits, clean, served, profile, tmp>>

MarkFailed(c) ==
  /\ req[c].pc = "fail"
  /\ UpdateCertificateRevisionState(req[c].rev, "failed") \/ UNCHANGED crows
  /\ Return(c)
  /\ UNCHANGED <<hostVars, profile, tmp>>

ApplyStep(c) ==
  \/ ActivateUnlink(c) \/ ActivateSymlink(c) \/ ActivateRename(c) \/ Deactivate(c)
  \/ RestartBroker(c) \/ VerifyProfile(c)
  \/ MarkActive(c) \/ MarkSuperseded(c) \/ MarkFailed(c)

CreateStep(c) == UpsertProfile(c) \/ InsertRevision(c)

\* ResolveProfile: the profile, its active link and the row of that revision.
Resolvable ==
  /\ profile
  /\ link # NoRevision
  /\ HasRevisionRow(link)
=============================================================================

------------------------------- MODULE Applier -------------------------------
(***************************************************************************)
(* FileApplier.Apply and DockerApplier.Apply (internal/mosquitto/          *)
(* applier.go), one action per system call that can fail: stage every temp *)
(* file, rename each into place, delete the retired files, signal the      *)
(* broker, and on a failure after the first rename put the snapshots back. *)
(* The two appliers differ only in how they signal the broker.             *)
(*                                                                         *)
(* Mosquitto handles SIGHUP in its event loop, at any later time: the      *)
(* action BrokerReload reads whatever is on the disk then.                 *)
(***************************************************************************)
EXTENDS Naturals, ManagedFiles

CONSTANTS
    Requests,       \* the requests callers make
    Rank,           \* the order of the files in a request: the broker-wide
                    \* file, the listener files sorted by path, the passwd file
    CanSignal,      \* a PID file, a reload command or a container is configured
    AckLost         \* the reload is a command (docker exec, ReloadCommand): it
                    \* can deliver the signal and still report an error

VARIABLES
    disk,           \* [Path -> Content]
    tmp,            \* paths for which the running call holds a temp file
    phase,          \* where the call is
    todo,           \* the files the current phase still has to process
    req,            \* the request being applied
    result,         \* as in ApplierSpec
    before,         \* history: the disk when the call started
    serving,        \* the contents the broker loaded last
    hup             \* a SIGHUP the broker has not handled yet

vars == <<disk, tmp, phase, todo, req, result, before, serving, hup>>

\* The promise.  During a call the abstract disk is still the old one.
Abs == INSTANCE ApplierSpec WITH disk <- IF result = "busy" THEN before ELSE disk

ASSUME RequestsAssumption == \A q \in Requests : WellFormed(q)

ASSUME RankAssumption == Rank \in [Path -> Nat]

ASSUME FlagAssumption == CanSignal \in BOOLEAN /\ AckLost \in BOOLEAN

Phases == {"idle", "enter", "stage", "commit", "remove", "reload", "restore"}

TypeOK == /\ disk \in [Path -> Content]
          /\ tmp \in SUBSET Path
          /\ phase \in Phases
          /\ todo \in SUBSET Path
          /\ req \in Request
          /\ result \in Results \cup {"none", "busy"}
          /\ before \in [Path -> Content]
          /\ serving \in [Path -> Content]
          /\ hup \in BOOLEAN

Init == /\ disk \in [Path -> Content]
        /\ tmp = {}
        /\ phase = "idle"
        /\ todo = {}
        /\ req \in Requests
        /\ result = "none"
        /\ before = disk
        /\ serving = disk
        /\ hup = FALSE

\* The files of a phase are processed in the order of the request.
IsNext(p, S) == p \in S /\ \A o \in S : Rank[p] <= Rank[o]

\* The ACL files of the request; the password file is a field of its own.
ACLFiles == req.write \ {Passwd}

Return(r) == phase' = "idle" /\ result' = r /\ todo' = {}
-----------------------------------------------------------------------------
\* The caller passes snapshots that are the disk (the contract), or empty
\* ones: rollbackRequest in the deploy service does the latter.
Call == /\ phase = "idle"
        /\ \E q \in Requests :
              /\ \/ HonestSnapshots(disk, q)
                 \/ \A p \in Touched(q) : q.snap[p] = Blank
              /\ req' = q
        /\ phase' = "enter"
        /\ result' = "busy"
        /\ before' = disk
        /\ UNCHANGED <<disk, tmp, todo, serving, hup>>

\* A cancelled context, or no way to signal a reload: nothing is touched.
Refuse == /\ phase = "enter"
          /\ Return("untouched")
          /\ UNCHANGED <<disk, tmp, req, before, serving, hup>>

Enter == /\ phase = "enter"
         /\ CanSignal
         /\ phase' = "stage"
         /\ todo' = req.write
         /\ UNCHANGED <<disk, tmp, req, result, before, serving, hup>>

\* writeStage: a temp file in the directory of p.
Stage(p) == /\ phase = "stage"
            /\ IsNext(p, todo)
            /\ tmp' = tmp \cup {p}
            /\ todo' = todo \ {p}
            /\ UNCHANGED <<disk, phase, req, result, before, serving, hup>>

\* writeStage fails: the temp files staged so far are removed.
StageFails == /\ phase = "stage"
              /\ todo # {}
              /\ tmp' = {}
              /\ Return("untouched")
              /\ UNCHANGED <<disk, req, before, serving, hup>>

Staged == /\ phase = "stage"
          /\ todo = {}
          /\ phase' = "commit"
          /\ todo' = req.write
          /\ UNCHANGED <<disk, tmp, req, result, before, serving, hup>>

\* commitStage: rename the temp file over p.
Commit(p) == /\ phase = "commit"
             /\ IsNext(p, todo)
             /\ disk' = [disk EXCEPT ![p] = req.body[p]]
             /\ tmp' = tmp \ {p}
             /\ todo' = todo \ {p}
             /\ UNCHANGED <<phase, req, result, before, serving, hup>>

\* Mutant: the rollback forgets the deleted files.
StartRestoreWrittenOnly == phase' = "restore" /\ todo' = req.write

\* rollbackAfterPartialApply puts every file of the request back, the ones
\* that were not renamed yet too.
StartRestore == /\ phase' = "restore"
                /\ todo' = Touched(req)

\* A rename fails: this temp file and the ones still staged are removed.
CommitFails == /\ phase = "commit"
               /\ todo # {}
               /\ tmp' = tmp \ todo
               /\ StartRestore
               /\ UNCHANGED <<disk, req, result, before, serving, hup>>

Committed == /\ phase = "commit"
             /\ todo = {}
             /\ phase' = "remove"
             /\ todo' = req.remove
             /\ UNCHANGED <<disk, tmp, req, result, before, serving, hup>>

\* os.Remove; a file that is already gone is not an error.
Remove(p) == /\ phase = "remove"
             /\ IsNext(p, todo)
             /\ disk' = [disk EXCEPT ![p] = NoFile]
             /\ todo' = todo \ {p}
             /\ UNCHANGED <<tmp, phase, req, result, before, serving, hup>>

RemoveFails == /\ phase = "remove"
               /\ \E p \in todo : IsNext(p, todo) /\ disk[p] # NoFile
               /\ StartRestore
               /\ UNCHANGED <<disk, tmp, req, result, before, serving, hup>>

Removed == /\ phase = "remove"
           /\ todo = {}
           /\ phase' = "reload"
           /\ UNCHANGED <<disk, tmp, todo, req, result, before, serving, hup>>

\* Mutant: the signal is skipped (issue #293).
ReloadSkipped == /\ phase = "reload"
                 /\ Return("ok")
                 /\ UNCHANGED <<disk, tmp, req, before, serving, hup>>

Reload == /\ phase = "reload"
          /\ hup' = TRUE
          /\ Return("ok")
          /\ UNCHANGED <<disk, tmp, req, before, serving>>

\* The signal was not sent, or it was and the command still failed.
ReloadFails == /\ phase = "reload"
               /\ hup' \in IF AckLost THEN {hup, TRUE} ELSE {hup}
               /\ StartRestore
               /\ UNCHANGED <<disk, tmp, req, result, before, serving>>

\* rollbackFromSnapshot: the ACL files, then the deleted files, then the
\* password file; each is staged and renamed at once.
MayRestore(p) ==
    \/ IsNext(p, todo \cap ACLFiles)
    \/ todo \cap ACLFiles = {} /\ IsNext(p, todo \cap req.remove)
    \/ p = Passwd /\ todo = {Passwd}

Restore(p) == /\ phase = "restore"
              /\ MayRestore(p)
              /\ disk' = [disk EXCEPT ![p] = req.snap[p]]
              /\ todo' = todo \ {p}
              /\ UNCHANGED <<tmp, phase, req, result, before, serving, hup>>

\* The first write that fails ends the rollback.
RestoreFails == /\ phase = "restore"
                /\ todo # {}
                /\ Return("rollback_failed")
                /\ UNCHANGED <<disk, tmp, req, before, serving, hup>>

RestoreDone == /\ phase = "restore"
               /\ todo = {}
               /\ Return("restored")
               /\ UNCHANGED <<disk, tmp, req, before, serving, hup>>

\* The process dies: what it renamed so far stays, and its temp files are
\* orphaned (a later call creates new ones under other names).
Crash == /\ phase # "idle"
         /\ Return("crashed")
         /\ tmp' = {}
         /\ UNCHANGED <<disk, req, before, serving, hup>>

\* Mosquitto handles the signal and loads the files it finds.
BrokerReload == /\ hup
                /\ serving' = disk
                /\ hup' = FALSE
                /\ UNCHANGED <<disk, tmp, phase, todo, req, result, before>>

Step == \/ Refuse \/ Enter \/ StageFails \/ Staged \/ CommitFails \/ Committed
        \/ RemoveFails \/ Removed \/ Reload \/ ReloadFails
        \/ RestoreFails \/ RestoreDone
        \/ \E p \in Path : Stage(p) \/ Commit(p) \/ Remove(p) \/ Restore(p)

Next == Call \/ Step \/ Crash \/ BrokerReload

Spec == Init /\ [][Next]_vars

\* The broker's event loop gets to a pending signal.  A call need not return: a
\* reload command runs under context.Background().
FairSpec == Spec /\ WF_vars(BrokerReload)
-----------------------------------------------------------------------------
\* AllOrNothing: when Apply returns nil, an error before the first rename or
\* ErrApplyRestored, and the caller's snapshots were the disk it started from,
\* the contents of the files are all the old ones or all the new ones: "a
\* failure never leaves the broker with a mixture of old and new access
\* control" (ApplyRequest).  Contents compare as defaultFileReader sees them:
\* an absent file may come back empty.
AllOrNothing ==
    result \in {"ok", "untouched", "restored"} /\ HonestSnapshots(before, req) =>
        \/ result = "ok" /\ disk = Written(before, req)
        \/ result # "ok" /\ \A p \in Path : Read(disk[p]) = Read(before[p])

\* TempsReaped: whichever way Apply returns, no .mcm-*.tmp file is left behind
\* (cleanupTempFile on every error path); only a crash orphans them.
TempsReaped == phase = "idle" => tmp = {}

\* ImplementsPromise: the code implements ApplierSpec, for honest and for
\* blank snapshots alike.
ImplementsPromise == Abs!Spec

\* BrokerCatchesUp: after a successful Apply the broker ends up serving what is
\* on the disk, unless a new call starts first (a skipped signal would leave it
\* on the previous files: issue #293, ErrReloadNotSignaled).
BrokerCatchesUp == (result = "ok") ~> (serving = disk \/ result = "busy")

\* RestoredIsServed: after ErrApplyRestored "the broker is serving the previous
\* configuration" (its comment): the files that were put back, or a signal to
\* load them is pending.  A reload command or docker exec that fails or is
\* cancelled after it delivered the signal has already made it load the others.
RestoredIsServed ==
    result = "restored" /\ HonestSnapshots(before, req) =>
        hup \/ \A p \in Path : Read(serving[p]) = Read(disk[p])
-----------------------------------------------------------------------------
\* CallShape: how far each phase of a call has got, file by file: what is
\* renamed, deleted and put back, which temp files exist, and what a result says
\* about the disk.  This is the inductive invariant of the proofs: AllOrNothing,
\* TempsReaped and ImplementsPromise follow from it.
CallShape ==
    /\ phase = "idle" <=> result # "busy"
    /\ WellFormed(req)
    /\ phase \in {"idle", "enter", "remove", "reload", "restore"} => tmp = {}
    /\ phase \in {"enter", "stage"} => disk = before
    /\ phase = "stage" => /\ todo \subseteq req.write
                          /\ tmp = req.write \ todo
    /\ phase = "commit" =>
          /\ todo \subseteq req.write
          /\ tmp = todo
          /\ disk = [p \in Path |-> IF p \in req.write \ todo THEN req.body[p] ELSE before[p]]
    /\ phase = "remove" =>
          /\ todo \subseteq req.remove
          /\ disk = [p \in Path |-> IF p \in req.write THEN req.body[p]
                                    ELSE IF p \in req.remove \ todo THEN NoFile
                                    ELSE before[p]]
    /\ phase = "reload" => disk = Written(before, req)
    /\ phase = "restore" =>
          /\ todo \subseteq Touched(req)
          /\ \A p \in Path : IF p \in Touched(req) \ todo
                             THEN disk[p] = req.snap[p]
                             ELSE disk[p] \in {before[p], Written(before, req)[p]}
    /\ result \in Results => <<result, disk>> \in Outcomes(before, req)
=============================================================================

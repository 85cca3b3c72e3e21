---------------------------- MODULE ManagedFiles ----------------------------
(***************************************************************************)
(* The files MCM writes for the broker, what an ApplyRequest asks          *)
(* (internal/mosquitto/applier.go) and what a call of Applier.Apply can    *)
(* leave on the disk.  Constant definitions only: the vocabulary of        *)
(* ApplierSpec, Applier and Deploy.                                        *)
(***************************************************************************)
CONSTANTS
    Path,       \* the managed files: the broker-wide ACL file, the
                \* per-listener ACL files and the password file
    Passwd,     \* the password file
    Body,       \* the non-empty contents a file can have
    NoFile,     \* the file does not exist
    Blank       \* the file exists and is empty

ASSUME PathAssumption == Passwd \in Path

ASSUME ContentAssumption == NoFile \notin Body /\ Blank \notin Body /\ NoFile # Blank

Text == Body \cup {Blank}
Content == Text \cup {NoFile}

\* defaultFileReader: a file that does not exist reads as the empty string.
Read(c) == IF c = NoFile THEN Blank ELSE c

\* ApplyRequest.  body and snap are total; only the entries of the files the
\* request touches are meaningful.
Request == [write : SUBSET Path, remove : SUBSET Path,
            body : [Path -> Text], snap : [Path -> Text]]

Touched(q) == q.write \cup q.remove

WellFormed(q) == /\ q \in Request
                 /\ q.write \cap q.remove = {}
                 /\ Passwd \in q.write

\* The contract of the interface: the snapshots in the request are the
\* on-disk contents before the apply.
HonestSnapshots(d, q) == \A p \in Touched(q) : q.snap[p] = Read(d[p])

\* The disk after every file was written and every retired file deleted.
Written(d, q) == [p \in Path |-> IF p \in q.write THEN q.body[p]
                                 ELSE IF p \in q.remove THEN NoFile ELSE d[p]]

\* The disk after the request's snapshots were put back.  A file that did not
\* exist before comes back as an empty file: a snapshot cannot say "absent".
Restored(d, q) == [p \in Path |-> IF p \in Touched(q) THEN q.snap[p] ELSE d[p]]

\* The disks a call that stopped half-way can leave: every file it touches is
\* old, new or put back, independently of the others.
Halves(d, q, p) == IF p \in Touched(q) THEN {d[p], Written(d, q)[p], q.snap[p]}
                                       ELSE {d[p]}

Mixtures(d, q) == {e \in [Path -> UNION {Halves(d, q, p) : p \in Path}] :
                      \A p \in Path : e[p] \in Halves(d, q, p)}

\* nil, an error before the first rename, ErrApplyRestored, ErrRollbackFailed,
\* and a process that died during the call.
Results == {"ok", "untouched", "restored", "rollback_failed", "crashed"}

\* The results a call on disk d can have, each with the disk it leaves.
Outcomes(d, q) ==
    {<<"ok", Written(d, q)>>, <<"untouched", d>>, <<"restored", Restored(d, q)>>}
        \cup ({"rollback_failed", "crashed"} \X Mixtures(d, q))
=============================================================================

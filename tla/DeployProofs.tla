----------------------------- MODULE DeployProofs -----------------------------
(***************************************************************************)
(* Proofs about Deploy, for any files, versions, revisions, deployments    *)
(* and bounds.  The inductive invariant relates the phase of the running   *)
(* apply to its plan, the files, the registry and the deployment row.  The *)
(* last section is about AclFiles, which models what the files contain.    *)
(***************************************************************************)
EXTENDS Deploy, AclFiles, TLAPS

-----------------------------------------------------------------------------
(* Contents, renders and requests.                                         *)

LEMMA ContentFacts ==
    /\ Version \subseteq Body /\ PasswdBody \subseteq Body /\ Foreign \in Body
    /\ Blank \notin Version /\ NoFile \notin Version
    /\ NoFile \notin Text /\ Text \subseteq Content /\ Body \subseteq Text
    /\ \A c \in Content : Read(c) \in Text
    /\ \A c \in Text : Read(c) = c
    /\ \A c \in Content : Read(c) \in Version => c \in Version
    /\ \A c \in Content : Read(c) = Foreign <=> c = Foreign
  BY DeployAssumption, ContentAssumption DEF Text, Content, Read

LEMMA ReadsType ==
    ASSUME disk \in [Path -> Content]
    PROVE  Reads \in [Path -> Text]
  BY ContentFacts DEF Reads

(* What Preview stores and BeginApply compares: the wanted rules and users *)
(* with a hash of the service account that verifies.                       *)
LEMMA RenderFacts ==
    ASSUME TypeOK, SaltLeft
    PROVE  /\ Render \in [Path -> Content]
           /\ Verifies(Render[Passwd]) /\ Render[Passwd].users = want[Passwd]
           /\ \A p \in Path \ {Passwd} : Render[p] = want[p]
           /\ Render[ACL] \in Version
           /\ SaltDrawn => salt' \in 0 .. MaxSalt
  <1>1. /\ want \in [Path -> Version \cup {NoFile}]
        /\ want[ACL] \in Version /\ want[Passwd] \in Version
    BY DeployAssumption, PathAssumption DEF TypeOK, Wants
  <1>2. /\ ServiceSalt \in 1 .. MaxSalt
        /\ SaltDrawn => salt' \in 0 .. MaxSalt
    BY DeployAssumption DEF TypeOK, SaltLeft, ServiceSalt, SaltDrawn, Verifies, PasswdBody
  <1> DEFINE hash == [users |-> want[Passwd], salt |-> ServiceSalt]
  <1>3. hash \in PasswdBody /\ hash.users = want[Passwd] /\ hash.salt # 0
    BY <1>1, <1>2, DeployAssumption DEF PasswdBody
  <1>4. /\ Render[Passwd] = hash
        /\ \A p \in Path \ {Passwd} : Render[p] = want[p]
        /\ Render = [p \in Path |-> IF p = Passwd THEN hash ELSE want[p]]
    BY <1>1, PathAssumption DEF Render
  <1>5. Render \in [Path -> Content]
    BY <1>1, <1>3, <1>4, ContentFacts DEF Content, Text
  <1>6. QED
    BY <1>1, <1>2, <1>3, <1>4, <1>5, DeployAssumption DEF Verifies

LEMMA PlanType ==
    ASSUME NEW body \in [Path -> Content], TypeOK
    PROVE  Plan(body) \in Request
  <1>1. [p \in Path |-> Read(body[p])] \in [Path -> Text]
    BY ContentFacts
  <1>2. Files(body) \in SUBSET Path /\ registry \ Files(body) \in SUBSET Path
    BY DEF Files, TypeOK, Listener
  <1>3. QED
    BY <1>1, <1>2, ReadsType DEF Plan, Request, TypeOK

LEMMA RollbackRequestType ==
    ASSUME TypeOK
    PROVE  RollbackRequest \in Request
  <1>1. [p \in Path |-> Blank] \in [Path -> Text]
    BY DEF Text
  <1>2. QED
    BY <1>1 DEF RollbackRequest, Request, Touched, TypeOK

(* A disk that a call leaves, whatever its result, holds contents.         *)
LEMMA WrittenType ==
    ASSUME NEW d \in [Path -> Content], NEW q \in Request
    PROVE  Written(d, q) \in [Path -> Content]
  BY DEF Written, Request, Content

LEMMA MixturesType ==
    ASSUME NEW d \in [Path -> Content], NEW q \in Request, NEW e \in Mixtures(d, q)
    PROVE  e \in [Path -> Content]
  <1>1. \A p \in Path : Halves(d, q, p) \subseteq Content
    BY WrittenType DEF Halves, Request, Content
  <1>2. QED
    BY <1>1 DEF Mixtures

LEMMA OutcomesType ==
    ASSUME NEW d \in [Path -> Content], NEW q \in Request, NEW o \in Outcomes(d, q)
    PROVE  o[2] \in [Path -> Content]
  <1>1. Restored(d, q) \in [Path -> Content]
    BY DEF Restored, Request, Content
  <1>2. QED
    BY <1>1, WrittenType, MixturesType DEF Outcomes

-----------------------------------------------------------------------------
(* The inductive invariant, in parts.                                      *)

\* Phases in which the files read as they did when the apply took its
\* snapshots, in which they are the reviewed ones, and in which the applier
\* has seen the revision.
Before == {"insert", "applying", "consume", "burned", "list", "write", "failed"}
After == {"record", "pending", "settle", "verify", "activate", "rollback"}
Undone == {"unrecord", "rolled_back"}
Handed == After \cup Undone \cup {"failed", "rollback_failed"}

\* What the revision of the running apply showed.
Reviewed == review[cur.rev].body

\* The plan is the one of the reviewed files, and they are what the database
\* asked for when the apply began.
PlanInv ==
    phase # "idle" =>
        /\ plan.write = Files(Reviewed)
        /\ plan.remove \subseteq Listener \ plan.write
        /\ \A p \in Path : plan.body[p] = Read(Reviewed[p])
        /\ Reviewed[ACL] \in Version
        /\ Verifies(Reviewed[Passwd]) /\ Reviewed[Passwd].users = want[Passwd]
        /\ adopts = 0 => \A p \in Path \ {Passwd} : Reviewed[p] = want[p]

\* The disk, relative to the snapshots and the bodies of the plan.
FilesInv ==
    /\ phase \in Before \cup Undone => \A p \in Path : Read(disk[p]) = plan.snap[p]
    /\ phase \in After =>
         \A p \in Path :
            /\ p \in plan.write => disk[p] = plan.body[p]
            /\ p \in plan.remove => disk[p] = NoFile
            /\ p \notin Touched(plan) => Read(disk[p]) = plan.snap[p]

\* The registry, relative to the files the plan writes and deletes.
RegistryInv ==
    /\ phase \in {"insert", "applying", "consume", "list"} =>
         plan.remove = registry \ plan.write
    /\ phase \in {"write"} \cup After => prevManaged \subseteq Touched(plan)
    /\ phase \in {"pending", "settle", "verify", "activate"} =>
         registry = plan.write \cap Listener

\* The deployment row belongs to the running apply and is not final.
RowInv ==
    /\ phase = "insert" => deps[cur.dep].status = "none"
    /\ phase \notin {"idle", "insert"} =>
         deps[cur.dep].rev = cur.rev /\ deps[cur.dep].status \notin Terminal

OnceInv ==
    /\ RevisionReachesApplierOnce
    /\ phase \in {"list", "write"} => revState[cur.rev] = "applied" /\ reached[cur.rev] = 0

Tracked(r) == \E d \in Dep : deps[d].rev = r /\ deps[d].status \in Terminal

TrackInv ==
    faults = 0 => \A r \in Rev :
        reached[r] > 0 => (r = cur.rev /\ phase \in Handed) \/ Tracked(r)

\* The broker has the files or a signal, in every phase, unless an applier call
\* was cut short.
SignalInv == ~cutShort /\ tampers = 0 => hup \/ serving = disk

\* As long as the client stays and no call fails: the rendered listener files
\* are registered, except between the write and the end of the recording.
OwnedInv ==
    /\ phase # "idle" => live
    /\ faults = 0 =>
        /\ phase # "rollback_failed"
        /\ phase \in Before \cup {"idle", "rolled_back"} =>
             \A l \in Listener : disk[l] \in Version => l \in registry
        /\ phase = "write" => prevManaged = registry
        /\ phase \in After \cup {"unrecord"} =>
             \A l \in Listener : plan.snap[l] \in Version => l \in prevManaged

\* The attempts are counted up to the limit and no further.
AttemptInv ==
    phase \in {"insert", "applying", "consume", "list", "write", "record",
               "pending", "settle", "verify"} => attempt < VerifyAttempts

LEMMA StepType == TypeOK /\ AttemptInv /\ [Next]_vars => TypeOK' /\ AttemptInv'
  <1> SUFFICES ASSUME TypeOK, AttemptInv, [Next]_vars PROVE TypeOK' /\ AttemptInv'
    OBVIOUS
  <1> USE DeployAssumption
      DEF database, outside, local, history, bounds, RestOfDatabase, RestOfBounds,
          Goto, Fault, CtxFails, SetStatus
  <1>1. ASSUME NEW p \in Path, NEW v \in Version \cup {NoFile}, Edit(p, v)
        PROVE  TypeOK' /\ AttemptInv'
    BY <1>1 DEF Edit, TypeOK, AttemptInv, Phases, Statuses
  <1>2. ASSUME NEW p \in Path, NEW v \in Version, Adopt(p, v)
        PROVE  TypeOK' /\ AttemptInv'
    <2>0. v # NoFile /\ want' = [want EXCEPT ![p] = v]
      BY <1>2, ContentFacts DEF Adopt
    <2>1. want' \in Wants
      BY <2>0, PathAssumption DEF TypeOK, Wants
    <2>2. QED
      BY <1>2, <2>1 DEF Adopt, TypeOK, AttemptInv
  <1>3. ASSUME NEW l \in Listener, Wire(l) PROVE TypeOK' /\ AttemptInv'
    BY <1>3 DEF Wire, TypeOK, AttemptInv, Phases, Statuses
  <1>4. ASSUME NEW p \in Path, Tamper(p) PROVE TypeOK' /\ AttemptInv'
    <2>1. [users |-> want[Passwd], salt |-> 0] \in PasswdBody
      BY PathAssumption DEF TypeOK, Wants, PasswdBody
    <2>2. disk' \in [Path -> Content]
      BY <1>4, <2>1, ContentFacts DEF Tamper, TypeOK
    <2>3. QED
      BY <1>4, <2>2 DEF Tamper, TypeOK, AttemptInv
  <1>5. ASSUME NEW r \in Rev, Preview(r) PROVE TypeOK' /\ AttemptInv'
    BY <1>5, RenderFacts, ReadsType
       DEF Preview, TypeOK, AttemptInv, Phases, Statuses, Review
  <1>6. ASSUME NEW r \in Rev, Expire(r) PROVE TypeOK' /\ AttemptInv'
    BY <1>6 DEF Expire, TypeOK, AttemptInv, Phases, Statuses
  <1>7. ASSUME NEW r \in Rev, NEW d \in Dep, BeginApply(r, d)
        PROVE  TypeOK' /\ AttemptInv'
    <2>1. review[r].body \in [Path -> Content]
      BY DEF TypeOK, Review
    <2>2. plan' \in Request
      BY <1>7, <2>1, PlanType DEF BeginApply
    <2>3. salt' \in 0 .. MaxSalt
      BY <1>7, RenderFacts DEF BeginApply
    <2>4. cur' \in [rev : Rev, dep : Dep]
      BY <1>7 DEF BeginApply
    <2>5. /\ phase' = "insert" /\ live' = TRUE /\ pendErr' = FALSE /\ attempt' = 0
          /\ UNCHANGED <<database, disk, serving, hup, prevManaged, history, bounds>>
      BY <1>7 DEF BeginApply
    <2>6. attempt' \in 0 .. VerifyAttempts /\ AttemptInv'
      BY <2>5 DEF AttemptInv
    <2>7. QED
      BY <2>2, <2>3, <2>4, <2>5, <2>6 DEF TypeOK, Phases
  <1>8. CASE Insert
    BY <1>8 DEF Insert, TypeOK, AttemptInv, Phases, Statuses
  <1>9. CASE InsertFails
    BY <1>9 DEF InsertFails, TypeOK, AttemptInv, Phases, Statuses
  <1>10. CASE MarkApplying
    BY <1>10 DEF MarkApplying, TypeOK, AttemptInv, Phases, Statuses
  <1>11. CASE MarkApplyingFails
    BY <1>11 DEF MarkApplyingFails, TypeOK, AttemptInv, Phases, Statuses
  <1>12. CASE Consume
    BY <1>12 DEF Consume, TypeOK, AttemptInv, Phases, Statuses
  <1>13. CASE ConsumeFails
    BY <1>13 DEF ConsumeFails, TypeOK, AttemptInv, Phases, Statuses
  <1>14. CASE ListManaged
    BY <1>14 DEF ListManaged, TypeOK, AttemptInv, Phases, Statuses
  <1>15. CASE ListManagedFails
    BY <1>15 DEF ListManagedFails, TypeOK, AttemptInv, Phases, Statuses
  <1>16. CASE Write
    <2>1. Written(disk, plan) \in [Path -> Content]
      BY WrittenType DEF TypeOK
    <2>2. reached' \in [Rev -> Nat]
      BY <1>16 DEF Write, TypeOK
    <2>3. cutShort' \in BOOLEAN /\ hup' \in BOOLEAN
      BY <1>16 DEF Write
    <2>4. QED
      BY <1>16, <2>1, <2>2, <2>3 DEF Write, TypeOK, AttemptInv, Phases, Statuses
  <1>17. CASE WriteFails
    <2>1. PICK o \in Outcomes(disk, plan) : disk' = o[2] /\ MaySignal(o[1], plan)
      BY <1>17 DEF WriteFails
    <2> Written(disk, plan) \in [Path -> Content]
      BY WrittenType DEF TypeOK
    <2> disk' \in [Path -> Content]
      BY <2>1, OutcomesType DEF TypeOK
    <2>2. disk' \in [Path -> Content] /\ hup' \in BOOLEAN /\ serving' \in [Path -> Content]
      BY <2>1 DEF TypeOK, MaySignal
    <2>3. phase' \in {"rollback_failed", "failed"} /\ faults' \in 0 .. MaxFaults
      BY <1>17 DEF WriteFails, TypeOK
    <2>4. reached' \in [Rev -> Nat] /\ cutShort' \in BOOLEAN
      BY <1>17 DEF WriteFails, TypeOK
    <2>5. QED
      BY <1>17, <2>2, <2>3, <2>4
         DEF WriteFails, TypeOK, AttemptInv, Phases, Statuses
  <1>18. CASE Record
    BY <1>18 DEF Record, TypeOK, AttemptInv, Phases, Statuses
  <1>19. CASE RecordFails
    BY <1>19 DEF RecordFails, TypeOK, AttemptInv, Phases, Statuses, RegistryPrefixes
  <1>20. CASE MarkPending
    BY <1>20 DEF MarkPending, TypeOK, AttemptInv, Phases, Statuses
  <1>21. CASE MarkPendingFails
    BY <1>21 DEF MarkPendingFails, TypeOK, AttemptInv, Phases, Statuses
  <1>22. CASE Settle
    BY <1>22 DEF Settle, TypeOK, AttemptInv, Phases, Statuses
  <1>23. CASE NoProbe
    BY <1>23 DEF NoProbe, TypeOK, AttemptInv, Phases, Statuses
  <1>24. CASE VerifyPasses
    BY <1>24 DEF VerifyPasses, TypeOK, AttemptInv, Phases, Statuses
  <1>25. CASE VerifyFails
    BY <1>25 DEF VerifyFails, TypeOK, AttemptInv, Phases, Statuses
  <1>26. CASE Activate
    BY <1>26 DEF Activate, TypeOK, AttemptInv, Phases, Statuses
  <1>27. CASE ActivateFails
    BY <1>27 DEF ActivateFails, TypeOK, AttemptInv, Phases, Statuses
  <1>28. CASE Rollback
    BY <1>28, WrittenType, RollbackRequestType
       DEF Rollback, TypeOK, AttemptInv, Phases, Statuses
  <1>29. CASE RollbackFails
    <2>1. PICK o \in Outcomes(disk, RollbackRequest) :
             disk' = o[2] /\ MaySignal(o[1], RollbackRequest)
      BY <1>29 DEF RollbackFails
    <2> Written(disk, RollbackRequest) \in [Path -> Content]
      BY WrittenType, RollbackRequestType DEF TypeOK
    <2> disk' \in [Path -> Content]
      BY <2>1, OutcomesType, RollbackRequestType DEF TypeOK
    <2>2. disk' \in [Path -> Content] /\ hup' \in BOOLEAN /\ serving' \in [Path -> Content]
      BY <2>1 DEF TypeOK, MaySignal
    <2>3. phase' \in {"rollback_failed", "failed"} /\ faults' \in 0 .. MaxFaults
      BY <1>29 DEF RollbackFails, TypeOK
    <2>4. reached' = reached /\ cutShort' \in BOOLEAN
      BY <1>29 DEF RollbackFails, TypeOK
    <2>5. QED
      BY <1>29, <2>2, <2>3, <2>4
         DEF RollbackFails, TypeOK, AttemptInv, Phases, Statuses
  <1>30. CASE Unrecord
    BY <1>30 DEF Unrecord, TypeOK, AttemptInv, Phases, Statuses
  <1>31. CASE UnrecordFails
    BY <1>31
       DEF UnrecordFails, TypeOK, AttemptInv, Phases, Statuses, RegistryPrefixes
  <1>32. CASE Finish
    <2>1. FinalStatus \in Statuses
      BY <1>32 DEF Finish, FinalStatus, Statuses
    <2>2. QED
      BY <1>32, <2>1 DEF Finish, TypeOK, AttemptInv, Phases
  <1>33. CASE FinishFails
    BY <1>33 DEF FinishFails, TypeOK, AttemptInv, Phases, Statuses
  <1>34. CASE Cancel
    BY <1>34 DEF Cancel, TypeOK, AttemptInv, Phases, Statuses
  <1>35. CASE Crash
    <2>1. faults' \in 0 .. MaxFaults /\ reached' \in [Rev -> Nat]
      BY <1>35 DEF Crash, TypeOK
    <2> cutShort' \in BOOLEAN
      BY <1>35 DEF Crash, TypeOK
    <2> /\ Written(disk, plan) \in [Path -> Content]
        /\ Written(disk, RollbackRequest) \in [Path -> Content]
      BY WrittenType, RollbackRequestType DEF TypeOK
    <2> disk' \in [Path -> Content]
      BY <1>35, MixturesType, RollbackRequestType DEF Crash, TypeOK
    <2>2. disk' \in [Path -> Content] /\ hup' \in BOOLEAN /\ serving' \in [Path -> Content]
      BY <1>35 DEF Crash, TypeOK, MaySignal
    <2>3. QED
      BY <1>35, <2>1, <2>2 DEF Crash, TypeOK, AttemptInv, Phases, Statuses
  <1>36. CASE BrokerReload
    BY <1>36 DEF BrokerReload, TypeOK, AttemptInv, Phases, Statuses
  <1>37. CASE UNCHANGED vars
    BY <1>37 DEF vars, TypeOK, AttemptInv, Phases, Statuses
  <1>38. QED
    BY <1>1, <1>2, <1>3, <1>4, <1>5, <1>6, <1>7, <1>8, <1>9, <1>10, <1>11,
       <1>12, <1>13, <1>14, <1>15, <1>16, <1>17, <1>18, <1>19, <1>20, <1>21,
       <1>22, <1>23, <1>24, <1>25, <1>26, <1>27, <1>28, <1>29, <1>30, <1>31,
       <1>32, <1>33, <1>34, <1>35, <1>36, <1>37 DEF Next, Operator, Step

(* What the results of a call of the applier say about the disk.           *)
LEMMA OutcomeFacts ==
    ASSUME NEW d, NEW q, NEW o \in Outcomes(d, q)
    PROVE  /\ o[1] = "ok" => o[2] = Written(d, q)
           /\ o[1] = "untouched" => o[2] = d
           /\ o[1] = "restored" => o[2] = Restored(d, q)
           /\ o[1] \in {"rollback_failed", "crashed"} => o[2] \in Mixtures(d, q)
           /\ o[1] \in Results
  BY DEF Outcomes, Results

LEMMA StepFiles ==
    TypeOK /\ PlanInv /\ FilesInv /\ RegistryInv /\ [Next]_vars
        => PlanInv' /\ FilesInv' /\ RegistryInv'
  <1> SUFFICES ASSUME TypeOK, PlanInv, FilesInv, RegistryInv, [Next]_vars
               PROVE  PlanInv' /\ FilesInv' /\ RegistryInv'
    OBVIOUS
  <1> USE DeployAssumption
      DEF database, outside, local, history, bounds, RestOfDatabase, RestOfBounds,
          Goto, Fault, CtxFails, SetStatus
  <1>1. ASSUME NEW p \in Path, NEW v \in Version \cup {NoFile}, Edit(p, v)
        PROVE  PlanInv' /\ FilesInv' /\ RegistryInv'
    BY <1>1
       DEF Edit, TypeOK, PlanInv, Reviewed, FilesInv, RegistryInv, Before, After,
           Undone
  <1>2. ASSUME NEW p \in Path, NEW v \in Version, Adopt(p, v)
        PROVE  PlanInv' /\ FilesInv' /\ RegistryInv'
    BY <1>2
       DEF Adopt, TypeOK, PlanInv, Reviewed, FilesInv, RegistryInv, Before, After,
           Undone
  <1>3. ASSUME NEW l \in Listener, Wire(l)
        PROVE  PlanInv' /\ FilesInv' /\ RegistryInv'
    BY <1>3
       DEF Wire, TypeOK, PlanInv, Reviewed, FilesInv, RegistryInv, Before, After,
           Undone
  <1>4. ASSUME NEW p \in Path, Tamper(p) PROVE PlanInv' /\ FilesInv' /\ RegistryInv'
    BY <1>4
       DEF Tamper, TypeOK, PlanInv, Reviewed, FilesInv, RegistryInv, Before, After,
           Undone
  <1>5. ASSUME NEW r \in Rev, Preview(r) PROVE PlanInv' /\ FilesInv' /\ RegistryInv'
    BY <1>5
       DEF Preview, TypeOK, PlanInv, Reviewed, FilesInv, RegistryInv, Before, After,
           Undone
  <1>6. ASSUME NEW r \in Rev, Expire(r) PROVE PlanInv' /\ FilesInv' /\ RegistryInv'
    BY <1>6
       DEF Expire, TypeOK, PlanInv, Reviewed, FilesInv, RegistryInv, Before, After,
           Undone
  <1>7. ASSUME NEW r \in Rev, NEW d \in Dep, BeginApply(r, d)
        PROVE  PlanInv' /\ FilesInv' /\ RegistryInv'
    <2> DEFINE body == review[r].body
    <2>1. /\ body = Render /\ plan' = Plan(body) /\ cur' = [rev |-> r, dep |-> d]
          /\ phase' = "insert" /\ SaltLeft
          /\ UNCHANGED <<review, registry, disk, want, adopts, prevManaged>>
      BY <1>7, ContentFacts DEF BeginApply, RenderMatches, Blocking, TypeOK
    <2>2. Reviewed' = body
      BY <2>1 DEF Reviewed
    <2>3. /\ body \in [Path -> Content] /\ body[ACL] \in Version
          /\ Verifies(body[Passwd]) /\ body[Passwd].users = want[Passwd]
          /\ \A p \in Path \ {Passwd} : body[p] = want[p]
      BY <2>1, RenderFacts
    <2>4. /\ plan'.write = Files(body) /\ plan'.remove = registry \ Files(body)
          /\ \A p \in Path : plan'.body[p] = Read(body[p])
          /\ \A p \in Path : plan'.snap[p] = Read(disk[p])
      BY <2>1 DEF Plan, Reads
    <2> HIDE DEF body
    <2>6. PlanInv'
      BY <2>1, <2>2, <2>3, <2>4 DEF PlanInv, TypeOK
    <2>7. FilesInv' /\ RegistryInv'
      BY <2>1, <2>4 DEF FilesInv, RegistryInv, Before, After, Undone
    <2>8. QED
      BY <2>6, <2>7
  <1>8. CASE Insert
    BY <1>8
       DEF Insert, TypeOK, PlanInv, Reviewed, FilesInv, RegistryInv, Before, After,
           Undone
  <1>9. CASE InsertFails
    BY <1>9
       DEF InsertFails, TypeOK, PlanInv, Reviewed, FilesInv, RegistryInv, Before,
           After, Undone
  <1>10. CASE MarkApplying
    BY <1>10
       DEF MarkApplying, TypeOK, PlanInv, Reviewed, FilesInv, RegistryInv, Before,
           After, Undone
  <1>11. CASE MarkApplyingFails
    BY <1>11
       DEF MarkApplyingFails, TypeOK, PlanInv, Reviewed, FilesInv, RegistryInv,
           Before, After, Undone
  <1>12. CASE Consume
    BY <1>12
       DEF Consume, TypeOK, PlanInv, Reviewed, FilesInv, RegistryInv, Before, After,
           Undone
  <1>13. CASE ConsumeFails
    BY <1>13
       DEF ConsumeFails, TypeOK, PlanInv, Reviewed, FilesInv, RegistryInv, Before,
           After, Undone
  <1>14. CASE ListManaged
    <2>1. /\ prevManaged' = registry /\ plan.remove = registry \ plan.write
          /\ phase' = "write" /\ plan' = plan
      BY <1>14 DEF ListManaged, RegistryInv
    <2>2. prevManaged' \subseteq Touched(plan')
      BY <2>1 DEF Touched
    <2>3. RegistryInv'
      BY <2>1, <2>2 DEF RegistryInv
    <2>4. PlanInv' /\ FilesInv'
      BY <1>14 DEF ListManaged, PlanInv, Reviewed, FilesInv, Before, After, Undone
    <2>5. QED
      BY <2>3, <2>4
  <1>15. CASE ListManagedFails
    BY <1>15
       DEF ListManagedFails, TypeOK, PlanInv, Reviewed, FilesInv, RegistryInv,
           Before, After, Undone
  <1>16. CASE Write
    <2>1. PlanInv' /\ RegistryInv'
      BY <1>16 DEF Write, PlanInv, Reviewed, RegistryInv, After, Undone
    <2>2. disk' = Written(disk, plan) /\ phase' = "record" /\ plan' = plan
      BY <1>16 DEF Write
    <2>3. /\ plan.remove \cap plan.write = {}
          /\ \A p \in Path : Read(disk[p]) = plan.snap[p]
      BY <1>16 DEF Write, PlanInv, FilesInv, Before
    <2>5. FilesInv'
      BY <2>2, <2>3 DEF FilesInv, Written, Touched, Before, After, Undone
    <2>6. QED
      BY <2>1, <2>5
  <1>17. CASE WriteFails
    <2>1. PlanInv' /\ RegistryInv'
      BY <1>17 DEF WriteFails, PlanInv, Reviewed, RegistryInv, After, Undone
    <2>2. PICK o \in Outcomes(disk, plan) :
             /\ o[1] \in {"untouched", "restored", "rollback_failed"}
             /\ disk' = o[2]
             /\ phase' = IF o[1] = "rollback_failed" THEN "rollback_failed" ELSE "failed"
      BY <1>17 DEF WriteFails
    <2>3. plan' = plan /\ \A p \in Path : Read(disk[p]) = plan.snap[p]
      BY <1>17 DEF WriteFails, FilesInv, Before
    <2>5. CASE o[1] = "rollback_failed"
      BY <2>1, <2>2, <2>5 DEF FilesInv, Before, After, Undone
    <2>6. CASE o[1] = "untouched"
      BY <2>1, <2>2, <2>3, <2>6, OutcomeFacts
         DEF FilesInv, Before, After, Undone
    <2>7. CASE o[1] = "restored"
      <3>1. disk' = Restored(disk, plan)
        BY <2>2, <2>7, OutcomeFacts
      <3>2. \A p \in Path : Read(plan.snap[p]) = plan.snap[p]
        BY ContentFacts DEF TypeOK, Request
      <3>3. \A p \in Path : Read(disk'[p]) = plan.snap[p]
        BY <2>3, <3>1, <3>2 DEF Restored
      <3>4. QED
        BY <2>1, <2>2, <2>3, <2>7, <3>3 DEF FilesInv, Before, After, Undone
    <2>8. QED
      BY <2>2, <2>5, <2>6, <2>7
  <1>18. CASE Record
    BY <1>18
       DEF Record, TypeOK, PlanInv, Reviewed, FilesInv, RegistryInv, Before, After,
           Undone
  <1>19. CASE RecordFails
    BY <1>19
       DEF RecordFails, TypeOK, PlanInv, Reviewed, FilesInv, RegistryInv, Before,
           After, Undone
  <1>20. CASE MarkPending
    BY <1>20
       DEF MarkPending, TypeOK, PlanInv, Reviewed, FilesInv, RegistryInv, Before,
           After, Undone
  <1>21. CASE MarkPendingFails
    BY <1>21
       DEF MarkPendingFails, TypeOK, PlanInv, Reviewed, FilesInv, RegistryInv,
           Before, After, Undone
  <1>22. CASE Settle
    BY <1>22
       DEF Settle, TypeOK, PlanInv, Reviewed, FilesInv, RegistryInv, Before, After,
           Undone
  <1>23. CASE NoProbe
    BY <1>23
       DEF NoProbe, TypeOK, PlanInv, Reviewed, FilesInv, RegistryInv, Before, After,
           Undone
  <1>24. CASE VerifyPasses
    BY <1>24
       DEF VerifyPasses, TypeOK, PlanInv, Reviewed, FilesInv, RegistryInv, Before,
           After, Undone
  <1>25. CASE VerifyFails
    BY <1>25
       DEF VerifyFails, TypeOK, PlanInv, Reviewed, FilesInv, RegistryInv, Before,
           After, Undone
  <1>26. CASE Activate
    BY <1>26
       DEF Activate, TypeOK, PlanInv, Reviewed, FilesInv, RegistryInv, Before,
           After, Undone
  <1>27. CASE ActivateFails
    BY <1>27
       DEF ActivateFails, TypeOK, PlanInv, Reviewed, FilesInv, RegistryInv, Before,
           After, Undone
  <1>28. CASE Rollback
    <2>1. PlanInv' /\ RegistryInv'
      BY <1>28 DEF Rollback, PlanInv, Reviewed, RegistryInv, After, Undone
    <2>2. disk' = Written(disk, RollbackRequest) /\ phase' = "unrecord" /\ plan' = plan
      BY <1>28 DEF Rollback
    <2>3. \A p \in Path : p \notin Touched(plan) => Read(disk[p]) = plan.snap[p]
      BY <1>28 DEF Rollback, FilesInv, After
    <2>4. \A p \in Path : Read(plan.snap[p]) = plan.snap[p]
      BY ContentFacts DEF TypeOK, Request
    <2>5. \A p \in Path : Read(disk'[p]) = plan.snap[p]
      BY <2>2, <2>3, <2>4 DEF Written, RollbackRequest
    <2>7. FilesInv'
      BY <2>2, <2>5 DEF FilesInv, Before, After, Undone
    <2>8. QED
      BY <2>1, <2>7
  <1>29. CASE RollbackFails
    <2>1. PlanInv' /\ RegistryInv'
      BY <1>29 DEF RollbackFails, PlanInv, Reviewed, RegistryInv, After, Undone
    <2>2. /\ \E o \in Outcomes(disk, RollbackRequest) : disk' = o[2]
          /\ phase' = "rollback_failed"
      BY <1>29 DEF RollbackFails
    <2>4. FilesInv'
      BY <2>2 DEF FilesInv, Before, After, Undone
    <2>5. QED
      BY <2>1, <2>4
  <1>30. CASE Unrecord
    BY <1>30
       DEF Unrecord, TypeOK, PlanInv, Reviewed, FilesInv, RegistryInv, Before,
           After, Undone
  <1>31. CASE UnrecordFails
    BY <1>31
       DEF UnrecordFails, TypeOK, PlanInv, Reviewed, FilesInv, RegistryInv, Before,
           After, Undone
  <1>32. CASE Finish
    BY <1>32
       DEF Finish, TypeOK, PlanInv, Reviewed, FilesInv, RegistryInv, Before, After,
           Undone
  <1>33. CASE FinishFails
    BY <1>33
       DEF FinishFails, TypeOK, PlanInv, Reviewed, FilesInv, RegistryInv, Before,
           After, Undone
  <1>34. CASE Cancel
    BY <1>34
       DEF Cancel, TypeOK, PlanInv, Reviewed, FilesInv, RegistryInv, Before, After,
           Undone
  <1>35. CASE Crash
    BY <1>35
       DEF Crash, TypeOK, PlanInv, Reviewed, FilesInv, RegistryInv, Before, After,
           Undone
  <1>36. CASE BrokerReload
    BY <1>36
       DEF BrokerReload, TypeOK, PlanInv, Reviewed, FilesInv, RegistryInv, Before,
           After, Undone
  <1>37. CASE UNCHANGED vars
    BY <1>37
       DEF vars, TypeOK, PlanInv, Reviewed, FilesInv, RegistryInv, Before, After,
           Undone
  <1>38. QED
    BY <1>1, <1>2, <1>3, <1>4, <1>5, <1>6, <1>7, <1>8, <1>9, <1>10, <1>11,
       <1>12, <1>13, <1>14, <1>15, <1>16, <1>17, <1>18, <1>19, <1>20, <1>21,
       <1>22, <1>23, <1>24, <1>25, <1>26, <1>27, <1>28, <1>29, <1>30, <1>31,
       <1>32, <1>33, <1>34, <1>35, <1>36, <1>37 DEF Next, Operator, Step

LEMMA StepRows ==
    TypeOK /\ RowInv /\ OnceInv /\ TrackInv /\ [Next]_vars
        => RowInv' /\ OnceInv' /\ TrackInv'
  <1> SUFFICES ASSUME TypeOK, RowInv, OnceInv, TrackInv, [Next]_vars
               PROVE  RowInv' /\ OnceInv' /\ TrackInv'
    OBVIOUS
  <1> USE DeployAssumption
      DEF database, outside, local, history, bounds, RestOfDatabase, RestOfBounds,
          Goto, Fault, CtxFails, SetStatus
  <1>1. ASSUME NEW p \in Path, NEW v \in Version \cup {NoFile}, Edit(p, v)
        PROVE  RowInv' /\ OnceInv' /\ TrackInv'
    BY <1>1
       DEF Edit, TypeOK, RowInv, OnceInv, RevisionReachesApplierOnce, TrackInv,
           Tracked, Handed, After, Undone, Terminal
  <1>2. ASSUME NEW p \in Path, NEW v \in Version, Adopt(p, v)
        PROVE  RowInv' /\ OnceInv' /\ TrackInv'
    BY <1>2
       DEF Adopt, TypeOK, RowInv, OnceInv, RevisionReachesApplierOnce, TrackInv,
           Tracked, Handed, After, Undone, Terminal
  <1>3. ASSUME NEW l \in Listener, Wire(l) PROVE RowInv' /\ OnceInv' /\ TrackInv'
    BY <1>3
       DEF Wire, TypeOK, RowInv, OnceInv, RevisionReachesApplierOnce, TrackInv,
           Tracked, Handed, After, Undone, Terminal
  <1>4. ASSUME NEW p \in Path, Tamper(p) PROVE RowInv' /\ OnceInv' /\ TrackInv'
    BY <1>4
       DEF Tamper, TypeOK, RowInv, OnceInv, RevisionReachesApplierOnce, TrackInv,
           Tracked, Handed, After, Undone, Terminal
  <1>5. ASSUME NEW r \in Rev, Preview(r) PROVE RowInv' /\ OnceInv' /\ TrackInv'
    BY <1>5
       DEF Preview, TypeOK, RowInv, OnceInv, RevisionReachesApplierOnce, TrackInv,
           Tracked, Handed, After, Undone, Terminal
  <1>6. ASSUME NEW r \in Rev, Expire(r) PROVE RowInv' /\ OnceInv' /\ TrackInv'
    BY <1>6
       DEF Expire, TypeOK, RowInv, OnceInv, RevisionReachesApplierOnce, TrackInv,
           Tracked, Handed, After, Undone, Terminal
  <1>7. ASSUME NEW r \in Rev, NEW d \in Dep, BeginApply(r, d)
        PROVE  RowInv' /\ OnceInv' /\ TrackInv'
    BY <1>7
       DEF BeginApply, TypeOK, RowInv, OnceInv, RevisionReachesApplierOnce,
           TrackInv, Tracked, Handed, After, Undone, Terminal
  <1>8. CASE Insert
    BY <1>8
       DEF Insert, TypeOK, RowInv, OnceInv, RevisionReachesApplierOnce, TrackInv,
           Tracked, Handed, After, Undone, Terminal
  <1>9. CASE InsertFails
    BY <1>9
       DEF InsertFails, TypeOK, RowInv, OnceInv, RevisionReachesApplierOnce,
           TrackInv, Tracked, Handed, After, Undone, Terminal
  <1>10. CASE MarkApplying
    BY <1>10
       DEF MarkApplying, TypeOK, RowInv, OnceInv, RevisionReachesApplierOnce,
           TrackInv, Tracked, Handed, After, Undone, Terminal
  <1>11. CASE MarkApplyingFails
    BY <1>11
       DEF MarkApplyingFails, TypeOK, RowInv, OnceInv, RevisionReachesApplierOnce,
           TrackInv, Tracked, Handed, After, Undone, Terminal
  <1>12. CASE Consume
    BY <1>12
       DEF Consume, TypeOK, RowInv, OnceInv, RevisionReachesApplierOnce, TrackInv,
           Tracked, Handed, After, Undone, Terminal
  <1>13. CASE ConsumeFails
    BY <1>13
       DEF ConsumeFails, TypeOK, RowInv, OnceInv, RevisionReachesApplierOnce,
           TrackInv, Tracked, Handed, After, Undone, Terminal
  <1>14. CASE ListManaged
    BY <1>14
       DEF ListManaged, TypeOK, RowInv, OnceInv, RevisionReachesApplierOnce,
           TrackInv, Tracked, Handed, After, Undone, Terminal
  <1>15. CASE ListManagedFails
    BY <1>15
       DEF ListManagedFails, TypeOK, RowInv, OnceInv, RevisionReachesApplierOnce,
           TrackInv, Tracked, Handed, After, Undone, Terminal
  <1>16. CASE Write
    BY <1>16
       DEF Write, TypeOK, RowInv, OnceInv, RevisionReachesApplierOnce, TrackInv,
           Tracked, Handed, After, Undone, Terminal
  <1>17. CASE WriteFails
    BY <1>17
       DEF WriteFails, TypeOK, RowInv, OnceInv, RevisionReachesApplierOnce,
           TrackInv, Tracked, Handed, After, Undone, Terminal
  <1>18. CASE Record
    BY <1>18
       DEF Record, TypeOK, RowInv, OnceInv, RevisionReachesApplierOnce, TrackInv,
           Tracked, Handed, After, Undone, Terminal
  <1>19. CASE RecordFails
    BY <1>19
       DEF RecordFails, TypeOK, RowInv, OnceInv, RevisionReachesApplierOnce,
           TrackInv, Tracked, Handed, After, Undone, Terminal
  <1>20. CASE MarkPending
    BY <1>20
       DEF MarkPending, TypeOK, RowInv, OnceInv, RevisionReachesApplierOnce,
           TrackInv, Tracked, Handed, After, Undone, Terminal
  <1>21. CASE MarkPendingFails
    BY <1>21
       DEF MarkPendingFails, TypeOK, RowInv, OnceInv, RevisionReachesApplierOnce,
           TrackInv, Tracked, Handed, After, Undone, Terminal
  <1>22. CASE Settle
    BY <1>22
       DEF Settle, TypeOK, RowInv, OnceInv, RevisionReachesApplierOnce, TrackInv,
           Tracked, Handed, After, Undone, Terminal
  <1>23. CASE NoProbe
    BY <1>23
       DEF NoProbe, TypeOK, RowInv, OnceInv, RevisionReachesApplierOnce, TrackInv,
           Tracked, Handed, After, Undone, Terminal
  <1>24. CASE VerifyPasses
    BY <1>24
       DEF VerifyPasses, TypeOK, RowInv, OnceInv, RevisionReachesApplierOnce,
           TrackInv, Tracked, Handed, After, Undone, Terminal
  <1>25. CASE VerifyFails
    BY <1>25
       DEF VerifyFails, TypeOK, RowInv, OnceInv, RevisionReachesApplierOnce,
           TrackInv, Tracked, Handed, After, Undone, Terminal
  <1>26. CASE Activate
    BY <1>26
       DEF Activate, TypeOK, RowInv, OnceInv, RevisionReachesApplierOnce, TrackInv,
           Tracked, Handed, After, Undone, Terminal
  <1>27. CASE ActivateFails
    BY <1>27
       DEF ActivateFails, TypeOK, RowInv, OnceInv, RevisionReachesApplierOnce,
           TrackInv, Tracked, Handed, After, Undone, Terminal
  <1>28. CASE Rollback
    BY <1>28
       DEF Rollback, TypeOK, RowInv, OnceInv, RevisionReachesApplierOnce, TrackInv,
           Tracked, Handed, After, Undone, Terminal
  <1>29. CASE RollbackFails
    BY <1>29
       DEF RollbackFails, TypeOK, RowInv, OnceInv, RevisionReachesApplierOnce,
           TrackInv, Tracked, Handed, After, Undone, Terminal
  <1>30. CASE Unrecord
    BY <1>30
       DEF Unrecord, TypeOK, RowInv, OnceInv, RevisionReachesApplierOnce, TrackInv,
           Tracked, Handed, After, Undone, Terminal
  <1>31. CASE UnrecordFails
    BY <1>31
       DEF UnrecordFails, TypeOK, RowInv, OnceInv, RevisionReachesApplierOnce,
           TrackInv, Tracked, Handed, After, Undone, Terminal
  <1>32. CASE Finish
    <2>1. FinalStatus \in Terminal
      BY <1>32 DEF Finish, FinalStatus, Terminal
    <2>2. QED
      BY <1>32, <2>1
         DEF Finish, TypeOK, RowInv, OnceInv, RevisionReachesApplierOnce, TrackInv,
             Tracked, Handed, After, Undone, Terminal
  <1>33. CASE FinishFails
    BY <1>33
       DEF FinishFails, TypeOK, RowInv, OnceInv, RevisionReachesApplierOnce,
           TrackInv, Tracked, Handed, After, Undone, Terminal
  <1>34. CASE Cancel
    BY <1>34
       DEF Cancel, TypeOK, RowInv, OnceInv, RevisionReachesApplierOnce, TrackInv,
           Tracked, Handed, After, Undone, Terminal
  <1>35. CASE Crash
    BY <1>35
       DEF Crash, TypeOK, RowInv, OnceInv, RevisionReachesApplierOnce, TrackInv,
           Tracked, Handed, After, Undone, Terminal
  <1>36. CASE BrokerReload
    BY <1>36
       DEF BrokerReload, TypeOK, RowInv, OnceInv, RevisionReachesApplierOnce,
           TrackInv, Tracked, Handed, After, Undone, Terminal
  <1>37. CASE UNCHANGED vars
    BY <1>37
       DEF vars, TypeOK, RowInv, OnceInv, RevisionReachesApplierOnce, TrackInv,
           Tracked, Handed, After, Undone, Terminal
  <1>38. QED
    BY <1>1, <1>2, <1>3, <1>4, <1>5, <1>6, <1>7, <1>8, <1>9, <1>10, <1>11,
       <1>12, <1>13, <1>14, <1>15, <1>16, <1>17, <1>18, <1>19, <1>20, <1>21,
       <1>22, <1>23, <1>24, <1>25, <1>26, <1>27, <1>28, <1>29, <1>30, <1>31,
       <1>32, <1>33, <1>34, <1>35, <1>36, <1>37 DEF Next, Operator, Step

LEMMA StepSignal == TypeOK /\ SignalInv /\ [Next]_vars => SignalInv'
  <1> SUFFICES ASSUME TypeOK, SignalInv, [Next]_vars PROVE SignalInv'
    OBVIOUS
  <1> USE DeployAssumption
      DEF database, outside, local, history, bounds, RestOfDatabase, RestOfBounds,
          Goto, Fault, CtxFails, SetStatus
  <1>1. ASSUME NEW p \in Path, NEW v \in Version \cup {NoFile}, Edit(p, v)
        PROVE  SignalInv'
    BY <1>1 DEF Edit, TypeOK, SignalInv
  <1>2. ASSUME NEW p \in Path, NEW v \in Version, Adopt(p, v) PROVE SignalInv'
    BY <1>2 DEF Adopt, TypeOK, SignalInv
  <1>3. ASSUME NEW l \in Listener, Wire(l) PROVE SignalInv'
    BY <1>3 DEF Wire, TypeOK, SignalInv
  <1>4. ASSUME NEW p \in Path, Tamper(p) PROVE SignalInv'
    BY <1>4 DEF Tamper, TypeOK, SignalInv
  <1>5. ASSUME NEW r \in Rev, Preview(r) PROVE SignalInv'
    BY <1>5 DEF Preview, TypeOK, SignalInv
  <1>6. ASSUME NEW r \in Rev, Expire(r) PROVE SignalInv'
    BY <1>6 DEF Expire, TypeOK, SignalInv
  <1>7. ASSUME NEW r \in Rev, NEW d \in Dep, BeginApply(r, d) PROVE SignalInv'
    BY <1>7 DEF BeginApply, TypeOK, SignalInv
  <1>8. CASE Insert
    BY <1>8 DEF Insert, TypeOK, SignalInv
  <1>9. CASE InsertFails
    BY <1>9 DEF InsertFails, TypeOK, SignalInv
  <1>10. CASE MarkApplying
    BY <1>10 DEF MarkApplying, TypeOK, SignalInv
  <1>11. CASE MarkApplyingFails
    BY <1>11 DEF MarkApplyingFails, TypeOK, SignalInv
  <1>12. CASE Consume
    BY <1>12 DEF Consume, TypeOK, SignalInv
  <1>13. CASE ConsumeFails
    BY <1>13 DEF ConsumeFails, TypeOK, SignalInv
  <1>14. CASE ListManaged
    BY <1>14 DEF ListManaged, TypeOK, SignalInv
  <1>15. CASE ListManagedFails
    BY <1>15 DEF ListManagedFails, TypeOK, SignalInv
  <1>16. CASE Write
    BY <1>16 DEF Write, TypeOK, SignalInv
  <1>17. CASE WriteFails
    <2>1. PICK o \in Outcomes(disk, plan) :
             /\ disk' = o[2] /\ MaySignal(o[1], plan)
             /\ cutShort' = (cutShort \/ o[1] # "untouched") /\ tampers' = tampers
      BY <1>17 DEF WriteFails
    <2>2. QED
      BY <2>1, OutcomeFacts DEF MaySignal, SignalInv, TypeOK
  <1>18. CASE Record
    BY <1>18 DEF Record, TypeOK, SignalInv
  <1>19. CASE RecordFails
    BY <1>19 DEF RecordFails, TypeOK, SignalInv
  <1>20. CASE MarkPending
    BY <1>20 DEF MarkPending, TypeOK, SignalInv
  <1>21. CASE MarkPendingFails
    BY <1>21 DEF MarkPendingFails, TypeOK, SignalInv
  <1>22. CASE Settle
    BY <1>22 DEF Settle, TypeOK, SignalInv
  <1>23. CASE NoProbe
    BY <1>23 DEF NoProbe, TypeOK, SignalInv
  <1>24. CASE VerifyPasses
    BY <1>24 DEF VerifyPasses, TypeOK, SignalInv
  <1>25. CASE VerifyFails
    BY <1>25 DEF VerifyFails, TypeOK, SignalInv
  <1>26. CASE Activate
    BY <1>26 DEF Activate, TypeOK, SignalInv
  <1>27. CASE ActivateFails
    BY <1>27 DEF ActivateFails, TypeOK, SignalInv
  <1>28. CASE Rollback
    BY <1>28 DEF Rollback, TypeOK, SignalInv
  <1>29. CASE RollbackFails
    <2>1. PICK o \in Outcomes(disk, RollbackRequest) :
             /\ disk' = o[2] /\ MaySignal(o[1], RollbackRequest)
             /\ cutShort' = (cutShort \/ o[1] # "untouched") /\ tampers' = tampers
      BY <1>29 DEF RollbackFails
    <2>2. QED
      BY <2>1, OutcomeFacts DEF MaySignal, SignalInv, TypeOK
  <1>30. CASE Unrecord
    BY <1>30 DEF Unrecord, TypeOK, SignalInv
  <1>31. CASE UnrecordFails
    BY <1>31 DEF UnrecordFails, TypeOK, SignalInv
  <1>32. CASE Finish
    BY <1>32 DEF Finish, TypeOK, SignalInv
  <1>33. CASE FinishFails
    BY <1>33 DEF FinishFails, TypeOK, SignalInv
  <1>34. CASE Cancel
    BY <1>34 DEF Cancel, TypeOK, SignalInv
  <1>35. CASE Crash
    BY <1>35 DEF Crash, TypeOK, SignalInv
  <1>36. CASE BrokerReload
    BY <1>36 DEF BrokerReload, TypeOK, SignalInv
  <1>37. CASE UNCHANGED vars
    BY <1>37 DEF vars, TypeOK, SignalInv
  <1>38. QED
    BY <1>1, <1>2, <1>3, <1>4, <1>5, <1>6, <1>7, <1>8, <1>9, <1>10, <1>11,
       <1>12, <1>13, <1>14, <1>15, <1>16, <1>17, <1>18, <1>19, <1>20, <1>21,
       <1>22, <1>23, <1>24, <1>25, <1>26, <1>27, <1>28, <1>29, <1>30, <1>31,
       <1>32, <1>33, <1>34, <1>35, <1>36, <1>37 DEF Next, Operator, Step

LEMMA StepOwned ==
    ~MayCancel /\ TypeOK /\ PlanInv /\ FilesInv /\ RegistryInv /\ OwnedInv /\ [Next]_vars
        => OwnedInv'
  <1> SUFFICES ASSUME ~MayCancel, TypeOK, PlanInv, FilesInv, RegistryInv, OwnedInv, [Next]_vars
               PROVE  OwnedInv'
    OBVIOUS
  <1> USE DeployAssumption
      DEF database, outside, local, history, bounds, RestOfDatabase, RestOfBounds,
          Goto, Fault, CtxFails, SetStatus
  <1>1. ASSUME NEW p \in Path, NEW v \in Version \cup {NoFile}, Edit(p, v)
        PROVE  OwnedInv'
    BY <1>1 DEF Edit, TypeOK, OwnedInv, Before, After, Undone
  <1>2. ASSUME NEW p \in Path, NEW v \in Version, Adopt(p, v) PROVE OwnedInv'
    BY <1>2 DEF Adopt, TypeOK, OwnedInv, Before, After, Undone
  <1>3. ASSUME NEW l \in Listener, Wire(l) PROVE OwnedInv'
    BY <1>3 DEF Wire, TypeOK, OwnedInv, Before, After, Undone
  <1>4. ASSUME NEW p \in Path, Tamper(p) PROVE OwnedInv'
    <2>1. \A l \in Listener : disk'[l] \in Version => disk[l] \in Version
      BY <1>4 DEF Tamper, TypeOK, Listener
    <2>2. QED
      BY <1>4, <2>1 DEF Tamper, OwnedInv, Before, After, Undone
  <1>5. ASSUME NEW r \in Rev, Preview(r) PROVE OwnedInv'
    BY <1>5 DEF Preview, TypeOK, OwnedInv, Before, After, Undone
  <1>6. ASSUME NEW r \in Rev, Expire(r) PROVE OwnedInv'
    BY <1>6 DEF Expire, TypeOK, OwnedInv, Before, After, Undone
  <1>7. ASSUME NEW r \in Rev, NEW d \in Dep, BeginApply(r, d) PROVE OwnedInv'
    BY <1>7 DEF BeginApply, TypeOK, OwnedInv, Before, After, Undone
  <1>8. CASE Insert
    BY <1>8 DEF Insert, TypeOK, OwnedInv, Before, After, Undone
  <1>9. CASE InsertFails
    BY <1>9 DEF InsertFails, TypeOK, OwnedInv, Before, After, Undone
  <1>10. CASE MarkApplying
    BY <1>10 DEF MarkApplying, TypeOK, OwnedInv, Before, After, Undone
  <1>11. CASE MarkApplyingFails
    BY <1>11 DEF MarkApplyingFails, TypeOK, OwnedInv, Before, After, Undone
  <1>12. CASE Consume
    BY <1>12 DEF Consume, TypeOK, OwnedInv, Before, After, Undone
  <1>13. CASE ConsumeFails
    BY <1>13 DEF ConsumeFails, TypeOK, OwnedInv, Before, After, Undone
  <1>14. CASE ListManaged
    BY <1>14 DEF ListManaged, TypeOK, OwnedInv, Before, After, Undone
  <1>15. CASE ListManagedFails
    BY <1>15 DEF ListManagedFails, TypeOK, OwnedInv, Before, After, Undone
  <1>16. CASE Write
    <2>1. \A l \in Listener : plan.snap[l] \in Version => disk[l] \in Version
      BY <1>16, ContentFacts DEF Write, FilesInv, Before, TypeOK, Listener
    <2>2. QED
      BY <1>16, <2>1 DEF Write, OwnedInv, Before, After, Undone
  <1>17. CASE WriteFails
    BY <1>17 DEF WriteFails, TypeOK, OwnedInv, Before, After, Undone
  <1>18. CASE Record
    BY <1>18 DEF Record, TypeOK, OwnedInv, Before, After, Undone
  <1>19. CASE RecordFails
    BY <1>19 DEF RecordFails, TypeOK, OwnedInv, Before, After, Undone
  <1>20. CASE MarkPending
    BY <1>20 DEF MarkPending, TypeOK, OwnedInv, Before, After, Undone
  <1>21. CASE MarkPendingFails
    BY <1>21 DEF MarkPendingFails, TypeOK, OwnedInv, Before, After, Undone
  <1>22. CASE Settle
    BY <1>22 DEF Settle, TypeOK, OwnedInv, Before, After, Undone
  <1>23. CASE NoProbe
    BY <1>23 DEF NoProbe, TypeOK, OwnedInv, Before, After, Undone
  <1>24. CASE VerifyPasses
    BY <1>24 DEF VerifyPasses, TypeOK, OwnedInv, Before, After, Undone
  <1>25. CASE VerifyFails
    BY <1>25 DEF VerifyFails, TypeOK, OwnedInv, Before, After, Undone
  <1>26. CASE Activate
    <2>1. SUFFICES ASSUME faults = 0, NEW l \in Listener, disk[l] \in Version
                   PROVE  l \in registry
      BY <1>26 DEF Activate, OwnedInv, Before, After, Undone
    <2>2. /\ registry = plan.write \cap Listener /\ prevManaged \subseteq Touched(plan)
          /\ l \in plan.remove => disk[l] = NoFile
          /\ l \notin Touched(plan) => Read(disk[l]) = plan.snap[l]
          /\ plan.snap[l] \in Version => l \in prevManaged
      BY <1>26, <2>1 DEF Activate, RegistryInv, FilesInv, OwnedInv, After, Listener
    <2>3. l \notin plan.remove /\ Read(disk[l]) = disk[l]
      BY <2>1, <2>2, ContentFacts
    <2>4. QED
      BY <2>1, <2>2, <2>3 DEF Touched
  <1>27. CASE ActivateFails
    BY <1>27 DEF ActivateFails, TypeOK, OwnedInv, Before, After, Undone
  <1>28. CASE Rollback
    BY <1>28 DEF Rollback, TypeOK, OwnedInv, Before, After, Undone
  <1>29. CASE RollbackFails
    BY <1>29 DEF RollbackFails, TypeOK, OwnedInv, Before, After, Undone
  <1>30. CASE Unrecord
    <2>1. \A l \in Listener : disk[l] \in Version => plan.snap[l] \in Version
      BY <1>30, ContentFacts DEF Unrecord, FilesInv, Undone, TypeOK, Listener
    <2>2. QED
      BY <1>30, <2>1 DEF Unrecord, OwnedInv, Before, After, Undone
  <1>31. CASE UnrecordFails
    BY <1>31 DEF UnrecordFails, TypeOK, OwnedInv, Before, After, Undone
  <1>32. CASE Finish
    BY <1>32 DEF Finish, TypeOK, OwnedInv, Before, After, Undone
  <1>33. CASE FinishFails
    BY <1>33 DEF FinishFails, TypeOK, OwnedInv, Before, After, Undone
  <1>34. CASE Cancel
    BY <1>34 DEF Cancel, TypeOK, OwnedInv, Before, After, Undone
  <1>35. CASE Crash
    BY <1>35 DEF Crash, TypeOK, OwnedInv, Before, After, Undone
  <1>36. CASE BrokerReload
    BY <1>36 DEF BrokerReload, TypeOK, OwnedInv, Before, After, Undone
  <1>37. CASE UNCHANGED vars
    BY <1>37 DEF vars, TypeOK, OwnedInv, Before, After, Undone
  <1>38. QED
    BY <1>1, <1>2, <1>3, <1>4, <1>5, <1>6, <1>7, <1>8, <1>9, <1>10, <1>11,
       <1>12, <1>13, <1>14, <1>15, <1>16, <1>17, <1>18, <1>19, <1>20, <1>21,
       <1>22, <1>23, <1>24, <1>25, <1>26, <1>27, <1>28, <1>29, <1>30, <1>31,
       <1>32, <1>33, <1>34, <1>35, <1>36, <1>37 DEF Next, Operator, Step

\* A deployment becomes final only by the last statement of its own apply.
Final(d, s) ==
    Becomes(d, s) /\ s \in Terminal =>
        /\ d = cur.dep /\ deps[d].rev = cur.rev
        /\ UNCHANGED <<disk, registry, plan>>
        /\ s = "active_verified" => phase = "activate"
        /\ s = "failed" => phase \in {"burned", "failed"}
        /\ s = "rolled_back" => phase = "rolled_back"

LEMMA StepFinal ==
    ASSUME TypeOK, RowInv, [Next]_vars, NEW d \in Dep, NEW s \in Statuses
    PROVE  Final(d, s)
  <1> USE DeployAssumption
      DEF database, outside, local, history, bounds, RestOfDatabase, RestOfBounds,
          Goto, Fault, CtxFails, SetStatus
  <1>1. ASSUME NEW p \in Path, NEW v \in Version \cup {NoFile}, Edit(p, v)
        PROVE  Final(d, s)
    BY <1>1 DEF Edit, TypeOK, RowInv, Becomes, Final, Terminal
  <1>2. ASSUME NEW p \in Path, NEW v \in Version, Adopt(p, v) PROVE Final(d, s)
    BY <1>2 DEF Adopt, TypeOK, RowInv, Becomes, Final, Terminal
  <1>3. ASSUME NEW l \in Listener, Wire(l) PROVE Final(d, s)
    BY <1>3 DEF Wire, TypeOK, RowInv, Becomes, Final, Terminal
  <1>4. ASSUME NEW p \in Path, Tamper(p) PROVE Final(d, s)
    BY <1>4 DEF Tamper, TypeOK, RowInv, Becomes, Final, Terminal
  <1>5. ASSUME NEW r \in Rev, Preview(r) PROVE Final(d, s)
    BY <1>5 DEF Preview, TypeOK, RowInv, Becomes, Final, Terminal
  <1>6. ASSUME NEW r \in Rev, Expire(r) PROVE Final(d, s)
    BY <1>6 DEF Expire, TypeOK, RowInv, Becomes, Final, Terminal
  <1>7. ASSUME NEW r \in Rev, NEW e \in Dep, BeginApply(r, e) PROVE Final(d, s)
    BY <1>7 DEF BeginApply, TypeOK, RowInv, Becomes, Final, Terminal
  <1>8. CASE Insert
    BY <1>8 DEF Insert, TypeOK, RowInv, Becomes, Final, Terminal
  <1>9. CASE InsertFails
    BY <1>9 DEF InsertFails, TypeOK, RowInv, Becomes, Final, Terminal
  <1>10. CASE MarkApplying
    BY <1>10 DEF MarkApplying, TypeOK, RowInv, Becomes, Final, Terminal
  <1>11. CASE MarkApplyingFails
    BY <1>11 DEF MarkApplyingFails, TypeOK, RowInv, Becomes, Final, Terminal
  <1>12. CASE Consume
    BY <1>12 DEF Consume, TypeOK, RowInv, Becomes, Final, Terminal
  <1>13. CASE ConsumeFails
    BY <1>13 DEF ConsumeFails, TypeOK, RowInv, Becomes, Final, Terminal
  <1>14. CASE ListManaged
    BY <1>14 DEF ListManaged, TypeOK, RowInv, Becomes, Final, Terminal
  <1>15. CASE ListManagedFails
    BY <1>15 DEF ListManagedFails, TypeOK, RowInv, Becomes, Final, Terminal
  <1>16. CASE Write
    BY <1>16 DEF Write, TypeOK, RowInv, Becomes, Final, Terminal
  <1>17. CASE WriteFails
    BY <1>17 DEF WriteFails, TypeOK, RowInv, Becomes, Final, Terminal
  <1>18. CASE Record
    BY <1>18 DEF Record, TypeOK, RowInv, Becomes, Final, Terminal
  <1>19. CASE RecordFails
    BY <1>19 DEF RecordFails, TypeOK, RowInv, Becomes, Final, Terminal
  <1>20. CASE MarkPending
    BY <1>20 DEF MarkPending, TypeOK, RowInv, Becomes, Final, Terminal
  <1>21. CASE MarkPendingFails
    BY <1>21 DEF MarkPendingFails, TypeOK, RowInv, Becomes, Final, Terminal
  <1>22. CASE Settle
    BY <1>22 DEF Settle, TypeOK, RowInv, Becomes, Final, Terminal
  <1>23. CASE NoProbe
    BY <1>23 DEF NoProbe, TypeOK, RowInv, Becomes, Final, Terminal
  <1>24. CASE VerifyPasses
    BY <1>24 DEF VerifyPasses, TypeOK, RowInv, Becomes, Final, Terminal
  <1>25. CASE VerifyFails
    BY <1>25 DEF VerifyFails, TypeOK, RowInv, Becomes, Final, Terminal
  <1>26. CASE Activate
    BY <1>26 DEF Activate, TypeOK, RowInv, Becomes, Final, Terminal
  <1>27. CASE ActivateFails
    BY <1>27 DEF ActivateFails, TypeOK, RowInv, Becomes, Final, Terminal
  <1>28. CASE Rollback
    BY <1>28 DEF Rollback, TypeOK, RowInv, Becomes, Final, Terminal
  <1>29. CASE RollbackFails
    BY <1>29 DEF RollbackFails, TypeOK, RowInv, Becomes, Final, Terminal
  <1>30. CASE Unrecord
    BY <1>30 DEF Unrecord, TypeOK, RowInv, Becomes, Final, Terminal
  <1>31. CASE UnrecordFails
    BY <1>31 DEF UnrecordFails, TypeOK, RowInv, Becomes, Final, Terminal
  <1>32. CASE Finish
    <2>1. /\ deps' = [deps EXCEPT ![cur.dep].status = FinalStatus]
          /\ UNCHANGED <<disk, registry, plan>>
          /\ deps[cur.dep].rev = cur.rev
      BY <1>32 DEF Finish, RowInv
    <2>2. /\ FinalStatus = "failed" => phase \in {"burned", "failed"}
          /\ FinalStatus = "rolled_back" => phase = "rolled_back"
          /\ FinalStatus # "active_verified"
      BY <1>32 DEF Finish, FinalStatus
    <2>3. QED
      BY <2>1, <2>2 DEF TypeOK, Becomes, Final
  <1>33. CASE FinishFails
    BY <1>33 DEF FinishFails, TypeOK, RowInv, Becomes, Final, Terminal
  <1>34. CASE Cancel
    BY <1>34 DEF Cancel, TypeOK, RowInv, Becomes, Final, Terminal
  <1>35. CASE Crash
    BY <1>35 DEF Crash, TypeOK, RowInv, Becomes, Final, Terminal
  <1>36. CASE BrokerReload
    BY <1>36 DEF BrokerReload, TypeOK, RowInv, Becomes, Final, Terminal
  <1>37. CASE UNCHANGED vars
    BY <1>37 DEF vars, TypeOK, RowInv, Becomes, Final, Terminal
  <1>38. QED
    BY <1>1, <1>2, <1>3, <1>4, <1>5, <1>6, <1>7, <1>8, <1>9, <1>10, <1>11,
       <1>12, <1>13, <1>14, <1>15, <1>16, <1>17, <1>18, <1>19, <1>20, <1>21,
       <1>22, <1>23, <1>24, <1>25, <1>26, <1>27, <1>28, <1>29, <1>30, <1>31,
       <1>32, <1>33, <1>34, <1>35, <1>36, <1>37 DEF Next, Operator, Step

-----------------------------------------------------------------------------
(* The parts together.                                                     *)

IInv == /\ TypeOK /\ AttemptInv
        /\ PlanInv /\ FilesInv /\ RegistryInv
        /\ RowInv /\ OnceInv /\ TrackInv /\ SignalInv

LEMMA InitDisk ==
    ASSUME Init
    PROVE  disk \in [Path -> Content] /\ want \in [Path -> Content] /\ salt \in 0 .. MaxSalt
  <1>1. PICK s \in 0 .. 1 :
           /\ salt = s
           /\ disk = [want EXCEPT ![Passwd] = [users |-> want[Passwd], salt |-> s]]
    BY DEF Init
  <1>2. want \in [Path -> Version \cup {NoFile}] /\ want[Passwd] \in Version
    BY PathAssumption DEF Init, Wants
  <1>3. [users |-> want[Passwd], salt |-> s] \in PasswdBody
    BY <1>2, DeployAssumption DEF PasswdBody
  <1>4. want \in [Path -> Content]
    BY <1>2, ContentFacts DEF Content
  <1>5. salt \in 0 .. MaxSalt
    BY <1>1, DeployAssumption
  <1>6. disk \in [Path -> Content]
    BY <1>1, <1>3, <1>4, ContentFacts
  <1>7. QED
    BY <1>4, <1>5, <1>6

LEMMA InitInv == Init => IInv /\ OwnedInv
  <1> SUFFICES ASSUME Init PROVE IInv /\ OwnedInv
    OBVIOUS
  <1>1. /\ ListenerFiles(disk) \in SUBSET Listener
        /\ \A l \in Listener : disk[l] \in Version => l \in ListenerFiles(disk)
    BY ContentFacts DEF ListenerFiles, Files, Listener
  <1>2. Plan(disk) \in Request
    <2>1. /\ [p \in Path |-> Read(disk[p])] \in [Path -> Text] /\ Reads \in [Path -> Text]
      BY InitDisk, ContentFacts, ReadsType
    <2>2. Files(disk) \in SUBSET Path /\ registry \ Files(disk) \in SUBSET Path
      BY <1>1 DEF Init, Files, Listener
    <2>3. QED
      BY <2>1, <2>2 DEF Plan, Request
  <1>3. [base |-> Reads, body |-> disk, db |-> want] \in Review
    BY InitDisk, ReadsType DEF Init, Review
  <1>4. TypeOK
    <2>1. /\ want \in Wants /\ wired \in SUBSET Listener /\ registry \in SUBSET Listener
          /\ review \in [Rev -> Review] /\ plan \in Request
          /\ disk \in [Path -> Content] /\ serving \in [Path -> Content]
          /\ salt \in 0 .. MaxSalt
      BY <1>1, <1>2, <1>3, InitDisk DEF Init
    <2>2. /\ revState \in [Rev -> {"absent", "open", "applied"}] /\ expired \in SUBSET Rev
          /\ cur \in [rev : Rev, dep : Dep]
          /\ deps \in [Dep -> [rev : Rev, status : Statuses]]
          /\ phase \in Phases /\ prevManaged \in SUBSET Listener
      BY DEF Init, Phases, Statuses
    <2>3. hup \in BOOLEAN /\ live \in BOOLEAN /\ pendErr \in BOOLEAN
      BY DEF Init
    <2> cutShort \in BOOLEAN
      BY DEF Init
    <2>4. /\ attempt \in 0 .. VerifyAttempts /\ reached \in [Rev -> Nat]
          /\ edits \in 0 .. MaxEdits /\ adopts \in 0 .. MaxAdopts
          /\ tampers \in 0 .. MaxTampers /\ faults \in 0 .. MaxFaults
      BY DeployAssumption DEF Init
    <2>5. QED
      BY <2>1, <2>2, <2>3, <2>4 DEF TypeOK
  <1>5. AttemptInv /\ PlanInv /\ FilesInv /\ RegistryInv /\ RowInv /\ SignalInv
    BY DEF Init, AttemptInv, PlanInv, FilesInv, RegistryInv, RowInv, SignalInv,
           Before, After, Undone
  <1>6. OnceInv /\ TrackInv
    BY DEF Init, OnceInv, TrackInv, RevisionReachesApplierOnce
  <1>7. OwnedInv
    BY <1>1 DEF Init, OwnedInv, After
  <1>8. QED
    BY <1>4, <1>5, <1>6, <1>7 DEF IInv

LEMMA StepInv == IInv /\ [Next]_vars => IInv'
  BY StepType, StepFiles, StepRows, StepSignal DEF IInv

LEMMA InvHolds == Spec => []IInv
  BY InitInv, StepInv, PTL DEF Spec

(* TypeCorrect: every variable of the deployment keeps its type; the plan  *)
(* is always an ApplyRequest and the disk holds contents, and no more than *)
(* verifyAttempts attempts are made (service.go, applyRevision).           *)
THEOREM TypeCorrect == Spec => []TypeOK
  <1>1. IInv => TypeOK
    BY DEF IInv
  <1>2. QED
    BY <1>1, InvHolds, PTL

(* AppliedOnce: consumePreviewRevision runs before anything leaves the     *)
(* process, so the applier sees a revision at most once and only a         *)
(* consumed one, whichever call fails and whenever MCM is killed.          *)
THEOREM AppliedOnce == Spec => []RevisionReachesApplierOnce
  <1>1. IInv => RevisionReachesApplierOnce
    BY DEF IInv, OnceInv
  <1>2. QED
    BY <1>1, InvHolds, PTL

(* ApplyTracked: the statuses are written with a context of their own, so  *)
(* that a revision which reached the applier has a deployment with a final *)
(* status once its apply is over, whether or not the client stayed.        *)
THEOREM ApplyTracked == Spec => []EveryApplyTracked
  <1>1. IInv => EveryApplyTracked
    BY DEF IInv, TrackInv, Tracked, EveryApplyTracked, Handed, After, Undone
  <1>2. QED
    BY <1>1, InvHolds, PTL

(* BrokerKnows: the broker has the files on disk or a pending signal after *)
(* every apply and every rollback.                                         *)
THEOREM BrokerKnows == Spec => []BrokerSignalled
  <1>1. IInv => BrokerSignalled
    BY DEF IInv, SignalInv, BrokerSignalled
  <1>2. QED
    BY <1>1, InvHolds, PTL

(* OwnedFilesKnown: with a client that stays, the registry names every     *)
(* listener file that holds rules MCM rendered once an apply is over.      *)
(* A client that leaves during the rollback breaks this                    *)
(* (restoreManagedACLFiles uses the request's context), hence ~MayCancel.  *)
THEOREM OwnedFilesKnown == ~MayCancel => (Spec => []OwnedFilesRegistered)
  <1> SUFFICES ASSUME ~MayCancel PROVE Spec => []OwnedFilesRegistered
    OBVIOUS
  <1>1. (IInv /\ OwnedInv) /\ [Next]_vars => (IInv /\ OwnedInv)'
    BY StepInv, StepOwned DEF IInv
  <1>2. IInv /\ OwnedInv => OwnedFilesRegistered
    BY DEF OwnedInv, OwnedFilesRegistered
  <1>3. QED
    BY <1>1, <1>2, InitInv, PTL DEF Spec

-----------------------------------------------------------------------------
(* What the files, the database and the registry are when the status of a  *)
(* successful apply is recorded.                                           *)
LEMMA ActivatedFiles ==
    ASSUME IInv, phase = "activate"
    PROVE  /\ \A p \in Files(Reviewed) : disk[p] = Reviewed[p]
           /\ \A l \in prevManaged \ Files(Reviewed) : disk[l] = NoFile
           /\ registry = ListenerFiles(Reviewed)
           /\ adopts = 0 => Reviewed = Render
  <1>1. /\ plan.write = Files(Reviewed) /\ Reviewed \in [Path -> Content]
        /\ \A p \in Path : plan.body[p] = Read(Reviewed[p])
    BY DEF IInv, PlanInv, TypeOK, Reviewed, Review
  <1>2. \A p \in Files(Reviewed) : disk[p] = Reviewed[p]
    <2>1. \A p \in Path : p \in plan.write => disk[p] = plan.body[p]
      BY DEF IInv, FilesInv, After
    <2>2. QED
      BY <1>1, <2>1 DEF Files, Read
  <1>3. \A l \in prevManaged \ Files(Reviewed) : disk[l] = NoFile
    BY <1>1 DEF IInv, TypeOK, RegistryInv, FilesInv, After, Touched, Listener
  <1>4. registry = ListenerFiles(Reviewed)
    BY <1>1 DEF IInv, RegistryInv, ListenerFiles
  <1>5. ASSUME adopts = 0 PROVE Reviewed = Render
    <2>1. /\ \A p \in Path \ {Passwd} : Reviewed[p] = want[p]
          /\ Verifies(Reviewed[Passwd]) /\ Reviewed[Passwd].users = want[Passwd]
      BY <1>5 DEF IInv, PlanInv
    <2>2. Reviewed[Passwd] \in PasswdBody /\ Passwd \in Files(Reviewed)
      BY <2>1, PathAssumption, ContentFacts DEF Verifies, Files, Text
    <2>3. ServiceSalt = Reviewed[Passwd].salt
      BY <1>2, <2>1, <2>2 DEF ServiceSalt
    <2>4. Reviewed[Passwd] = [users |-> want[Passwd], salt |-> ServiceSalt]
      BY <2>1, <2>2, <2>3 DEF PasswdBody
    <2>5. /\ Render[Passwd] = Reviewed[Passwd]
          /\ \A p \in Path : Render[p] = Reviewed[p]
          /\ Render = [p \in Path |-> Render[p]]
      BY <2>1, <2>4, PathAssumption DEF Render, IInv, TypeOK, Wants
    <2>6. QED
      BY <1>1, <2>5
  <1>6. QED
    BY <1>2, <1>3, <1>4, <1>5

(* StatusTellsTruth: the status a deployment ends with says what is on the *)
(* disk: active_verified the reviewed files, the files the database still  *)
(* asks for, no retired file and a matching registry; failed and           *)
(* rolled_back the contents of the snapshots (applyRevision, rollback).    *)
THEOREM StatusTellsTruth == Spec => StatusIsTrue
  <1>1. ASSUME IInv, [Next]_vars, NEW d \in Dep PROVE HonestStatus(d)
    <2>1. /\ Final(d, "active_verified") /\ Final(d, "failed") /\ Final(d, "rolled_back")
      BY <1>1, StepFinal DEF IInv, Statuses
    <2>2. ASSUME Becomes(d, "active_verified")
          PROVE  phase = "activate" /\ Reviewed = review[deps[d].rev].body
      BY <2>1, <2>2 DEF Final, Terminal, Reviewed
    <2>3. ASSUME Becomes(d, "failed") \/ Becomes(d, "rolled_back")
          PROVE  phase \in Before \cup Undone
      BY <2>1, <2>3 DEF Final, Terminal, Before, Undone
    <2>4. QED
      BY <1>1, <2>2, <2>3, ActivatedFiles DEF IInv, FilesInv, HonestStatus
  <1>2. IInv /\ [Next]_vars => \A d \in Dep : HonestStatus(d)
    BY <1>1
  <1>3. QED
    BY <1>2, InvHolds, PTL DEF Spec, StatusIsTrue
-----------------------------------------------------------------------------
(* The ACL files a deploy renders (AclFiles): the effective view of the    *)
(* rules and their evaluation topic by topic agree.                        *)

Filter(f) == f \in Seq(Level \cup {"+", "#"}) /\ Len(f) >= 1

\* A filter that covers another one matches every topic the other one matches.
LEMMA CoverSound ==
    ASSUME NEW d, NEW g, NEW t, Filter(d), Filter(g), t \in Seq(Level),
           FilterCovers(d, g), TopicMatchesFilter(g, t)
    PROVE  TopicMatchesFilter(d, t)
<1> DEFINE m(f) == f[Len(f)] = "#"
           n(f) == IF m(f) THEN Len(f) - 1 ELSE Len(f)
<1>1. /\ Len(d) \in Nat /\ Len(g) \in Nat /\ Len(t) \in Nat /\ Len(d) >= 1 /\ Len(g) >= 1
  BY DEF Filter
<1>2. /\ d # EmptyText /\ g # EmptyText
      /\ IF m(d) THEN n(d) <= Len(g) ELSE n(d) = Len(g)
      /\ \A i \in 1..n(d) : levelCovers(d[i], g[i])
  BY DEF FilterCovers, Last
<1>3. /\ t # EmptyText
      /\ \A i \in 1..n(g) : g[i] # "#"
      /\ IF m(g) THEN n(g) <= Len(t) ELSE n(g) = Len(t)
      /\ \A i \in 1..n(g) : g[i] \in {"+", t[i]}
  BY DEF TopicMatchesFilter, Last
<1>4. \A i \in 1..n(d) : g[i] # "#" /\ d[i] # "#" /\ d[i] \in {"+", g[i]}
  BY <1>2 DEF levelCovers
<1>5. n(d) \in Nat /\ n(g) \in Nat
  BY <1>1
<1>6. n(d) <= n(g)
  <2>1. CASE m(g)
    <3>1. n(d) # Len(g)
      <4> SUFFICES ASSUME n(d) = Len(g) PROVE FALSE
        OBVIOUS
      <4>1. Len(g) \in 1..n(d)
        BY <1>1
      <4>2. g[Len(g)] # "#"
        BY <1>4, <4>1
      <4> QED BY <2>1, <4>2
    <3>2. n(d) <= Len(g)
      BY <1>1, <1>2, <1>5
    <3>3. n(g) = Len(g) - 1
      BY <2>1
    <3> QED BY <1>1, <1>5, <3>1, <3>2, <3>3
  <2>2. CASE ~m(g)
    <3>1. n(d) <= Len(g)
      BY <1>1, <1>2, <1>5
    <3> QED BY <2>2, <3>1
  <2> QED BY <2>1, <2>2
<1>7. \A i \in 1..n(d) : d[i] \in {"+", t[i]}
  <2> TAKE i \in 1..n(d)
  <2>1. i \in 1..n(g)
    BY <1>5, <1>6
  <2> QED BY <1>3, <1>4, <2>1
<1>8. IF m(d) THEN n(d) <= Len(t) ELSE n(d) = Len(t)
  <2>1. n(g) <= Len(t)
    BY <1>1, <1>3, <1>5
  <2>2. CASE m(d)
    BY <1>1, <1>5, <1>6, <2>1, <2>2
  <2>3. CASE ~m(d)
    <3>1. n(d) = Len(g) /\ n(d) >= 1
      BY <1>1, <1>2, <2>3
    <3>2. Len(g) \in 1..n(d)
      BY <1>1, <3>1
    <3>3. ~m(g)
      BY <1>4, <3>2
    <3>4. n(g) = Len(t) /\ n(g) = Len(g)
      BY <1>3, <3>3
    <3> QED BY <2>3, <3>1, <3>4
  <2> QED BY <2>2, <2>3
<1>9. \A i \in 1..n(d) : d[i] # "#"
  BY <1>4
<1> QED BY <1>2, <1>3, <1>7, <1>8, <1>9 DEF TopicMatchesFilter, Last

\* A topic of n levels for a filter: level w stands for what a wildcard matches.
Sample(g, w, n) == [i \in 1..n |-> IF i <= Len(g) /\ g[i] \notin {"+", "#"} THEN g[i] ELSE w]

\* A level that is the empty string, and one no filter names.  (The SMT
\* backend does not take "" beside sequences.)
IsEmpty(x) == x = ""
Fresh(w) == w \in Level \ {"", "+", "#"}

LEMMA FreshFacts == \A w : Fresh(w) => w \in Level /\ ~IsEmpty(w) /\ w # "+" /\ w # "#"
BY DEF Fresh, IsEmpty

LEMMA OneLevel ==
    /\ \A e : Len(<<e>>) = 1 /\ <<e>>[1] = e
    /\ \A S, e : \A g \in Seq(S) : Len(g) = 1 /\ g[1] = e => g = <<e>>
OBVIOUS

LEMMA TwoLevels ==
    \A S, a, b : \A g \in Seq(S) : Len(g) = 2 /\ g[1] = a /\ g[2] = b => g = <<a, b>>
OBVIOUS

LEMMA ThreeLevels ==
    \A S, a, b, c : \A g \in Seq(S) : Len(g) = 3 /\ g[1] = a /\ g[2] = b /\ g[3] = c => g = <<a, b, c>>
OBVIOUS

LEMMA EmptyTextFacts ==
    /\ Len(EmptyText) = 1 /\ IsEmpty(EmptyText[1])
    /\ \A S : \A g \in Seq(S) : Len(g) = 1 /\ IsEmpty(g[1]) => g = EmptyText
<1>1. Len(EmptyText) = 1 /\ IsEmpty(EmptyText[1])
  BY OneLevel, Zenon DEF EmptyText, IsEmpty
<1>2. \A S : \A g \in Seq(S) : Len(g) = 1 /\ IsEmpty(g[1]) => g = EmptyText
  BY OneLevel, Zenon DEF EmptyText, IsEmpty
<1> QED BY <1>1, <1>2

\* The filters LeavesOnlyEmpty names, level by level.
LEMMA LeavesOnlyEmptyFacts ==
    ASSUME NEW d, NEW g, Filter(d), Filter(g)
    PROVE  /\ (Len(g) = 1 /\ g[1] = "#" /\ Len(d) = 2 /\ d[1] = "+" /\ d[2] = "#") => LeavesOnlyEmpty(d, g)
           /\ (/\ Len(g) = 2 /\ IsEmpty(g[1]) /\ g[2] = "#"
               /\ Len(d) = 3 /\ (IsEmpty(d[1]) \/ d[1] = "+") /\ d[2] = "+" /\ d[3] = "#") => LeavesOnlyEmpty(d, g)
<1>0. PICK S : d \in Seq(S) /\ g \in Seq(S)
  BY DEF Filter
<1>1. ASSUME Len(g) = 1, g[1] = "#", Len(d) = 2, d[1] = "+", d[2] = "#" PROVE LeavesOnlyEmpty(d, g)
  <2>1. d = <<"+", "#">> /\ g = <<"#">>
    BY <1>0, <1>1, OneLevel, TwoLevels, Zenon
  <2> QED BY <2>1, Zenon DEF LeavesOnlyEmpty
<1>2. ASSUME Len(g) = 2, IsEmpty(g[1]), g[2] = "#",
             Len(d) = 3, IsEmpty(d[1]) \/ d[1] = "+", d[2] = "+", d[3] = "#"
      PROVE  LeavesOnlyEmpty(d, g)
  <2>1. g = <<"", "#">>
    BY <1>0, <1>2, TwoLevels, Zenon DEF IsEmpty
  <2>2. d = <<"", "+", "#">> \/ d = <<"+", "+", "#">>
    BY <1>0, <1>2, ThreeLevels, Zenon DEF IsEmpty
  <2> QED BY <2>1, <2>2, Zenon DEF LeavesOnlyEmpty
<1> QED BY <1>1, <1>2, Zenon

\* The levels of a filter before a multi-level wildcard.
Prefix(f) == IF f[Len(f)] = "#" THEN Len(f) - 1 ELSE Len(f)

LEMMA PrefixFacts ==
    ASSUME NEW f, Filter(f)
    PROVE  /\ Len(f) \in Nat /\ Len(f) >= 1 /\ Prefix(f) \in Nat /\ Prefix(f) <= Len(f)
           /\ f[Len(f)] = "#" => Prefix(f) = Len(f) - 1
           /\ f[Len(f)] # "#" => Prefix(f) = Len(f)
           /\ \A i \in 1..Prefix(f) : i = Len(f) => f[i] # "#"
           /\ \A i \in 1..Prefix(f) : i # Len(f) => i \in 1..(Len(f) - 1)
<1>1. Len(f) \in Nat /\ Len(f) >= 1
  BY DEF Filter
<1>2. CASE f[Len(f)] = "#"
  <2>1. Prefix(f) = Len(f) - 1
    BY <1>2 DEF Prefix
  <2> QED BY <1>1, <1>2, <2>1
<1>3. CASE f[Len(f)] # "#"
  <2>1. Prefix(f) = Len(f)
    BY <1>3 DEF Prefix
  <2> QED BY <1>1, <1>3, <2>1
<1> QED BY <1>2, <1>3

LEMMA SampleAt ==
    ASSUME NEW g, NEW w, NEW n \in Nat, NEW i \in 1..n
    PROVE  Sample(g, w, n)[i] = IF i <= Len(g) /\ g[i] \notin {"+", "#"} THEN g[i] ELSE w
BY DEF Sample

LEMMA OneUp == ASSUME NEW n \in Nat, NEW k \in Nat, k <= n PROVE \A i \in 1..k : i \in 1..n /\ i <= n
OBVIOUS

\* The numbers of levels that make a topic of a filter: as many as it has, or
\* any number behind the prefix of "#" that does not make the empty string.
Sized(g, n) == /\ IF g[Len(g)] = "#" THEN Len(g) - 1 <= n ELSE n = Len(g)
               /\ n = 1 => ~IsEmpty(g[1])

LEMMA SampleMatches ==
    ASSUME NEW g, NEW w, Fresh(w), NEW n \in Nat, Depth \in Nat, 1 <= n, n <= Depth,
           Filter(g), ValidateTopicFilter(g), Sized(g, n)
    PROVE  Sample(g, w, n) \in Topics /\ TopicMatchesFilter(g, Sample(g, w, n))
<1> DEFINE t == Sample(g, w, n)
           k == Prefix(g)
<1>1. Len(g) \in Nat /\ Len(g) >= 1 /\ g \in Seq(Level \cup {"+", "#"})
  BY DEF Filter
<1>2. \A i \in 1..Len(g) : g[i] \in Level \cup {"+", "#"}
  BY <1>1
<1>3. t \in [1..n -> Level]
  BY <1>1, <1>2, FreshFacts DEF Sample
<1>4. t \in Topics
  <2>1. n \in 1..Depth
    OBVIOUS
  <2>2. [1..n -> Level] \in {[1..m -> Level] : m \in 1..Depth}
    BY <2>1
  <2> QED BY <1>3, <2>2 DEF Topics
<1>5. t \in Seq(Level) /\ Len(t) = n
  BY <1>3
<1>6. t # EmptyText
  <2> SUFFICES ASSUME t = EmptyText PROVE FALSE
    OBVIOUS
  <2>1. n = 1 /\ IsEmpty(t[1])
    BY <1>5, EmptyTextFacts
  <2>2. t[1] = IF 1 <= Len(g) /\ g[1] \notin {"+", "#"} THEN g[1] ELSE w
    <3>1. 1 \in 1..n
      OBVIOUS
    <3> QED BY <3>1, SampleAt
  <2>3. t[1] = g[1]
    BY <2>1, <2>2, FreshFacts
  <2> QED BY <2>1, <2>3 DEF Sized
<1>7. g # EmptyText /\ \A i \in 1..(Len(g) - 1) : g[i] # "#"
  BY DEF ValidateTopicFilter
<1>8. \A i \in 1..k : g[i] # "#"
  <2> TAKE i \in 1..k
  <2>1. CASE i = Len(g)
    BY <2>1, PrefixFacts
  <2>2. CASE i # Len(g)
    <3>1. i \in 1..(Len(g) - 1)
      BY <2>2, PrefixFacts
    <3> QED BY <1>7, <3>1
  <2> QED BY <2>1, <2>2
<1>9. k \in Nat /\ k <= n /\ k <= Len(g)
  BY PrefixFacts DEF Sized
<1>10. \A i \in 1..k : g[i] \in {"+", t[i]}
  <2> TAKE i \in 1..k
  <2>1. i \in 1..n /\ i <= Len(g)
    BY <1>1, <1>9, OneUp
  <2>2. t[i] = IF i <= Len(g) /\ g[i] \notin {"+", "#"} THEN g[i] ELSE w
    BY <2>1, SampleAt
  <2>3. g[i] # "#"
    BY <1>8
  <2> QED BY <2>1, <2>2, <2>3
<1>11. IF g[Len(g)] = "#" THEN k <= Len(t) ELSE k = Len(t)
  BY <1>5, PrefixFacts DEF Sized
<1> QED BY <1>4, <1>6, <1>7, <1>8, <1>10, <1>11 DEF TopicMatchesFilter, Last, Prefix

\* A topic escapes a filter that disagrees with it on one level.
LEMMA Escapes ==
    ASSUME NEW d, NEW t, NEW i,
           i \in 1..Prefix(d), d[i] \notin {"+", t[i]}
    PROVE  ~TopicMatchesFilter(d, t)
BY DEF TopicMatchesFilter, Last, Prefix

\* The level a sample has where a deny filter and the grant differ.
LEMMA SampleEscapes ==
    ASSUME NEW d, NEW g, NEW w, NEW n \in Nat, NEW i, Filter(d), Filter(g),
           w \notin Range(d), i \in 1..n,
           i \in 1..Prefix(d),
           d[i] # "+", (i <= Len(g) /\ g[i] \notin {"+", "#"}) => d[i] # g[i]
    PROVE  ~TopicMatchesFilter(d, Sample(g, w, n))
<1>1. Len(d) \in Nat /\ Len(g) \in Nat
  BY DEF Filter
<1>2. i \in DOMAIN d
  <2>1. i \in 1..Len(d)
    BY PrefixFacts, OneUp
  <2>2. DOMAIN d = 1..Len(d)
    BY DEF Filter
  <2> QED BY <2>1, <2>2
<1>3. d[i] # w
  BY <1>2 DEF Range
<1>4. Sample(g, w, n)[i] = IF i <= Len(g) /\ g[i] \notin {"+", "#"} THEN g[i] ELSE w
  BY DEF Sample
<1>5. d[i] \notin {"+", Sample(g, w, n)[i]}
  BY <1>3, <1>4
<1> QED BY <1>5, Escapes

\* A topic escapes a filter of another length.
LEMMA LengthEscapes ==
    ASSUME NEW d, NEW g, NEW w, NEW n \in Nat, Filter(d),
           IF d[Len(d)] = "#" THEN Len(d) - 1 > n ELSE Len(d) # n
    PROVE  ~TopicMatchesFilter(d, Sample(g, w, n))
<1>1. Len(Sample(g, w, n)) = n
  BY DEF Sample
<1>2. Len(d) \in Nat
  BY DEF Filter
<1> QED BY <1>1, <1>2 DEF TopicMatchesFilter, Last

\* What it means that a filter does not cover another one.
LEMMA NotCovered ==
    ASSUME NEW d, NEW g, ~FilterCovers(d, g), d # EmptyText, g # EmptyText,
           IF d[Len(d)] = "#" THEN Prefix(d) <= Len(g) ELSE Prefix(d) = Len(g)
    PROVE  \E i \in 1..Prefix(d) : IF g[i] = "#" THEN TRUE ELSE d[i] # "+" /\ d[i] # g[i]
<1>1. \E i \in 1..Prefix(d) : ~levelCovers(d[i], g[i])
  BY DEF FilterCovers, Prefix, Last
<1> QED BY <1>1 DEF levelCovers

\* The smallest number of levels a topic of a filter with "#" has.
Least(g) == IF Len(g) = 1 THEN 1 ELSE IF Len(g) = 2 /\ IsEmpty(g[1]) THEN 2 ELSE Len(g) - 1

LEMMA OneLess ==
    \A k, D \in Nat : k # 0 /\ k # 1 /\ k <= D =>
        /\ k - 1 \in Nat /\ 1 <= k - 1 /\ k - 1 <= k /\ (k - 1) + 1 <= D /\ k - 1 <= D /\ k - 1 # k
        /\ k - 1 <= (k - 1) + 1 /\ (k - 1) + 1 # 1 /\ (k - 1 = 1 => k = 2) /\ k - 1 <= k - 1
OBVIOUS

LEMMA LeastFacts ==
    ASSUME NEW g, Filter(g), g[Len(g)] = "#", Depth \in Nat, Depth >= 3, Len(g) <= Depth
    PROVE  /\ Least(g) \in Nat /\ 1 <= Least(g) /\ Least(g) <= Len(g) /\ Least(g) + 1 <= Depth
           /\ Least(g) <= Depth
           /\ Sized(g, Least(g)) /\ Sized(g, Least(g) + 1)
           /\ Least(g) = Len(g) => Len(g) = 1 \/ (Len(g) = 2 /\ IsEmpty(g[1]))
<1>1. Len(g) \in Nat /\ Len(g) >= 1 /\ Len(g) # 0
  BY DEF Filter
<1>2. CASE Len(g) = 1
  <2>1. Least(g) = 1
    BY <1>2 DEF Least
  <2>2. g[1] = "#"
    BY <1>2
  <2>3. ~IsEmpty(g[1])
    BY <2>2 DEF IsEmpty
  <2> QED BY <1>1, <1>2, <2>1, <2>3 DEF Sized
<1>3. CASE Len(g) = 2 /\ IsEmpty(g[1])
  <2>1. Least(g) = 2
    BY <1>3 DEF Least
  <2> QED BY <1>1, <1>3, <2>1 DEF Sized
<1>4. CASE Len(g) # 1 /\ ~(Len(g) = 2 /\ IsEmpty(g[1]))
  <2>1. Least(g) = Len(g) - 1
    BY <1>4 DEF Least
  <2>2. Least(g) = 1 => ~IsEmpty(g[1])
    <3> SUFFICES ASSUME Least(g) = 1 PROVE ~IsEmpty(g[1])
      OBVIOUS
    <3>1. Len(g) = 2
      BY <1>1, <1>4, <2>1, OneLess
    <3> QED BY <1>4, <3>1
  <2>3. /\ Least(g) \in Nat /\ 1 <= Least(g) /\ Least(g) <= Len(g) /\ Least(g) + 1 <= Depth
        /\ Least(g) <= Depth /\ Least(g) # Len(g) /\ Len(g) - 1 <= Least(g) /\ Len(g) - 1 <= Least(g) + 1
        /\ Least(g) + 1 # 1
    <3>1. Len(g) # 1 /\ Len(g) # 0 /\ Len(g) \in Nat /\ Depth \in Nat /\ Len(g) <= Depth
      BY <1>1, <1>4
    <3> QED BY <2>1, <3>1, OneLess
  <2>4. Sized(g, Least(g)) /\ Sized(g, Least(g) + 1)
    BY <2>2, <2>3 DEF Sized
  <2> QED BY <2>3, <2>4
<1> QED BY <1>2, <1>3, <1>4

\* A well-formed filter matches some topic.
LEMMA GrantHasTopic ==
    ASSUME NEW g, NEW w, Fresh(w), Depth \in Nat, Depth >= 3, Filter(g), Len(g) <= Depth, ValidateTopicFilter(g)
    PROVE  \E t \in Topics : TopicMatchesFilter(g, t)
<1>1. Len(g) \in Nat /\ Len(g) >= 1
  BY DEF Filter
<1>2. CASE g[Len(g)] = "#"
  BY <1>2, LeastFacts, SampleMatches
<1>3. CASE g[Len(g)] # "#"
  <2>1. Sized(g, Len(g))
    <3>1. Len(g) = 1 => ~IsEmpty(g[1])
      BY EmptyTextFacts DEF Filter, ValidateTopicFilter
    <3> QED BY <1>3, <3>1 DEF Sized
  <2> QED BY <1>1, <2>1, SampleMatches
<1> QED BY <1>2, <1>3

\* A filter that does not cover another one misses one of its topics.
LEMMA CoverComplete ==
    ASSUME NEW d, NEW g, NEW w, Fresh(w), w \notin Range(d), Depth \in Nat, Depth >= 3,
           Filter(d), Filter(g), Len(g) <= Depth, ValidateTopicFilter(g),
           ~FilterCovers(d, g), ~LeavesOnlyEmpty(d, g)
    PROVE  \E t \in Topics : TopicMatchesFilter(g, t) /\ ~TopicMatchesFilter(d, t)
<1>1. /\ Len(g) \in Nat /\ Len(g) >= 1 /\ Len(d) \in Nat /\ Len(d) >= 1
      /\ Prefix(d) \in Nat /\ Prefix(d) <= Len(d)
  BY PrefixFacts
<1>2. g # EmptyText /\ \A i \in 1..(Len(g) - 1) : g[i] # "#"
  BY DEF ValidateTopicFilter
<1>3. ASSUME NEW n \in Nat, 1 <= n, n <= Depth, Sized(g, n), ~TopicMatchesFilter(d, Sample(g, w, n))
      PROVE  \E t \in Topics : TopicMatchesFilter(g, t) /\ ~TopicMatchesFilter(d, t)
  BY <1>3, SampleMatches
<1>4. CASE d = EmptyText
  <2>1. \A t : ~TopicMatchesFilter(d, t)
    BY <1>4 DEF TopicMatchesFilter
  <2> QED BY <2>1, GrantHasTopic
<1>5. CASE d # EmptyText /\ g[Len(g)] # "#"
  <2>1. Sized(g, Len(g))
    <3>1. Len(g) = 1 => ~IsEmpty(g[1])
      BY <1>2, EmptyTextFacts DEF Filter
    <3> QED BY <1>5, <3>1 DEF Sized
  <2>2. ~TopicMatchesFilter(d, Sample(g, w, Len(g)))
    <3>1. CASE IF d[Len(d)] = "#" THEN Prefix(d) <= Len(g) ELSE Prefix(d) = Len(g)
      <4>1. PICK i \in 1..Prefix(d) : IF g[i] = "#" THEN TRUE ELSE d[i] # "+" /\ d[i] # g[i]
        BY <1>2, <1>5, <3>1, NotCovered
      <4>2. Prefix(d) <= Len(g)
        BY <1>1, <3>1
      <4>3. i \in 1..Len(g) /\ i <= Len(g)
        BY <1>1, <4>2, OneUp
      <4>4. g[i] # "#"
        BY <1>1, <1>2, <1>5, <4>3
      <4> QED BY <1>1, <4>1, <4>3, <4>4, SampleEscapes
    <3>2. CASE ~(IF d[Len(d)] = "#" THEN Prefix(d) <= Len(g) ELSE Prefix(d) = Len(g))
      <4>1. IF d[Len(d)] = "#" THEN Len(d) - 1 > Len(g) ELSE Len(d) # Len(g)
        BY <1>1, <3>2 DEF Prefix
      <4> QED BY <1>1, <4>1, LengthEscapes
    <3> QED BY <3>1, <3>2
  <2> QED BY <1>1, <1>3, <2>1, <2>2
<1>6. CASE d # EmptyText /\ g[Len(g)] = "#"
  <2> DEFINE n == Least(g)
  <2>0. /\ n \in Nat /\ 1 <= n /\ n <= Len(g) /\ n + 1 <= Depth /\ n <= Depth
        /\ Sized(g, n) /\ Sized(g, n + 1)
        /\ n = Len(g) => Len(g) = 1 \/ (Len(g) = 2 /\ IsEmpty(g[1]))
    BY <1>6, LeastFacts
  <2> HIDE DEF n
  <2>1. CASE d[Len(d)] # "#" /\ Len(d) # n
    BY <1>1, <1>3, <2>0, <2>1, LengthEscapes
  <2>2. CASE d[Len(d)] # "#" /\ Len(d) = n
    <3>1. n + 1 \in Nat /\ 1 <= n + 1 /\ Len(d) # n + 1
      BY <2>0, <2>2
    <3>2. ~TopicMatchesFilter(d, Sample(g, w, n + 1))
      BY <2>2, <3>1, LengthEscapes
    <3> QED BY <1>3, <2>0, <3>1, <3>2
  <2>3. CASE d[Len(d)] = "#" /\ Len(d) - 1 > n
    BY <1>1, <1>3, <2>0, <2>3, LengthEscapes
  <2>4. CASE d[Len(d)] = "#" /\ ~(Len(d) - 1 > n)
    <3>1. Prefix(d) = Len(d) - 1 /\ Prefix(d) <= n /\ Prefix(d) <= Len(g)
      BY <1>1, <2>0, <2>4, PrefixFacts
    <3>2. PICK i \in 1..Prefix(d) : IF g[i] = "#" THEN TRUE ELSE d[i] # "+" /\ d[i] # g[i]
      BY <1>2, <1>6, <2>4, <3>1, NotCovered
    <3>3. i \in 1..n /\ i \in 1..Len(g) /\ i <= Len(g)
      BY <1>1, <2>0, <3>1, OneUp
    <3>4. \E j \in 1..Prefix(d) : d[j] # "+" /\ (g[j] \notin {"+", "#"} => d[j] # g[j])
      <4>1. CASE g[i] # "#"
        BY <3>2, <4>1
      <4>2. CASE g[i] = "#"
        <5>1. i = Len(g)
          <6> SUFFICES ASSUME i # Len(g) PROVE FALSE
            OBVIOUS
          <6>1. i \in 1..(Len(g) - 1)
            BY <1>1, <3>3
          <6> QED BY <1>2, <4>2, <6>1
        <5>2. n = Len(g) /\ Prefix(d) = Len(g) /\ Len(d) = Len(g) + 1
          BY <1>1, <2>0, <3>1, <3>3, <5>1
        <5>3. CASE Len(g) = 1
          <6>1. Len(d) = 2 /\ Prefix(d) = 1 /\ d[2] = "#" /\ g[1] = "#"
            BY <1>6, <2>4, <5>2, <5>3
          <6>2. d[1] # "+"
            BY <5>3, <6>1, LeavesOnlyEmptyFacts
          <6>3. 1 \in 1..Prefix(d)
            BY <6>1
          <6> QED BY <6>1, <6>2, <6>3
        <5>4. CASE Len(g) = 2 /\ IsEmpty(g[1])
          <6>1. Len(d) = 3 /\ Prefix(d) = 2 /\ d[3] = "#" /\ g[2] = "#"
            BY <1>6, <2>4, <5>2, <5>4
          <6>2. 1 \in 1..Prefix(d) /\ 2 \in 1..Prefix(d)
            BY <6>1
          <6>3. d[2] # "+" \/ (~IsEmpty(d[1]) /\ d[1] # "+")
            BY <5>4, <6>1, LeavesOnlyEmptyFacts
          <6>4. ~IsEmpty(d[1]) => d[1] # g[1]
            BY <5>4
          <6> QED BY <6>1, <6>2, <6>3, <6>4
        <5> QED BY <2>0, <5>2, <5>3, <5>4
      <4> QED BY <4>1, <4>2
    <3>5. PICK j \in 1..Prefix(d) : d[j] # "+" /\ (g[j] \notin {"+", "#"} => d[j] # g[j])
      BY <3>4
    <3>6. j \in 1..n
      BY <1>1, <2>0, <3>1, OneUp
    <3>7. ~TopicMatchesFilter(d, Sample(g, w, n))
      BY <2>0, <3>5, <3>6, SampleEscapes
    <3> QED BY <1>3, <2>0, <3>7
  <2> QED BY <2>1, <2>2, <2>3, <2>4
<1> QED BY <1>4, <1>5, <1>6

\* The rules the store holds: normalised ones of valid requests.
StoredRule == {Normalize(q) : q \in {x \in Pool : ValidateRule(x)}}

\* What a stored rule keeps of the request.
LEMMA Kept ==
    ASSUME Comparable, NEW q \in Pool
    PROVE  /\ Normalize(q).filter = q.filter /\ Normalize(q).perm = q.perm /\ Normalize(q).who = q.who
           /\ EffectiveSelector(Normalize(q)) = EffectiveSelector(q)
<1>1. q \in [sel : {q.sel}, who : {q.who}, scope : {q.scope}, listener : {q.listener},
             filter : {q.filter}, perm : {q.perm}]
  BY Zenon DEF Comparable
<1>2. /\ Normalize(q).filter = q.filter /\ Normalize(q).perm = q.perm /\ Normalize(q).who = q.who
      /\ Normalize(q).sel = EffectiveSelector(q)
  BY <1>1 DEF Normalize
<1>3. EffectiveSelector(q) # ""
  BY DEF EffectiveSelector
<1> QED BY <1>2, <1>3, Zenon DEF EffectiveSelector

\* A stored rule has a filter for everybody it may be evaluated for.
LEMMA StoredRuleFacts ==
    ASSUME Comparable, NEW r \in StoredRule, NEW id \in Everyone
    PROVE  /\ ruleFilter(r, id) \in Filters /\ r.perm \in Permissions
           /\ \E q \in Pool : r.who = q.who
<1>1. PICK q \in Pool : ValidateRule(q) /\ r = Normalize(q)
  BY DEF StoredRule
<1>2. r.filter = q.filter /\ r.perm = q.perm /\ r.who = q.who /\ EffectiveSelector(r) = EffectiveSelector(q)
  BY <1>1, Kept
<1>3. ruleFilter(r, id) = ruleFilter(q, id)
  BY <1>2, Zenon DEF ruleFilter
<1>4. ruleFilter(q, id) \in Filters
  BY <1>1 DEF Filters
<1>5. q.perm \in Permissions
  BY <1>1, Zenon DEF ValidateRule
<1> QED BY <1>2, <1>3, <1>4, <1>5

LEMMA FilterFacts ==
    ASSUME Comparable, NEW f \in Filters
    PROVE  Filter(f) /\ Len(f) <= Depth
<1>1. Filters \subseteq Seq(Level \cup {"+", "#"}) /\ 1 <= Len(f) /\ Len(f) <= Depth
  BY Zenon DEF Comparable
<1>2. Len(f) \in Nat
  BY <1>1
<1> QED BY <1>1, <1>2 DEF Filter

\* A level that is no wildcard and no level of a filter.
LEMMA Unnamed ==
    ASSUME Comparable
    PROVE  /\ Depth \in Nat /\ Depth >= 3
           /\ \E w : Fresh(w) /\ \A f \in Filters : w \notin Range(f)
BY Zenon DEF Comparable, Fresh

LEMMA RangeOf == ASSUME NEW S, NEW s \in Seq(S) PROVE Range(s) \subseteq S
BY DEF Range

\* The invariant the view needs: stored rules are normalised valid ones, and
\* the enabled users are stored users.
Readable == rules \in Seq(StoredRule) /\ enabled \subseteq stored /\ stored \subseteq Range(Principals) \ {Service}

LEMMA IdentitiesFacts ==
    ASSUME Comparable, Readable
    PROVE  identities \subseteq Everyone
<1> SUFFICES ASSUME NEW id \in identities PROVE id \in Everyone
  OBVIOUS
<1>1. PICK n \in {""} \cup enabled \cup {r.who : r \in {x \in Range(rules) : IsUserScoped(x)}} :
         id = [user |-> n, client |-> ""]
  BY DEF identities, ListRules
<1>2. n \in {""} \cup (Range(Principals) \ {Service}) \cup {r.who : r \in Pool}
  <2>1. CASE n \in {""} \cup enabled
    BY <2>1, Zenon DEF Readable
  <2>2. CASE n \in {r.who : r \in {x \in Range(rules) : IsUserScoped(x)}}
    <3>1. PICK r \in Range(rules) : n = r.who
      BY <2>2, Zenon
    <3>2. r \in StoredRule
      <4>1. rules \in Seq(StoredRule)
        BY Zenon DEF Readable
      <4> QED BY <3>1, <4>1, RangeOf
    <3>3. PICK q \in Pool : r = Normalize(q)
      BY <3>2, Zenon DEF StoredRule
    <3>4. r.who = q.who
      BY <3>3, Kept, Zenon
    <3> QED BY <3>1, <3>4, Zenon
  <2> QED BY <1>1, <2>1, <2>2, Zenon
<1> QED BY <1>1, <1>2 DEF Everyone

\* A grant a deny rule covers is refused on every topic it matches.
LEMMA DeniedRefused ==
    ASSUME Comparable, NEW scoped, scoped \subseteq StoredRule, NEW id \in Everyone,
           NEW r \in StoredRule, NEW d \in applicableRules(scoped, id), d.perm = "deny",
           FilterCovers(ruleFilter(d, id), ruleFilter(r, id)),
           NEW t \in Topics, TopicMatchesFilter(ruleFilter(r, id), t), NEW a
    PROVE  ~EffectivePermission(scoped, id, t, a)
<1>1. r \in StoredRule /\ d \in StoredRule
  BY Zenon DEF applicableRules
<1>2. Filter(ruleFilter(r, id)) /\ Filter(ruleFilter(d, id))
  BY <1>1, StoredRuleFacts, FilterFacts
<1>3. t \in Seq(Level)
  <2>1. PICK n \in 1..Depth : t \in [1..n -> Level]
    BY DEF Topics
  <2>2. n \in Nat
    BY Unnamed
  <2> QED BY <2>1, <2>2
<1>4. TopicMatchesFilter(ruleFilter(d, id), t)
  BY <1>2, <1>3, CoverSound
<1> QED BY <1>4, Zenon DEF EffectivePermission

\* A grant that the only deny rule does not cover is allowed on some topic.
LEMMA OpenAllowed ==
    ASSUME Comparable, NEW scoped, scoped \subseteq StoredRule, NEW id \in Everyone,
           NEW r \in applicableRules(scoped, id), r.perm # "deny", ValidateTopicFilter(ruleFilter(r, id)),
           \A d, e \in scoped : d.perm = "deny" /\ e.perm = "deny" => d = e,
           \A d \in scoped : d.perm = "deny" => ~LeavesOnlyEmpty(ruleFilter(d, id), ruleFilter(r, id)),
           \A d \in applicableRules(scoped, id) :
               d.perm = "deny" => ~FilterCovers(ruleFilter(d, id), ruleFilter(r, id))
    PROVE  \E t \in Topics : \E a \in {"read", "write"} :
              /\ PermissionGrants(r.perm, a) /\ TopicMatchesFilter(ruleFilter(r, id), t)
              /\ EffectivePermission(scoped, id, t, a)
<1> DEFINE g == ruleFilter(r, id)
           all == applicableRules(scoped, id)
<1>1. PICK w : Fresh(w) /\ \A f \in Filters : w \notin Range(f)
  BY Unnamed, Zenon
<1>2. Depth \in Nat /\ Depth >= 3
  BY Unnamed
<1>3. all \subseteq scoped
  BY Zenon DEF applicableRules
<1>4. r \in StoredRule /\ r.perm \in Permissions
  BY <1>3, StoredRuleFacts
<1>5. Filter(g) /\ Len(g) <= Depth
  BY <1>4, StoredRuleFacts, FilterFacts
<1>6. PICK a \in {"read", "write"} : PermissionGrants(r.perm, a)
  BY <1>4 DEF Permissions, PermissionGrants
<1>7. \E t \in Topics : TopicMatchesFilter(g, t) /\ \A d \in all : d.perm = "deny" => ~TopicMatchesFilter(ruleFilter(d, id), t)
  <2>1. CASE \A d \in all : d.perm # "deny"
    <3>1. \E t \in Topics : TopicMatchesFilter(g, t)
      BY <1>1, <1>2, <1>5, GrantHasTopic
    <3> QED BY <2>1, <3>1, Zenon
  <2>2. CASE \E d \in all : d.perm = "deny"
    <3>1. PICK d \in all : d.perm = "deny"
      BY <2>2
    <3>2. d \in StoredRule /\ ruleFilter(d, id) \in Filters
      BY <1>3, StoredRuleFacts
    <3>3. Filter(ruleFilter(d, id)) /\ w \notin Range(ruleFilter(d, id))
      BY <1>1, <3>2, FilterFacts
    <3>4. ~FilterCovers(ruleFilter(d, id), g) /\ ~LeavesOnlyEmpty(ruleFilter(d, id), g)
      BY <1>3, <3>1, Zenon
    <3>5. \E t \in Topics : TopicMatchesFilter(g, t) /\ ~TopicMatchesFilter(ruleFilter(d, id), t)
      BY <1>1, <1>2, <1>5, <3>3, <3>4, CoverComplete
    <3>6. \A e \in all : e.perm = "deny" => e = d
      BY <1>3, <3>1, Zenon
    <3> QED BY <3>5, <3>6, Zenon
  <2> QED BY <2>1, <2>2, Zenon
<1>8. PICK t \in Topics : TopicMatchesFilter(g, t) /\ \A d \in all : d.perm = "deny" => ~TopicMatchesFilter(ruleFilter(d, id), t)
  BY <1>7
<1>9. EffectivePermission(scoped, id, t, a)
  BY <1>6, <1>8, Zenon DEF EffectivePermission
<1> QED BY <1>6, <1>8, <1>9

LEMMA ViewAgrees == ASSUME Comparable, Readable PROVE DeniedMeansRefused
<1> SUFFICES ASSUME NEW p \in Paths, NEW id \in identities, NEW g \in EffectiveGrants(handleEffective(p), id)
             PROVE  /\ g.denied /\ (\A d \in handleEffective(p) : d.perm = "deny" => d \in handleSimulate(p))
                         => AllowedOn(p, id, g) = {}
                    /\ (/\ ~g.denied /\ ValidateTopicFilter(g.filter)
                        /\ \E r \in applicableRules(handleSimulate(p), id) :
                              r.perm = g.perm /\ ruleFilter(r, id) = g.filter
                        /\ \A d, e \in handleSimulate(p) : d.perm = "deny" /\ e.perm = "deny" => d = e
                        /\ \A d \in handleSimulate(p) :
                              d.perm = "deny" => ~LeavesOnlyEmpty(ruleFilter(d, id), g.filter))
                         => AllowedOn(p, id, g) # {}
  BY Zenon DEF DeniedMeansRefused
<1> DEFINE view == handleEffective(p)
           scoped == handleSimulate(p)
<1>1. view \subseteq StoredRule /\ scoped \subseteq view
  <2>1. rules \in Seq(StoredRule)
    BY Zenon DEF Readable
  <2>2. view \subseteq Range(rules)
    BY Zenon DEF handleEffective, ListRules
  <2>3. scoped \subseteq view
    <3>1. SUFFICES ASSUME NEW x \in scoped, p # Broker PROVE IsListenerScoped(x) /\ x.listener = p
      BY Zenon DEF handleSimulate, handleEffective
    <3>2. p = IF IsListenerScoped(x) THEN x.listener ELSE Broker
      BY Zenon DEF handleSimulate
    <3> QED BY <3>1, <3>2, Zenon
  <2> QED BY <2>1, <2>2, <2>3, RangeOf
<1>2. id \in Everyone
  BY IdentitiesFacts
<1>a. AllowedOn(p, id, g) = {t \in Topics : \E a \in {"read", "write"} :
                               /\ PermissionGrants(g.perm, a)
                               /\ TopicMatchesFilter(g.filter, t)
                               /\ EffectivePermission(scoped, id, t, a)}
  BY Zenon DEF AllowedOn
<1> HIDE DEF view, scoped
<1>3. PICK r \in applicableRules(view, id) :
         /\ r.perm # "deny"
         /\ g = [filter |-> ruleFilter(r, id), perm |-> r.perm,
                 denied |-> \E d \in {x \in applicableRules(view, id) : x.perm = "deny"} :
                               FilterCovers(ruleFilter(d, id), ruleFilter(r, id))]
  <2>1. g \in EffectiveGrants(view, id)
    BY Zenon DEF view
  <2> QED BY <2>1, Zenon DEF EffectiveGrants
<1>4. /\ g.filter = ruleFilter(r, id) /\ g.perm = r.perm
      /\ g.denied = \E d \in {x \in applicableRules(view, id) : x.perm = "deny"} :
                               FilterCovers(ruleFilter(d, id), ruleFilter(r, id))
  BY <1>3, Zenon
<1>b. \A x : x \in applicableRules(scoped, id) => x \in applicableRules(view, id)
  BY <1>1, Zenon DEF applicableRules
<1>c. \A x \in applicableRules(view, id) : x \in scoped => x \in applicableRules(scoped, id)
  BY Zenon DEF applicableRules
<1>5. ASSUME g.denied, \A d \in view : d.perm = "deny" => d \in scoped,
             NEW t \in Topics, NEW a, TopicMatchesFilter(g.filter, t)
      PROVE  ~EffectivePermission(scoped, id, t, a)
  <2>1. PICK d \in applicableRules(view, id) : d.perm = "deny" /\ FilterCovers(ruleFilter(d, id), ruleFilter(r, id))
    BY <1>4, <1>5, Zenon
  <2>2. d \in view
    BY <2>1, Zenon DEF applicableRules
  <2>3. d \in applicableRules(scoped, id)
    BY <1>5, <1>c, <2>1, <2>2, Zenon
  <2>4. r \in StoredRule /\ scoped \subseteq StoredRule
    BY <1>1, <1>3, Zenon DEF applicableRules
  <2> QED BY <1>2, <1>4, <1>5, <2>1, <2>3, <2>4, DeniedRefused
<1>6. ASSUME ~g.denied, ValidateTopicFilter(g.filter),
             NEW q \in applicableRules(scoped, id), q.perm = g.perm, ruleFilter(q, id) = g.filter,
             \A d, e \in scoped : d.perm = "deny" /\ e.perm = "deny" => d = e,
             \A d \in scoped : d.perm = "deny" => ~LeavesOnlyEmpty(ruleFilter(d, id), g.filter)
      PROVE  \E t \in Topics : \E a \in {"read", "write"} :
              /\ PermissionGrants(g.perm, a) /\ TopicMatchesFilter(g.filter, t)
              /\ EffectivePermission(scoped, id, t, a)
  <2>1. \A d \in applicableRules(scoped, id) :
               d.perm = "deny" => ~FilterCovers(ruleFilter(d, id), ruleFilter(q, id))
    BY <1>4, <1>6, <1>b, Zenon
  <2>2. ValidateTopicFilter(ruleFilter(q, id))
    BY <1>6
  <2>3. \A d \in scoped : d.perm = "deny" => ~LeavesOnlyEmpty(ruleFilter(d, id), ruleFilter(q, id))
    BY <1>6
  <2>4. scoped \subseteq StoredRule /\ q.perm # "deny"
    BY <1>1, <1>3, <1>4, <1>6, Zenon
  <2> HIDE DEF scoped
  <2>5. \E t \in Topics : \E a \in {"read", "write"} :
              /\ PermissionGrants(q.perm, a) /\ TopicMatchesFilter(ruleFilter(q, id), t)
              /\ EffectivePermission(scoped, id, t, a)
    BY <1>2, <1>6, <2>1, <2>2, <2>3, <2>4, OpenAllowed
  <2> QED BY <1>6, <2>5, Zenon
<1>7. ASSUME g.denied, \A d \in view : d.perm = "deny" => d \in scoped
      PROVE  AllowedOn(p, id, g) = {}
  BY <1>5, <1>7, <1>a, Zenon
<1>8. ASSUME ~g.denied, ValidateTopicFilter(g.filter),
             \E q \in applicableRules(scoped, id) : q.perm = g.perm /\ ruleFilter(q, id) = g.filter,
             \A d, e \in scoped : d.perm = "deny" /\ e.perm = "deny" => d = e,
             \A d \in scoped : d.perm = "deny" => ~LeavesOnlyEmpty(ruleFilter(d, id), g.filter)
      PROVE  AllowedOn(p, id, g) # {}
  BY <1>6, <1>8, <1>a, Zenon
<1> QED BY <1>7, <1>8, Zenon DEF view, scoped

LEMMA Removed == ASSUME NEW S, NEW s \in Seq(S), NEW i \in DOMAIN s PROVE RemoveAt(s, i) \in Seq(S)
<1>1. i \in 1..Len(s) /\ Len(s) \in Nat
  OBVIOUS
<1>2. SubSeq(s, 1, i - 1) \in Seq(S) /\ SubSeq(s, i + 1, Len(s)) \in Seq(S)
  BY <1>1
<1> QED BY <1>2 DEF RemoveAt

LEMMA StaysReadable == ASSUME Readable, [AclNext]_aclVars PROVE Readable'
<1> USE DEF Readable
<1>1. ASSUME NEW r \in Pool, CreateRule(r) PROVE Readable'
  <2>1. Normalize(r) \in StoredRule
    BY <1>1, Zenon DEF CreateRule, StoredRule
  <2> QED BY <1>1, <2>1 DEF CreateRule
<1>2. ASSUME NEW r \in Pool, NEW i \in DOMAIN rules, UpdateRule(i, r) PROVE Readable'
  <2>1. Normalize(r) \in StoredRule
    BY <1>2, Zenon DEF UpdateRule, StoredRule
  <2> QED BY <1>2, <2>1 DEF UpdateRule
<1>3. ASSUME NEW i \in DOMAIN rules, DeleteRule(i) PROVE Readable'
  BY <1>3, Removed DEF DeleteRule
<1>4. ASSUME NEW n \in stored, DisableUser(n) \/ DeleteUser(n) PROVE Readable'
  BY <1>4 DEF DisableUser, DeleteUser
<1>5. CASE UNCHANGED <<rules, enabled, stored>>
  BY <1>5
<1>6. ASSUME NEW p \in Paths, handleAdoptSource(p) \/ \E b \in Bodies : EditFile(p, b) PROVE Readable'
  <2>1. UNCHANGED <<rules, enabled, stored>>
    BY <1>6, Zenon DEF handleAdoptSource, EditFile
  <2> QED BY <1>5, <2>1
<1>7. CASE Apply
  <2>1. UNCHANGED <<rules, enabled, stored>>
    BY <1>7, Zenon DEF Apply
  <2> QED BY <1>5, <2>1
<1>8. CASE UNCHANGED aclVars
  BY <1>5, <1>8, Zenon DEF aclVars
<1> QED BY <1>1, <1>2, <1>3, <1>4, <1>6, <1>7, <1>8, Zenon DEF AclNext

(* For any rules, users and topics: a grant the effective view marks as    *)
(* denied, by deny rules of the file it describes, is allowed on no topic  *)
(* it matches, and a grant of the file it leaves open is allowed on some   *)
(* topic, up to the cases DeniedMeansRefused names (handleEffective        *)
(* against handleSimulate).                                                *)
THEOREM EffectiveViewAgrees == AclSpec => []DeniedMeansRefused
<1>1. AclInit => Readable
  BY DEF AclInit, Readable
<1>2. Readable /\ [AclNext]_aclVars => Readable'
  BY StaysReadable
<1>3. Readable => DeniedMeansRefused
  BY ViewAgrees, TopicsAssumption
<1> QED BY <1>1, <1>2, <1>3, PTL DEF AclSpec
=============================================================================

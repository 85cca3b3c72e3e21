---------------------------- MODULE ApplierProofs ----------------------------
(***************************************************************************)
(* Proofs about Applier, for every set of files, of contents and of        *)
(* requests.  CallShape is inductive together with TypeOK; that the call   *)
(* is all or nothing, that it leaves no temp file and that it implements   *)
(* ApplierSpec follow from it.                                             *)
(***************************************************************************)
EXTENDS Applier, TLAPS

USE PathAssumption, ContentAssumption, RequestsAssumption, RankAssumption, FlagAssumption

\* The types of a well-formed request, as the action proofs use them.
LEMMA RequestFacts ==
    ASSUME NEW q, WellFormed(q)
    PROVE  /\ q \in Request
           /\ q.write \in SUBSET Path /\ q.remove \in SUBSET Path
           /\ q.body \in [Path -> Content] /\ q.snap \in [Path -> Content]
           /\ Touched(q) \in SUBSET Path
           /\ q.write \cap q.remove = {}
BY DEF WellFormed, Request, Touched, Text, Content

\* Written keeps the type of the disk.
LEMMA WrittenType ==
    ASSUME NEW d \in [Path -> Content], NEW q, WellFormed(q)
    PROVE  Written(d, q) \in [Path -> Content]
BY RequestFacts DEF Written, Content

\* A disk that is file by file old, new or put back is a mixture: what a crash
\* or a failed rollback may leave.
LEMMA MixtureIntro ==
    ASSUME NEW d, NEW q, NEW e \in [Path -> Content],
           \A p \in Path : e[p] \in Halves(d, q, p)
    PROVE  e \in Mixtures(d, q)
<1>1. e \in [Path -> UNION {Halves(d, q, p) : p \in Path}]
  OBVIOUS
<1> QED BY <1>1 DEF Mixtures

\* The initial states satisfy the invariant.
LEMMA InitShape == Init => TypeOK /\ CallShape
<1> SUFFICES ASSUME Init PROVE TypeOK /\ CallShape
  OBVIOUS
<1>1. WellFormed(req)
  BY DEF Init
<1>2. req \in Request
  BY <1>1, RequestFacts
<1>3. TypeOK
  BY <1>2 DEF Init, TypeOK, Phases, Results
<1>4. CallShape
  BY <1>1 DEF Init, CallShape, Results
<1> QED BY <1>3, <1>4

\* Every step keeps the types.
LEMMA StepType ==
    ASSUME TypeOK, CallShape, [Next]_vars
    PROVE  TypeOK'
<1> USE DEF TypeOK, Phases, Results, Return
<1>0. /\ req.write \in SUBSET Path /\ req.remove \in SUBSET Path
      /\ req.body \in [Path -> Content] /\ req.snap \in [Path -> Content]
      /\ Touched(req) \in SUBSET Path
  BY RequestFacts DEF CallShape
<1>1. CASE Call
  <2>1. req' \in Request
    BY <1>1 DEF Call, WellFormed
  <2> QED BY <1>1, <2>1 DEF Call
<1>2. CASE Refuse
  BY <1>2 DEF Refuse
<1>3. CASE Enter
  BY <1>0, <1>3 DEF Enter
<1>4. ASSUME NEW p \in Path, Stage(p) PROVE TypeOK'
  BY <1>4 DEF Stage
<1>5. CASE StageFails
  BY <1>5 DEF StageFails
<1>6. CASE Staged
  BY <1>0, <1>6 DEF Staged
<1>7. ASSUME NEW p \in Path, Commit(p) PROVE TypeOK'
  BY <1>0, <1>7 DEF Commit
<1>8. CASE CommitFails
  BY <1>0, <1>8 DEF CommitFails, StartRestore
<1>9. CASE Committed
  BY <1>0, <1>9 DEF Committed
<1>10. ASSUME NEW p \in Path, Remove(p) PROVE TypeOK'
  BY <1>0, <1>10 DEF Remove, Content
<1>11. CASE RemoveFails
  BY <1>0, <1>11 DEF RemoveFails, StartRestore
<1>12. CASE Removed
  BY <1>12 DEF Removed
<1>13. CASE Reload
  BY <1>13 DEF Reload
<1>14. CASE ReloadFails
  BY <1>0, <1>14 DEF ReloadFails, StartRestore
<1>15. ASSUME NEW p \in Path, Restore(p) PROVE TypeOK'
  BY <1>0, <1>15 DEF Restore
<1>16. CASE RestoreFails
  BY <1>16 DEF RestoreFails
<1>17. CASE RestoreDone
  BY <1>17 DEF RestoreDone
<1>18. CASE Crash
  BY <1>18 DEF Crash
<1>19. CASE BrokerReload
  BY <1>19 DEF BrokerReload
<1>20. CASE UNCHANGED vars
  BY <1>20 DEF vars
<1> QED BY <1>1, <1>2, <1>3, <1>4, <1>5, <1>6, <1>7, <1>8, <1>9, <1>10, <1>11,
           <1>12, <1>13, <1>14, <1>15, <1>16, <1>17, <1>18, <1>19, <1>20
        DEF Next, Step

\* During a call every file is old, new or put back.
LEMMA BusyHalves ==
    ASSUME TypeOK, CallShape, phase # "idle"
    PROVE  \A p \in Path : disk[p] \in Halves(before, req, p)
<1> SUFFICES ASSUME NEW p \in Path PROVE disk[p] \in Halves(before, req, p)
  OBVIOUS
<1>0. req.write \in SUBSET Path /\ req.remove \in SUBSET Path /\ req.write \cap req.remove = {}
  BY RequestFacts DEF CallShape
<1>1. CASE phase \in {"enter", "stage"}
  BY <1>1 DEF CallShape, Halves
<1>2. CASE phase = "commit"
  BY <1>0, <1>2 DEF CallShape, Halves, Touched, Written
<1>3. CASE phase = "remove"
  BY <1>0, <1>3 DEF CallShape, Halves, Touched, Written
<1>4. CASE phase = "reload"
  BY <1>0, <1>4 DEF CallShape, Halves, Touched, Written
<1>5. CASE phase = "restore"
  BY <1>0, <1>5 DEF CallShape, Halves, Touched, Written
<1> QED BY <1>1, <1>2, <1>3, <1>4, <1>5 DEF TypeOK, Phases

\* A step inside a call, or one that ends it, keeps the shape.
LEMMA StepShape ==
    ASSUME TypeOK, TypeOK', CallShape, [Next]_vars
    PROVE  CallShape'
<1>0. /\ req \in Request
      /\ req.write \in SUBSET Path /\ req.remove \in SUBSET Path
      /\ req.body \in [Path -> Content] /\ req.snap \in [Path -> Content]
      /\ Touched(req) = req.write \cup req.remove
      /\ req.write \cap req.remove = {}
  BY RequestFacts DEF CallShape, Touched
<1>M. phase # "idle" => disk \in Mixtures(before, req)
  BY BusyHalves, MixtureIntro DEF TypeOK
<1> USE DEF Results, Return
<1>1. CASE Call
  BY <1>1 DEF Call, CallShape
<1>2. CASE Refuse
  BY <1>2 DEF Refuse, CallShape, Outcomes
<1>3. CASE Enter
  BY <1>0, <1>3 DEF Enter, CallShape
<1>4. ASSUME NEW p \in Path, Stage(p) PROVE CallShape'
  BY <1>0, <1>4 DEF Stage, CallShape, IsNext
<1>5. CASE StageFails
  BY <1>5 DEF StageFails, CallShape, Outcomes
<1>6. CASE Staged
  <2>1. disk = [p \in Path |-> IF p \in req.write \ req.write THEN req.body[p] ELSE before[p]]
    BY <1>6 DEF Staged, CallShape, TypeOK
  <2> QED BY <1>0, <1>6, <2>1 DEF Staged, CallShape
<1>7. ASSUME NEW p \in Path, Commit(p) PROVE CallShape'
  <2>1. disk' = [o \in Path |-> IF o \in req.write \ (todo \ {p}) THEN req.body[o] ELSE before[o]]
    BY <1>0, <1>7 DEF Commit, CallShape, IsNext, TypeOK
  <2> QED BY <1>0, <1>7, <2>1 DEF Commit, CallShape, IsNext
<1>8. CASE CommitFails
  <2>1. \A p \in Path : disk[p] \in {before[p], Written(before, req)[p]}
    BY <1>0, <1>8 DEF CommitFails, CallShape, Written
  <2>2. tmp' = {}
    BY <1>8 DEF CommitFails, CallShape
  <2> QED BY <1>0, <1>8, <2>1, <2>2 DEF CommitFails, StartRestore, CallShape, Written, Touched
<1>9. CASE Committed
  <2>1. disk = [p \in Path |-> IF p \in req.write THEN req.body[p]
                               ELSE IF p \in req.remove \ req.remove THEN NoFile
                               ELSE before[p]]
    BY <1>0, <1>9 DEF Committed, CallShape
  <2> QED BY <1>0, <1>9, <2>1 DEF Committed, CallShape
<1>10. ASSUME NEW p \in Path, Remove(p) PROVE CallShape'
  <2>0. p \in todo /\ p \in req.remove /\ p \notin req.write
    BY <1>0, <1>10 DEF Remove, CallShape, IsNext
  <2>1. disk' = [o \in Path |-> IF o \in req.write THEN req.body[o]
                                ELSE IF o \in req.remove \ (todo \ {p}) THEN NoFile
                                ELSE before[o]]
    <3>1. disk' = [disk EXCEPT ![p] = NoFile]
      BY <1>10 DEF Remove
    <3>2. disk = [o \in Path |-> IF o \in req.write THEN req.body[o]
                                 ELSE IF o \in req.remove \ todo THEN NoFile
                                 ELSE before[o]]
      BY <1>10 DEF Remove, CallShape
    <3> QED BY <2>0, <3>1, <3>2
  <2> QED BY <1>0, <1>10, <2>1 DEF Remove, CallShape, IsNext
<1>11. CASE RemoveFails
  <2>1. \A p \in Path : disk[p] \in {before[p], Written(before, req)[p]}
    BY <1>0, <1>11 DEF RemoveFails, CallShape, Written
  <2> QED BY <1>0, <1>11, <2>1 DEF RemoveFails, StartRestore, CallShape, Written, Touched
<1>12. CASE Removed
  <2>1. disk = Written(before, req)
    BY <1>0, <1>12 DEF Removed, CallShape, Written
  <2> QED BY <1>12, <2>1 DEF Removed, CallShape
<1>13. CASE Reload
  BY <1>13 DEF Reload, CallShape, Outcomes
<1>14. CASE ReloadFails
  <2>1. \A p \in Path : disk[p] \in {before[p], Written(before, req)[p]}
    BY <1>14 DEF ReloadFails, CallShape
  <2> QED BY <1>0, <1>14, <2>1 DEF ReloadFails, StartRestore, CallShape, Written, Touched
<1>15. ASSUME NEW p \in Path, Restore(p) PROVE CallShape'
  <2>1. p \in todo
    BY <1>0, <1>15 DEF Restore, MayRestore, IsNext, CallShape, WellFormed
  <2>2. \A o \in Path : IF o \in Touched(req) \ (todo \ {p})
                        THEN disk'[o] = req.snap[o]
                        ELSE disk'[o] \in {before[o], Written(before, req)[o]}
    BY <1>0, <1>15, <2>1 DEF Restore, CallShape, TypeOK
  <2> QED BY <1>0, <1>15, <2>1, <2>2 DEF Restore, CallShape
<1>16. CASE RestoreFails
  <2>1. <<"rollback_failed", disk>> \in Outcomes(before, req)
    BY <1>16, <1>M DEF RestoreFails, Outcomes
  <2> QED BY <1>16, <2>1 DEF RestoreFails, CallShape
<1>17. CASE RestoreDone
  <2>1. disk = Restored(before, req)
    BY <1>0, <1>17 DEF RestoreDone, CallShape, Restored, Written, TypeOK
  <2>2. <<"restored", disk>> \in Outcomes(before, req)
    BY <2>1 DEF Outcomes
  <2> QED BY <1>17, <2>2 DEF RestoreDone, CallShape
<1>18. CASE Crash
  <2>1. <<"crashed", disk>> \in Outcomes(before, req)
    BY <1>18, <1>M DEF Crash, Outcomes
  <2> QED BY <1>18, <2>1 DEF Crash, CallShape
<1>19. CASE BrokerReload
  BY <1>19 DEF BrokerReload, CallShape
<1>20. CASE UNCHANGED vars
  BY <1>20 DEF vars, CallShape
<1> QED BY <1>1, <1>2, <1>3, <1>4, <1>5, <1>6, <1>7, <1>8, <1>9, <1>10, <1>11,
           <1>12, <1>13, <1>14, <1>15, <1>16, <1>17, <1>18, <1>19, <1>20
        DEF Next, Step

\* CallShape and TypeOK hold in every reachable state.
THEOREM ShapeInvariant == Spec => [](TypeOK /\ CallShape)
<1>1. Init => TypeOK /\ CallShape
  BY InitShape
<1>2. TypeOK /\ CallShape /\ [Next]_vars => (TypeOK /\ CallShape)'
  BY StepType, StepShape
<1> QED BY <1>1, <1>2, PTL DEF Spec

\* Every variable of the call keeps its type.
THEOREM TypeCorrect == Spec => []TypeOK
BY ShapeInvariant, PTL

\* An Apply that returns nil, an error before the first rename or
\* ErrApplyRestored to a caller with honest snapshots is all or nothing.
THEOREM ApplyAllOrNothing == Spec => []AllOrNothing
<1>1. TypeOK /\ CallShape => AllOrNothing
  <2> SUFFICES ASSUME TypeOK, CallShape, result \in {"ok", "untouched", "restored"},
                      HonestSnapshots(before, req)
               PROVE  \/ result = "ok" /\ disk = Written(before, req)
                      \/ result # "ok" /\ \A p \in Path : Read(disk[p]) = Read(before[p])
    BY DEF AllOrNothing
  <2>0. <<result, disk>> \in Outcomes(before, req)
    BY DEF CallShape, Results
  <2>1. CASE result = "ok"
    BY <2>0, <2>1 DEF Outcomes
  <2>2. CASE result = "untouched"
    BY <2>0, <2>2 DEF Outcomes
  <2>3. CASE result = "restored"
    <3>1. disk = Restored(before, req)
      BY <2>0, <2>3 DEF Outcomes
    <3>2. \A p \in Path : before[p] \in Content
      BY DEF TypeOK
    <3> QED BY <2>3, <3>1, <3>2 DEF Restored, HonestSnapshots, Read
  <2> QED BY <2>1, <2>2, <2>3
<1> QED BY <1>1, ShapeInvariant, PTL

\* No temp file survives a call.
THEOREM NoTempSurvives == Spec => []TempsReaped
<1>1. CallShape => TempsReaped
  BY DEF CallShape, TempsReaped
<1> QED BY <1>1, ShapeInvariant, PTL

\* The vocabulary of the promise is the one of this module.
LEMMA SameVocabulary ==
    /\ Abs!Content = Content
    /\ Abs!Request = Request
    /\ \A q : Abs!WellFormed(q) <=> WellFormed(q)
    /\ \A d, q : Abs!Outcomes(d, q) = Outcomes(d, q)
<1>1. Abs!Content = Content /\ Abs!Request = Request
  BY DEF Abs!Content, Content, Abs!Request, Request, Abs!Text, Text
<1>2. \A q : Abs!WellFormed(q) <=> WellFormed(q)
  BY <1>1 DEF Abs!WellFormed, WellFormed
<1>3. \A d, q : Abs!Outcomes(d, q) = Outcomes(d, q)
  <2> TAKE d, q
  <2>1. Abs!Written(d, q) = Written(d, q)
    BY DEF Abs!Written, Written
  <2>2. Abs!Touched(q) = Touched(q)
    BY DEF Abs!Touched, Touched
  <2>3. Abs!Restored(d, q) = Restored(d, q)
    BY <2>2 DEF Abs!Restored, Restored
  <2>4. \A p : Abs!Halves(d, q, p) = Halves(d, q, p)
    BY <2>1, <2>2 DEF Abs!Halves, Halves
  <2>5. Abs!Mixtures(d, q) = Mixtures(d, q)
    BY <2>4 DEF Abs!Mixtures, Mixtures
  <2> QED BY <2>1, <2>3, <2>5 DEF Abs!Outcomes, Outcomes
<1> QED BY <1>1, <1>2, <1>3

\* The code implements the promise of ApplierSpec: a call is one atomic step
\* from the disk it started with to one of its Outcomes.
THEOREM ApplierImplementsSpec == Spec => ImplementsPromise
<1>1. Init => Abs!Init
  BY InitShape, SameVocabulary DEF Init, Abs!Init, TypeOK
<1>2. TypeOK /\ CallShape /\ CallShape' /\ [Next]_vars => [Abs!Next]_(Abs!vars)
  <2> SUFFICES ASSUME TypeOK, CallShape, CallShape', [Next]_vars
               PROVE  [Abs!Next]_(Abs!vars)
    OBVIOUS
  <2>1. CASE Call
    BY <2>1, SameVocabulary DEF Call, CallShape, Abs!Next, Abs!Call
  <2>2. CASE phase # "idle" /\ phase' = "idle" /\ UNCHANGED <<before, req>> /\ result' \in Results
    BY <2>2, SameVocabulary DEF CallShape, Abs!Next, Abs!Return, Results
  <2>3. CASE phase # "idle" /\ UNCHANGED <<before, req, result>>
    BY <2>3 DEF CallShape, Abs!vars
  <2>4. CASE UNCHANGED <<disk, before, req, result>>
    BY <2>4 DEF Abs!vars
  <2> QED BY <2>1, <2>2, <2>3, <2>4
          DEF Next, Step, vars, Refuse, Enter, Stage, StageFails, Staged, Commit, CommitFails,
              Committed, Remove, RemoveFails, Removed, Reload, ReloadFails, Restore,
              RestoreFails, RestoreDone, Crash, BrokerReload, Return, StartRestore, Results
<1> QED BY <1>1, <1>2, ShapeInvariant, PTL DEF Spec, Abs!Spec, ImplementsPromise
=============================================================================

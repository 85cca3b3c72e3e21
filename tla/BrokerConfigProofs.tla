-------------------------- MODULE BrokerConfigProofs --------------------------
(***************************************************************************)
(* Proofs about BrokerConfig, for any configurations, revisions and        *)
(* bounds.  The inductive invariant relates the phase of the running apply *)
(* to the file, to what the broker runs and to the deployment row.         *)
(*                                                                         *)
(* And about ConfEditors, which makes the files: a form saved as it was    *)
(* loaded changes nothing, for any file, catalog and documents.  That the  *)
(* file is a sequence of well-formed items is the inductive invariant; the *)
(* rest is what the editors' operators compute.                            *)
(***************************************************************************)
EXTENDS BrokerConfig, ConfEditors, SequenceTheorems, FiniteSetTheorems, WellFoundedInduction, TLAPS

\* What the revision of the running apply replaces and what it writes.
Base == revs[cur.rev].base
New == revs[cur.rev].body

\* A revision is consumed when it is written and has not been written before.
OnceInv ==
    /\ WrittenOnce
    /\ phase = "write" => revState[cur.rev] = "applied" /\ writes[cur.rev] = 0

\* The file, from the first statement of an apply to its last.
FileInv ==
    /\ phase \in {"insert", "applying", "consume", "write", "resignal", "reverify"} =>
         conf = Base
    /\ phase \in {"signal", "verify", "restore"} => conf = New
    /\ phase = "finish" =>
         /\ verdict \in {"active_verified", "pending_activation"} => conf = New
         /\ verdict \in {"failed", "rolled_back"} => conf = Base

\* The deployment row is the one of the running apply, and a row is about a
\* revision there is.
RowInv ==
    /\ phase = "insert" => deps[cur.dep].status = "none"
    /\ phase \notin {"idle", "insert"} =>
         /\ deps[cur.dep].rev = cur.rev /\ deps[cur.dep].kind = cur.kind
         /\ deps[cur.dep].status \in {"saved", "applying"}
    /\ phase # "idle" => revState[cur.rev] # "absent"
    /\ \A d \in Dep : deps[d].status # "none" => revState[deps[d].rev] # "absent"

\* needsRestart is what the kind of the apply and the revision ask for, and a
\* kind that is not verified never gets to the verification.
RestartInv ==
    /\ phase # "idle" =>
         (cur.restart <=> RequiresRestart(cur.rev, cur.kind) \/ kindNeedsRestart(cur.kind))
    /\ phase = "verify" => cur.kind = "broker_config"

\* About to be recorded as active, or being verified for it.
Activating == phase = "verify" \/ (phase = "finish" /\ verdict = "active_verified")

\* The broker has the file: started on it, or signalled.  A reload command
\* that is taken for a restart does not achieve that.
ActiveInv ==
    /\ Activating /\ adapter # "reload" =>
         IF cur.restart THEN running = Boot(conf) /\ ~hup
                        ELSE hup \/ running = Reloaded(conf)
    /\ phase = "finish" /\ verdict = "active_verified" /\ cur.kind = "broker_config" =>
         running # Down

RecoveredInv ==
    phase = "reverify" \/ (phase = "finish" /\ verdict = "rolled_back") =>
        hup \/ running \in {Boot(conf), Reloaded(conf)}

\* About to be recorded with a status that admits a broker that is down.
Admitted ==
    /\ phase = "finish"
    /\ \/ verdict = "pending_activation"
       \/ verdict = "active_verified" /\ (cur.kind = "bridges" \/ Moved(cur.rev))

\* Without faults, edits and such a status in the table: the broker is down
\* only between a restart and its recovery, and the file it is to be started
\* on again is one it starts with.
UpInv ==
    faults = 0 /\ edits = 0 /\ ~LeftDown =>
        /\ adapter = "restart" /\ phase # "idle" => Base.hard \notin Bad
        /\ adapter = "restart" /\ conf.hard \in Bad =>
             phase \in {"signal", "verify", "restore"} \/ Admitted
        /\ running = Down =>
             /\ adapter = "restart"
             /\ phase \in {"verify", "restore", "resignal"} \/ Admitted

LEMMA StepType == TypeOK /\ [Next]_vars => TypeOK'
  <1> SUFFICES ASSUME TypeOK, [Next]_vars PROVE TypeOK'
    OBVIOUS
  <1> USE BrokerConfigAssumption
      DEF files, broker, reviews, apply, Goto, Done, Fault, CtxFails, SetStatus, Decide
  <1>1. ASSUME NEW b \in Texts, EditConf(b) PROVE TypeOK'
    BY <1>1 DEF EditConf, TypeOK, Phases, Statuses, Final
  <1>2. ASSUME NEW i \in Include, EditInclude(i) PROVE TypeOK'
    BY <1>2 DEF EditInclude, TypeOK, Phases, Statuses, Final
  <1>3. ASSUME NEW r \in Rev, NEW b \in Texts, NEW e \in Editors, Preview(r, b, e)
        PROVE  TypeOK'
    BY <1>3 DEF Preview, TypeOK, Phases, Statuses, Final, Revision, Editors
  <1>4. ASSUME NEW r \in Rev, NEW d \in Dep, NEW k \in Kinds, NEW force \in BOOLEAN, NEW adopt \in BOOLEAN, BeginApply(r, d, k, force, adopt)
        PROVE  TypeOK'
    BY <1>4 DEF BeginApply, TypeOK, Phases, Statuses, Final, AdoptionRecorded
  <1>5. CASE Bounce
    <2>1. faults' \in 0 .. MaxFaults /\ edits' \in 0 .. MaxEdits
      BY <1>5 DEF Bounce, TypeOK
    <2>2. live' \in BOOLEAN /\ hup' \in BOOLEAN
      BY <1>5 DEF Bounce, TypeOK, Boot
    <2>3. QED
      BY <1>5, <2>1, <2>2 DEF Bounce, TypeOK, Phases, Statuses, Final, Boot
  <1>6. CASE AdoptBrokerConfig
    BY <1>6 DEF AdoptBrokerConfig, TypeOK, Phases, Statuses, Final, AdoptionRecorded
  <1>7. CASE Insert
    BY <1>7 DEF Insert, TypeOK, Phases, Statuses, Final, Inserted
  <1>8. CASE InsertFails
    <2>1. faults' \in 0 .. MaxFaults /\ edits' \in 0 .. MaxEdits
      BY <1>8 DEF InsertFails, TypeOK
    <2>2. live' \in BOOLEAN /\ hup' \in BOOLEAN
      BY <1>8 DEF InsertFails, TypeOK, Inserted
    <2>3. QED
      BY <1>8, <2>1, <2>2 DEF InsertFails, TypeOK, Phases, Statuses, Final, Inserted
  <1>9. CASE MarkApplying
    BY <1>9 DEF MarkApplying, TypeOK, Phases, Statuses, Final
  <1>10. CASE MarkApplyingFails
    <2>1. faults' \in 0 .. MaxFaults /\ edits' \in 0 .. MaxEdits
      BY <1>10 DEF MarkApplyingFails, TypeOK
    <2>2. live' \in BOOLEAN /\ hup' \in BOOLEAN
      BY <1>10 DEF MarkApplyingFails, TypeOK
    <2>3. QED
      BY <1>10, <2>1, <2>2 DEF MarkApplyingFails, TypeOK, Phases, Statuses, Final
  <1>11. CASE Consume
    BY <1>11 DEF Consume, TypeOK, Phases, Statuses, Final
  <1>12. CASE ConsumeFails
    BY <1>12 DEF ConsumeFails, TypeOK, Phases, Statuses, Final
  <1>13. CASE Write
    BY <1>13 DEF Write, TypeOK, Phases, Statuses, Final, Revision
  <1>14. CASE WriteFails
    <2>1. faults' \in 0 .. MaxFaults /\ edits' \in 0 .. MaxEdits
      BY <1>14 DEF WriteFails, TypeOK
    <2>2. live' \in BOOLEAN /\ hup' \in BOOLEAN
      BY <1>14 DEF WriteFails, TypeOK
    <2>3. QED
      BY <1>14, <2>1, <2>2 DEF WriteFails, TypeOK, Phases, Statuses, Final
  <1>15. CASE Restart
    BY <1>15
       DEF Restart, TypeOK, Phases, Statuses, Final, Signalled, BrokerRestarted,
           Boot, Recovered
  <1>16. CASE RestartFails
    <2>1. faults' \in 0 .. MaxFaults /\ edits' \in 0 .. MaxEdits
      BY <1>16 DEF RestartFails, TypeOK
    <2>2. live' \in BOOLEAN /\ hup' \in BOOLEAN
      BY <1>16 DEF RestartFails, TypeOK, BrokerRestarted, Boot
    <2>3. QED
      BY <1>16, <2>1, <2>2
         DEF RestartFails, TypeOK, Phases, Statuses, Final, BrokerRestarted, Boot
  <1>17. CASE Reload
    BY <1>17
       DEF Reload, TypeOK, Phases, Statuses, Final, Signalled, BrokerRestarted,
           Boot, Recovered
  <1>18. CASE ReloadFails
    <2>1. faults' \in 0 .. MaxFaults /\ edits' \in 0 .. MaxEdits
      BY <1>18 DEF ReloadFails, TypeOK
    <2>2. live' \in BOOLEAN /\ hup' \in BOOLEAN
      BY <1>18 DEF ReloadFails, TypeOK, BrokerRestarted, Boot
    <2>3. QED
      BY <1>18, <2>1, <2>2
         DEF ReloadFails, TypeOK, Phases, Statuses, Final, BrokerRestarted, Boot
  <1>19. CASE VerifyPasses
    BY <1>19 DEF VerifyPasses, TypeOK, Phases, Statuses, Final
  <1>20. CASE VerifyFails
    BY <1>20 DEF VerifyFails, TypeOK, Phases, Statuses, Final
  <1>21. CASE VerifyUnavailable
    BY <1>21 DEF VerifyUnavailable, TypeOK, Phases, Statuses, Final
  <1>22. CASE Restore
    BY <1>22 DEF Restore, TypeOK, Phases, Statuses, Final, Revision
  <1>23. CASE RestoreFails
    BY <1>23 DEF RestoreFails, TypeOK, Phases, Statuses, Final
  <1>24. CASE Resignal
    BY <1>24
       DEF Resignal, TypeOK, Phases, Statuses, Final, Signalled, BrokerRestarted,
           Boot, Recovered
  <1>25. CASE ResignalFails
    <2>1. faults' \in 0 .. MaxFaults /\ edits' \in 0 .. MaxEdits
      BY <1>25 DEF ResignalFails, TypeOK
    <2>2. live' \in BOOLEAN /\ hup' \in BOOLEAN
      BY <1>25 DEF ResignalFails, TypeOK, BrokerRestarted, Boot
    <2>3. QED
      BY <1>25, <2>1, <2>2
         DEF ResignalFails, TypeOK, Phases, Statuses, Final, BrokerRestarted, Boot
  <1>26. CASE Reverify
    BY <1>26 DEF Reverify, TypeOK, Phases, Statuses, Final
  <1>27. CASE ReverifyFails
    BY <1>27 DEF ReverifyFails, TypeOK, Phases, Statuses, Final
  <1>28. CASE Finish
    <2>1. faults' \in 0 .. MaxFaults /\ edits' \in 0 .. MaxEdits
      BY <1>28 DEF Finish, TypeOK
    <2>2. live' \in BOOLEAN /\ hup' \in BOOLEAN
      BY <1>28 DEF Finish, TypeOK
    <2>3. QED
      BY <1>28, <2>1, <2>2 DEF Finish, TypeOK, Phases, Statuses, Final
  <1>29. CASE FinishFails
    <2>1. faults' \in 0 .. MaxFaults /\ edits' \in 0 .. MaxEdits
      BY <1>29 DEF FinishFails, TypeOK
    <2>2. live' \in BOOLEAN /\ hup' \in BOOLEAN
      BY <1>29 DEF FinishFails, TypeOK
    <2>3. QED
      BY <1>29, <2>1, <2>2 DEF FinishFails, TypeOK, Phases, Statuses, Final
  <1>30. CASE Cancel
    BY <1>30 DEF Cancel, TypeOK, Phases, Statuses, Final
  <1>31. CASE Crash
    <2>1. faults' \in 0 .. MaxFaults /\ edits' \in 0 .. MaxEdits
      BY <1>31 DEF Crash, TypeOK
    <2>2. live' \in BOOLEAN /\ hup' \in BOOLEAN
      BY <1>31 DEF Crash, TypeOK
    <2>3. QED
      BY <1>31, <2>1, <2>2 DEF Crash, TypeOK, Phases, Statuses, Final
  <1>32. CASE BrokerReload
    BY <1>32 DEF BrokerReload, TypeOK, Phases, Statuses, Final, Reloaded, Body
  <1>33. CASE UNCHANGED vars
    BY <1>33 DEF vars, TypeOK, Phases, Statuses, Final
  <1>34. QED
    BY <1>1, <1>2, <1>3, <1>4, <1>5, <1>6, <1>7, <1>8, <1>9, <1>10, <1>11,
       <1>12, <1>13, <1>14, <1>15, <1>16, <1>17, <1>18, <1>19, <1>20, <1>21,
       <1>22, <1>23, <1>24, <1>25, <1>26, <1>27, <1>28, <1>29, <1>30, <1>31,
       <1>32, <1>33 DEF Next, Operator, Step

LEMMA StepOnce == TypeOK /\ OnceInv /\ [Next]_vars => OnceInv'
  <1> SUFFICES ASSUME TypeOK, OnceInv, [Next]_vars PROVE OnceInv'
    OBVIOUS
  <1> USE BrokerConfigAssumption
      DEF files, broker, reviews, apply, Goto, Done, Fault, CtxFails, SetStatus, Decide
  <1>1. ASSUME NEW b \in Texts, EditConf(b) PROVE OnceInv'
    BY <1>1 DEF EditConf, TypeOK, OnceInv, WrittenOnce
  <1>2. ASSUME NEW i \in Include, EditInclude(i) PROVE OnceInv'
    BY <1>2 DEF EditInclude, TypeOK, OnceInv, WrittenOnce
  <1>3. ASSUME NEW r \in Rev, NEW b \in Texts, NEW e \in Editors, Preview(r, b, e)
        PROVE  OnceInv'
    BY <1>3 DEF Preview, TypeOK, OnceInv, WrittenOnce
  <1>4. ASSUME NEW r \in Rev, NEW d \in Dep, NEW k \in Kinds, NEW force \in BOOLEAN, NEW adopt \in BOOLEAN, BeginApply(r, d, k, force, adopt)
        PROVE  OnceInv'
    BY <1>4 DEF BeginApply, TypeOK, OnceInv, WrittenOnce
  <1>5. CASE Bounce
    BY <1>5 DEF Bounce, TypeOK, OnceInv, WrittenOnce
  <1>6. CASE AdoptBrokerConfig
    BY <1>6 DEF AdoptBrokerConfig, TypeOK, OnceInv, WrittenOnce
  <1>7. CASE Insert
    BY <1>7 DEF Insert, TypeOK, OnceInv, WrittenOnce
  <1>8. CASE InsertFails
    BY <1>8 DEF InsertFails, TypeOK, OnceInv, WrittenOnce
  <1>9. CASE MarkApplying
    BY <1>9 DEF MarkApplying, TypeOK, OnceInv, WrittenOnce
  <1>10. CASE MarkApplyingFails
    BY <1>10 DEF MarkApplyingFails, TypeOK, OnceInv, WrittenOnce
  <1>11. CASE Consume
    BY <1>11 DEF Consume, TypeOK, OnceInv, WrittenOnce
  <1>12. CASE ConsumeFails
    BY <1>12 DEF ConsumeFails, TypeOK, OnceInv, WrittenOnce
  <1>13. CASE Write
    BY <1>13 DEF Write, TypeOK, OnceInv, WrittenOnce
  <1>14. CASE WriteFails
    BY <1>14 DEF WriteFails, TypeOK, OnceInv, WrittenOnce
  <1>15. CASE Restart
    BY <1>15 DEF Restart, TypeOK, OnceInv, WrittenOnce, Signalled
  <1>16. CASE RestartFails
    BY <1>16 DEF RestartFails, TypeOK, OnceInv, WrittenOnce
  <1>17. CASE Reload
    BY <1>17 DEF Reload, TypeOK, OnceInv, WrittenOnce, Signalled
  <1>18. CASE ReloadFails
    BY <1>18 DEF ReloadFails, TypeOK, OnceInv, WrittenOnce
  <1>19. CASE VerifyPasses
    BY <1>19 DEF VerifyPasses, TypeOK, OnceInv, WrittenOnce
  <1>20. CASE VerifyFails
    BY <1>20 DEF VerifyFails, TypeOK, OnceInv, WrittenOnce
  <1>21. CASE VerifyUnavailable
    BY <1>21 DEF VerifyUnavailable, TypeOK, OnceInv, WrittenOnce
  <1>22. CASE Restore
    BY <1>22 DEF Restore, TypeOK, OnceInv, WrittenOnce
  <1>23. CASE RestoreFails
    BY <1>23 DEF RestoreFails, TypeOK, OnceInv, WrittenOnce
  <1>24. CASE Resignal
    BY <1>24 DEF Resignal, TypeOK, OnceInv, WrittenOnce, Recovered
  <1>25. CASE ResignalFails
    BY <1>25 DEF ResignalFails, TypeOK, OnceInv, WrittenOnce
  <1>26. CASE Reverify
    BY <1>26 DEF Reverify, TypeOK, OnceInv, WrittenOnce
  <1>27. CASE ReverifyFails
    BY <1>27 DEF ReverifyFails, TypeOK, OnceInv, WrittenOnce
  <1>28. CASE Finish
    BY <1>28 DEF Finish, TypeOK, OnceInv, WrittenOnce
  <1>29. CASE FinishFails
    BY <1>29 DEF FinishFails, TypeOK, OnceInv, WrittenOnce
  <1>30. CASE Cancel
    BY <1>30 DEF Cancel, TypeOK, OnceInv, WrittenOnce
  <1>31. CASE Crash
    BY <1>31 DEF Crash, TypeOK, OnceInv, WrittenOnce
  <1>32. CASE BrokerReload
    BY <1>32 DEF BrokerReload, TypeOK, OnceInv, WrittenOnce
  <1>33. CASE UNCHANGED vars
    BY <1>33 DEF vars, TypeOK, OnceInv, WrittenOnce
  <1>34. QED
    BY <1>1, <1>2, <1>3, <1>4, <1>5, <1>6, <1>7, <1>8, <1>9, <1>10, <1>11,
       <1>12, <1>13, <1>14, <1>15, <1>16, <1>17, <1>18, <1>19, <1>20, <1>21,
       <1>22, <1>23, <1>24, <1>25, <1>26, <1>27, <1>28, <1>29, <1>30, <1>31,
       <1>32, <1>33 DEF Next, Operator, Step

LEMMA StepFile == TypeOK /\ FileInv /\ [Next]_vars => FileInv'
  <1> SUFFICES ASSUME TypeOK, FileInv, [Next]_vars PROVE FileInv'
    OBVIOUS
  <1> USE BrokerConfigAssumption
      DEF files, broker, reviews, apply, Goto, Done, Fault, CtxFails, SetStatus, Decide
  <1>1. ASSUME NEW b \in Texts, EditConf(b) PROVE FileInv'
    BY <1>1 DEF EditConf, TypeOK, FileInv, Base, New
  <1>2. ASSUME NEW i \in Include, EditInclude(i) PROVE FileInv'
    BY <1>2 DEF EditInclude, TypeOK, FileInv, Base, New
  <1>3. ASSUME NEW r \in Rev, NEW b \in Texts, NEW e \in Editors, Preview(r, b, e)
        PROVE  FileInv'
    BY <1>3 DEF Preview, TypeOK, FileInv, Base, New
  <1>4. ASSUME NEW r \in Rev, NEW d \in Dep, NEW k \in Kinds, NEW force \in BOOLEAN, NEW adopt \in BOOLEAN, BeginApply(r, d, k, force, adopt)
        PROVE  FileInv'
    BY <1>4 DEF BeginApply, TypeOK, FileInv, Base, New, BaseMatches
  <1>5. CASE Bounce
    BY <1>5 DEF Bounce, TypeOK, FileInv, Base, New
  <1>6. CASE AdoptBrokerConfig
    BY <1>6 DEF AdoptBrokerConfig, TypeOK, FileInv, Base, New
  <1>7. CASE Insert
    BY <1>7 DEF Insert, TypeOK, FileInv, Base, New
  <1>8. CASE InsertFails
    BY <1>8 DEF InsertFails, TypeOK, FileInv, Base, New
  <1>9. CASE MarkApplying
    BY <1>9 DEF MarkApplying, TypeOK, FileInv, Base, New
  <1>10. CASE MarkApplyingFails
    BY <1>10 DEF MarkApplyingFails, TypeOK, FileInv, Base, New
  <1>11. CASE Consume
    BY <1>11 DEF Consume, TypeOK, FileInv, Base, New
  <1>12. CASE ConsumeFails
    BY <1>12 DEF ConsumeFails, TypeOK, FileInv, Base, New
  <1>13. CASE Write
    BY <1>13 DEF Write, TypeOK, FileInv, Base, New
  <1>14. CASE WriteFails
    BY <1>14 DEF WriteFails, TypeOK, FileInv, Base, New
  <1>15. CASE Restart
    BY <1>15 DEF Restart, TypeOK, FileInv, Base, New, Signalled
  <1>16. CASE RestartFails
    BY <1>16 DEF RestartFails, TypeOK, FileInv, Base, New
  <1>17. CASE Reload
    BY <1>17 DEF Reload, TypeOK, FileInv, Base, New, Signalled
  <1>18. CASE ReloadFails
    BY <1>18 DEF ReloadFails, TypeOK, FileInv, Base, New
  <1>19. CASE VerifyPasses
    BY <1>19 DEF VerifyPasses, TypeOK, FileInv, Base, New
  <1>20. CASE VerifyFails
    BY <1>20 DEF VerifyFails, TypeOK, FileInv, Base, New
  <1>21. CASE VerifyUnavailable
    BY <1>21 DEF VerifyUnavailable, TypeOK, FileInv, Base, New
  <1>22. CASE Restore
    BY <1>22 DEF Restore, TypeOK, FileInv, Base, New
  <1>23. CASE RestoreFails
    BY <1>23 DEF RestoreFails, TypeOK, FileInv, Base, New
  <1>24. CASE Resignal
    BY <1>24 DEF Resignal, TypeOK, FileInv, Base, New, Recovered
  <1>25. CASE ResignalFails
    BY <1>25 DEF ResignalFails, TypeOK, FileInv, Base, New
  <1>26. CASE Reverify
    BY <1>26 DEF Reverify, TypeOK, FileInv, Base, New
  <1>27. CASE ReverifyFails
    BY <1>27 DEF ReverifyFails, TypeOK, FileInv, Base, New
  <1>28. CASE Finish
    BY <1>28 DEF Finish, TypeOK, FileInv, Base, New
  <1>29. CASE FinishFails
    BY <1>29 DEF FinishFails, TypeOK, FileInv, Base, New
  <1>30. CASE Cancel
    BY <1>30 DEF Cancel, TypeOK, FileInv, Base, New
  <1>31. CASE Crash
    BY <1>31 DEF Crash, TypeOK, FileInv, Base, New
  <1>32. CASE BrokerReload
    BY <1>32 DEF BrokerReload, TypeOK, FileInv, Base, New
  <1>33. CASE UNCHANGED vars
    BY <1>33 DEF vars, TypeOK, FileInv, Base, New
  <1>34. QED
    BY <1>1, <1>2, <1>3, <1>4, <1>5, <1>6, <1>7, <1>8, <1>9, <1>10, <1>11,
       <1>12, <1>13, <1>14, <1>15, <1>16, <1>17, <1>18, <1>19, <1>20, <1>21,
       <1>22, <1>23, <1>24, <1>25, <1>26, <1>27, <1>28, <1>29, <1>30, <1>31,
       <1>32, <1>33 DEF Next, Operator, Step

LEMMA StepRow == TypeOK /\ RowInv /\ [Next]_vars => RowInv'
  <1> SUFFICES ASSUME TypeOK, RowInv, [Next]_vars PROVE RowInv'
    OBVIOUS
  <1> USE BrokerConfigAssumption
      DEF files, broker, reviews, apply, Goto, Done, Fault, CtxFails, SetStatus, Decide
  <1>1. ASSUME NEW b \in Texts, EditConf(b) PROVE RowInv'
    BY <1>1 DEF EditConf, TypeOK, RowInv
  <1>2. ASSUME NEW i \in Include, EditInclude(i) PROVE RowInv'
    BY <1>2 DEF EditInclude, TypeOK, RowInv
  <1>3. ASSUME NEW r \in Rev, NEW b \in Texts, NEW e \in Editors, Preview(r, b, e)
        PROVE  RowInv'
    BY <1>3 DEF Preview, TypeOK, RowInv
  <1>4. ASSUME NEW r \in Rev, NEW d \in Dep, NEW k \in Kinds, NEW force \in BOOLEAN, NEW adopt \in BOOLEAN, BeginApply(r, d, k, force, adopt)
        PROVE  RowInv'
    BY <1>4 DEF BeginApply, TypeOK, RowInv
  <1>5. CASE Bounce
    BY <1>5 DEF Bounce, TypeOK, RowInv
  <1>6. CASE AdoptBrokerConfig
    BY <1>6 DEF AdoptBrokerConfig, TypeOK, RowInv
  <1>7. CASE Insert
    BY <1>7 DEF Insert, TypeOK, RowInv, Inserted
  <1>8. CASE InsertFails
    BY <1>8 DEF InsertFails, TypeOK, RowInv, Inserted
  <1>9. CASE MarkApplying
    BY <1>9 DEF MarkApplying, TypeOK, RowInv
  <1>10. CASE MarkApplyingFails
    BY <1>10 DEF MarkApplyingFails, TypeOK, RowInv
  <1>11. CASE Consume
    BY <1>11 DEF Consume, TypeOK, RowInv
  <1>12. CASE ConsumeFails
    BY <1>12 DEF ConsumeFails, TypeOK, RowInv
  <1>13. CASE Write
    BY <1>13 DEF Write, TypeOK, RowInv
  <1>14. CASE WriteFails
    BY <1>14 DEF WriteFails, TypeOK, RowInv
  <1>15. CASE Restart
    BY <1>15 DEF Restart, TypeOK, RowInv, Signalled
  <1>16. CASE RestartFails
    BY <1>16 DEF RestartFails, TypeOK, RowInv
  <1>17. CASE Reload
    BY <1>17 DEF Reload, TypeOK, RowInv, Signalled
  <1>18. CASE ReloadFails
    BY <1>18 DEF ReloadFails, TypeOK, RowInv
  <1>19. CASE VerifyPasses
    BY <1>19 DEF VerifyPasses, TypeOK, RowInv
  <1>20. CASE VerifyFails
    BY <1>20 DEF VerifyFails, TypeOK, RowInv
  <1>21. CASE VerifyUnavailable
    BY <1>21 DEF VerifyUnavailable, TypeOK, RowInv
  <1>22. CASE Restore
    BY <1>22 DEF Restore, TypeOK, RowInv
  <1>23. CASE RestoreFails
    BY <1>23 DEF RestoreFails, TypeOK, RowInv
  <1>24. CASE Resignal
    BY <1>24 DEF Resignal, TypeOK, RowInv, Recovered
  <1>25. CASE ResignalFails
    BY <1>25 DEF ResignalFails, TypeOK, RowInv
  <1>26. CASE Reverify
    BY <1>26 DEF Reverify, TypeOK, RowInv
  <1>27. CASE ReverifyFails
    BY <1>27 DEF ReverifyFails, TypeOK, RowInv
  <1>28. CASE Finish
    BY <1>28 DEF Finish, TypeOK, RowInv
  <1>29. CASE FinishFails
    BY <1>29 DEF FinishFails, TypeOK, RowInv
  <1>30. CASE Cancel
    BY <1>30 DEF Cancel, TypeOK, RowInv
  <1>31. CASE Crash
    BY <1>31 DEF Crash, TypeOK, RowInv
  <1>32. CASE BrokerReload
    BY <1>32 DEF BrokerReload, TypeOK, RowInv
  <1>33. CASE UNCHANGED vars
    BY <1>33 DEF vars, TypeOK, RowInv
  <1>34. QED
    BY <1>1, <1>2, <1>3, <1>4, <1>5, <1>6, <1>7, <1>8, <1>9, <1>10, <1>11,
       <1>12, <1>13, <1>14, <1>15, <1>16, <1>17, <1>18, <1>19, <1>20, <1>21,
       <1>22, <1>23, <1>24, <1>25, <1>26, <1>27, <1>28, <1>29, <1>30, <1>31,
       <1>32, <1>33 DEF Next, Operator, Step

LEMMA StepRestart == TypeOK /\ RestartInv /\ [Next]_vars => RestartInv'
  <1> SUFFICES ASSUME TypeOK, RestartInv, [Next]_vars PROVE RestartInv'
    OBVIOUS
  <1> USE BrokerConfigAssumption
      DEF files, broker, reviews, apply, Goto, Done, Fault, CtxFails, SetStatus, Decide
  <1>1. ASSUME NEW b \in Texts, EditConf(b) PROVE RestartInv'
    BY <1>1 DEF EditConf, TypeOK, RestartInv, RequiresRestart, kindNeedsRestart
  <1>2. ASSUME NEW i \in Include, EditInclude(i) PROVE RestartInv'
    BY <1>2 DEF EditInclude, TypeOK, RestartInv, RequiresRestart, kindNeedsRestart
  <1>3. ASSUME NEW r \in Rev, NEW b \in Texts, NEW e \in Editors, Preview(r, b, e)
        PROVE  RestartInv'
    BY <1>3 DEF Preview, TypeOK, RestartInv, RequiresRestart, kindNeedsRestart
  <1>4. ASSUME NEW r \in Rev, NEW d \in Dep, NEW k \in Kinds, NEW force \in BOOLEAN, NEW adopt \in BOOLEAN, BeginApply(r, d, k, force, adopt)
        PROVE  RestartInv'
    BY <1>4 DEF BeginApply, TypeOK, RestartInv, RequiresRestart, kindNeedsRestart
  <1>5. CASE Bounce
    BY <1>5 DEF Bounce, TypeOK, RestartInv, RequiresRestart, kindNeedsRestart
  <1>6. CASE AdoptBrokerConfig
    BY <1>6
       DEF AdoptBrokerConfig, TypeOK, RestartInv, RequiresRestart, kindNeedsRestart
  <1>7. CASE Insert
    BY <1>7 DEF Insert, TypeOK, RestartInv, RequiresRestart, kindNeedsRestart
  <1>8. CASE InsertFails
    BY <1>8 DEF InsertFails, TypeOK, RestartInv, RequiresRestart, kindNeedsRestart
  <1>9. CASE MarkApplying
    BY <1>9 DEF MarkApplying, TypeOK, RestartInv, RequiresRestart, kindNeedsRestart
  <1>10. CASE MarkApplyingFails
    BY <1>10
       DEF MarkApplyingFails, TypeOK, RestartInv, RequiresRestart, kindNeedsRestart
  <1>11. CASE Consume
    BY <1>11 DEF Consume, TypeOK, RestartInv, RequiresRestart, kindNeedsRestart
  <1>12. CASE ConsumeFails
    BY <1>12 DEF ConsumeFails, TypeOK, RestartInv, RequiresRestart, kindNeedsRestart
  <1>13. CASE Write
    BY <1>13 DEF Write, TypeOK, RestartInv, RequiresRestart, kindNeedsRestart
  <1>14. CASE WriteFails
    BY <1>14 DEF WriteFails, TypeOK, RestartInv, RequiresRestart, kindNeedsRestart
  <1>15. CASE Restart
    BY <1>15
       DEF Restart, TypeOK, RestartInv, RequiresRestart, kindNeedsRestart, Signalled
  <1>16. CASE RestartFails
    BY <1>16 DEF RestartFails, TypeOK, RestartInv, RequiresRestart, kindNeedsRestart
  <1>17. CASE Reload
    BY <1>17
       DEF Reload, TypeOK, RestartInv, RequiresRestart, kindNeedsRestart, Signalled
  <1>18. CASE ReloadFails
    BY <1>18 DEF ReloadFails, TypeOK, RestartInv, RequiresRestart, kindNeedsRestart
  <1>19. CASE VerifyPasses
    BY <1>19 DEF VerifyPasses, TypeOK, RestartInv, RequiresRestart, kindNeedsRestart
  <1>20. CASE VerifyFails
    BY <1>20 DEF VerifyFails, TypeOK, RestartInv, RequiresRestart, kindNeedsRestart
  <1>21. CASE VerifyUnavailable
    BY <1>21
       DEF VerifyUnavailable, TypeOK, RestartInv, RequiresRestart, kindNeedsRestart
  <1>22. CASE Restore
    BY <1>22 DEF Restore, TypeOK, RestartInv, RequiresRestart, kindNeedsRestart
  <1>23. CASE RestoreFails
    BY <1>23 DEF RestoreFails, TypeOK, RestartInv, RequiresRestart, kindNeedsRestart
  <1>24. CASE Resignal
    BY <1>24
       DEF Resignal, TypeOK, RestartInv, RequiresRestart, kindNeedsRestart,
           Recovered
  <1>25. CASE ResignalFails
    BY <1>25
       DEF ResignalFails, TypeOK, RestartInv, RequiresRestart, kindNeedsRestart
  <1>26. CASE Reverify
    BY <1>26 DEF Reverify, TypeOK, RestartInv, RequiresRestart, kindNeedsRestart
  <1>27. CASE ReverifyFails
    BY <1>27
       DEF ReverifyFails, TypeOK, RestartInv, RequiresRestart, kindNeedsRestart
  <1>28. CASE Finish
    BY <1>28 DEF Finish, TypeOK, RestartInv, RequiresRestart, kindNeedsRestart
  <1>29. CASE FinishFails
    BY <1>29 DEF FinishFails, TypeOK, RestartInv, RequiresRestart, kindNeedsRestart
  <1>30. CASE Cancel
    BY <1>30 DEF Cancel, TypeOK, RestartInv, RequiresRestart, kindNeedsRestart
  <1>31. CASE Crash
    BY <1>31 DEF Crash, TypeOK, RestartInv, RequiresRestart, kindNeedsRestart
  <1>32. CASE BrokerReload
    BY <1>32 DEF BrokerReload, TypeOK, RestartInv, RequiresRestart, kindNeedsRestart
  <1>33. CASE UNCHANGED vars
    BY <1>33 DEF vars, TypeOK, RestartInv, RequiresRestart, kindNeedsRestart
  <1>34. QED
    BY <1>1, <1>2, <1>3, <1>4, <1>5, <1>6, <1>7, <1>8, <1>9, <1>10, <1>11,
       <1>12, <1>13, <1>14, <1>15, <1>16, <1>17, <1>18, <1>19, <1>20, <1>21,
       <1>22, <1>23, <1>24, <1>25, <1>26, <1>27, <1>28, <1>29, <1>30, <1>31,
       <1>32, <1>33 DEF Next, Operator, Step

(* A second reload of the same file changes nothing.                       *)
LEMMA ReloadIdempotent ==
    ASSUME TypeOK, NEW c \in Body, running' = Reloaded(c)
    PROVE  running' = Reloaded(c)'
  BY BrokerConfigAssumption DEF TypeOK, Reloaded, Body

LEMMA StepActive == TypeOK /\ RestartInv /\ ActiveInv /\ [Next]_vars => ActiveInv'
  <1> SUFFICES ASSUME TypeOK, RestartInv, ActiveInv, [Next]_vars PROVE ActiveInv'
    OBVIOUS
  <1> USE BrokerConfigAssumption
      DEF files, broker, reviews, apply, Goto, Done, Fault, CtxFails, SetStatus, Decide
  <1>1. ASSUME NEW b \in Texts, EditConf(b) PROVE ActiveInv'
    BY <1>1 DEF EditConf, TypeOK, ActiveInv, Activating, CanRestart, Boot, Reloaded
  <1>2. ASSUME NEW i \in Include, EditInclude(i) PROVE ActiveInv'
    BY <1>2
       DEF EditInclude, TypeOK, ActiveInv, Activating, CanRestart, Boot, Reloaded
  <1>3. ASSUME NEW r \in Rev, NEW b \in Texts, NEW e \in Editors, Preview(r, b, e)
        PROVE  ActiveInv'
    BY <1>3 DEF Preview, TypeOK, ActiveInv, Activating, CanRestart, Boot, Reloaded
  <1>4. ASSUME NEW r \in Rev, NEW d \in Dep, NEW k \in Kinds, NEW force \in BOOLEAN, NEW adopt \in BOOLEAN, BeginApply(r, d, k, force, adopt)
        PROVE  ActiveInv'
    BY <1>4
       DEF BeginApply, TypeOK, ActiveInv, Activating, CanRestart, Boot, Reloaded
  <1>5. CASE Bounce
    BY <1>5 DEF Bounce, TypeOK, ActiveInv, Activating, CanRestart, Boot, Reloaded
  <1>6. CASE AdoptBrokerConfig
    BY <1>6
       DEF AdoptBrokerConfig, TypeOK, ActiveInv, Activating, CanRestart, Boot,
           Reloaded
  <1>7. CASE Insert
    BY <1>7 DEF Insert, TypeOK, ActiveInv, Activating, CanRestart, Boot, Reloaded
  <1>8. CASE InsertFails
    BY <1>8
       DEF InsertFails, TypeOK, ActiveInv, Activating, CanRestart, Boot, Reloaded
  <1>9. CASE MarkApplying
    BY <1>9
       DEF MarkApplying, TypeOK, ActiveInv, Activating, CanRestart, Boot, Reloaded
  <1>10. CASE MarkApplyingFails
    BY <1>10
       DEF MarkApplyingFails, TypeOK, ActiveInv, Activating, CanRestart, Boot,
           Reloaded
  <1>11. CASE Consume
    BY <1>11 DEF Consume, TypeOK, ActiveInv, Activating, CanRestart, Boot, Reloaded
  <1>12. CASE ConsumeFails
    BY <1>12
       DEF ConsumeFails, TypeOK, ActiveInv, Activating, CanRestart, Boot, Reloaded
  <1>13. CASE Write
    BY <1>13 DEF Write, TypeOK, ActiveInv, Activating, CanRestart, Boot, Reloaded
  <1>14. CASE WriteFails
    BY <1>14
       DEF WriteFails, TypeOK, ActiveInv, Activating, CanRestart, Boot, Reloaded
  <1>15. CASE Restart
    BY <1>15
       DEF Restart, TypeOK, ActiveInv, Activating, CanRestart, Boot, Reloaded,
           Signalled, BrokerRestarted
  <1>16. CASE RestartFails
    BY <1>16
       DEF RestartFails, TypeOK, ActiveInv, Activating, CanRestart, Boot, Reloaded,
           BrokerRestarted
  <1>17. CASE Reload
    BY <1>17
       DEF Reload, TypeOK, ActiveInv, Activating, CanRestart, Boot, Reloaded,
           Signalled
  <1>18. CASE ReloadFails
    BY <1>18
       DEF ReloadFails, TypeOK, ActiveInv, Activating, CanRestart, Boot, Reloaded
  <1>19. CASE VerifyPasses
    BY <1>19
       DEF VerifyPasses, TypeOK, ActiveInv, Activating, CanRestart, Boot, Reloaded
  <1>20. CASE VerifyFails
    BY <1>20
       DEF VerifyFails, TypeOK, ActiveInv, Activating, CanRestart, Boot, Reloaded
  <1>21. CASE VerifyUnavailable
    BY <1>21
       DEF VerifyUnavailable, TypeOK, ActiveInv, Activating, CanRestart, Boot,
           Reloaded
  <1>22. CASE Restore
    BY <1>22 DEF Restore, TypeOK, ActiveInv, Activating, CanRestart, Boot, Reloaded
  <1>23. CASE RestoreFails
    BY <1>23
       DEF RestoreFails, TypeOK, ActiveInv, Activating, CanRestart, Boot, Reloaded
  <1>24. CASE Resignal
    BY <1>24
       DEF Resignal, TypeOK, ActiveInv, Activating, CanRestart, Boot, Reloaded,
           Recovered
  <1>25. CASE ResignalFails
    BY <1>25
       DEF ResignalFails, TypeOK, ActiveInv, Activating, CanRestart, Boot, Reloaded,
           BrokerRestarted
  <1>26. CASE Reverify
    BY <1>26 DEF Reverify, TypeOK, ActiveInv, Activating, CanRestart, Boot, Reloaded
  <1>27. CASE ReverifyFails
    BY <1>27
       DEF ReverifyFails, TypeOK, ActiveInv, Activating, CanRestart, Boot, Reloaded
  <1>28. CASE Finish
    BY <1>28 DEF Finish, TypeOK, ActiveInv, Activating, CanRestart, Boot, Reloaded
  <1>29. CASE FinishFails
    BY <1>29
       DEF FinishFails, TypeOK, ActiveInv, Activating, CanRestart, Boot, Reloaded
  <1>30. CASE Cancel
    BY <1>30 DEF Cancel, TypeOK, ActiveInv, Activating, CanRestart, Boot, Reloaded
  <1>31. CASE Crash
    BY <1>31 DEF Crash, TypeOK, ActiveInv, Activating, CanRestart, Boot, Reloaded
  <1>32. CASE BrokerReload
    <2>1. /\ hup /\ running' = Reloaded(conf)
          /\ UNCHANGED <<conf, adapter, phase, cur, verdict>>
      BY <1>32 DEF BrokerReload
    <2>2. running' = Reloaded(conf)'
      BY <2>1, ReloadIdempotent DEF TypeOK, Reloaded
    <2>3. running # Down => running' # Down
      BY <2>1 DEF Reloaded, TypeOK, Body
    <2>4. Boot(conf)' = Boot(conf)
      BY <2>1 DEF Boot
    <2>5. QED
      BY <2>1, <2>2, <2>3, <2>4 DEF ActiveInv, Activating
  <1>33. CASE UNCHANGED vars
    BY <1>33 DEF vars, TypeOK, ActiveInv, Activating, CanRestart, Boot, Reloaded
  <1>34. QED
    BY <1>1, <1>2, <1>3, <1>4, <1>5, <1>6, <1>7, <1>8, <1>9, <1>10, <1>11,
       <1>12, <1>13, <1>14, <1>15, <1>16, <1>17, <1>18, <1>19, <1>20, <1>21,
       <1>22, <1>23, <1>24, <1>25, <1>26, <1>27, <1>28, <1>29, <1>30, <1>31,
       <1>32, <1>33 DEF Next, Operator, Step

LEMMA StepRecovered == TypeOK /\ RecoveredInv /\ [Next]_vars => RecoveredInv'
  <1> SUFFICES ASSUME TypeOK, RecoveredInv, [Next]_vars PROVE RecoveredInv'
    OBVIOUS
  <1> USE BrokerConfigAssumption
      DEF files, broker, reviews, apply, Goto, Done, Fault, CtxFails, SetStatus, Decide
  <1>1. ASSUME NEW b \in Texts, EditConf(b) PROVE RecoveredInv'
    BY <1>1 DEF EditConf, TypeOK, RecoveredInv, CanRestart, Boot, Reloaded
  <1>2. ASSUME NEW i \in Include, EditInclude(i) PROVE RecoveredInv'
    BY <1>2 DEF EditInclude, TypeOK, RecoveredInv, CanRestart, Boot, Reloaded
  <1>3. ASSUME NEW r \in Rev, NEW b \in Texts, NEW e \in Editors, Preview(r, b, e)
        PROVE  RecoveredInv'
    BY <1>3 DEF Preview, TypeOK, RecoveredInv, CanRestart, Boot, Reloaded
  <1>4. ASSUME NEW r \in Rev, NEW d \in Dep, NEW k \in Kinds, NEW force \in BOOLEAN, NEW adopt \in BOOLEAN, BeginApply(r, d, k, force, adopt)
        PROVE  RecoveredInv'
    BY <1>4 DEF BeginApply, TypeOK, RecoveredInv, CanRestart, Boot, Reloaded
  <1>5. CASE Bounce
    BY <1>5 DEF Bounce, TypeOK, RecoveredInv, CanRestart, Boot, Reloaded
  <1>6. CASE AdoptBrokerConfig
    BY <1>6 DEF AdoptBrokerConfig, TypeOK, RecoveredInv, CanRestart, Boot, Reloaded
  <1>7. CASE Insert
    BY <1>7 DEF Insert, TypeOK, RecoveredInv, CanRestart, Boot, Reloaded
  <1>8. CASE InsertFails
    BY <1>8 DEF InsertFails, TypeOK, RecoveredInv, CanRestart, Boot, Reloaded
  <1>9. CASE MarkApplying
    BY <1>9 DEF MarkApplying, TypeOK, RecoveredInv, CanRestart, Boot, Reloaded
  <1>10. CASE MarkApplyingFails
    BY <1>10 DEF MarkApplyingFails, TypeOK, RecoveredInv, CanRestart, Boot, Reloaded
  <1>11. CASE Consume
    BY <1>11 DEF Consume, TypeOK, RecoveredInv, CanRestart, Boot, Reloaded
  <1>12. CASE ConsumeFails
    BY <1>12 DEF ConsumeFails, TypeOK, RecoveredInv, CanRestart, Boot, Reloaded
  <1>13. CASE Write
    BY <1>13 DEF Write, TypeOK, RecoveredInv, CanRestart, Boot, Reloaded
  <1>14. CASE WriteFails
    BY <1>14 DEF WriteFails, TypeOK, RecoveredInv, CanRestart, Boot, Reloaded
  <1>15. CASE Restart
    BY <1>15
       DEF Restart, TypeOK, RecoveredInv, CanRestart, Boot, Reloaded, Signalled,
           BrokerRestarted
  <1>16. CASE RestartFails
    BY <1>16
       DEF RestartFails, TypeOK, RecoveredInv, CanRestart, Boot, Reloaded,
           BrokerRestarted
  <1>17. CASE Reload
    BY <1>17 DEF Reload, TypeOK, RecoveredInv, CanRestart, Boot, Reloaded, Signalled
  <1>18. CASE ReloadFails
    BY <1>18 DEF ReloadFails, TypeOK, RecoveredInv, CanRestart, Boot, Reloaded
  <1>19. CASE VerifyPasses
    BY <1>19 DEF VerifyPasses, TypeOK, RecoveredInv, CanRestart, Boot, Reloaded
  <1>20. CASE VerifyFails
    BY <1>20 DEF VerifyFails, TypeOK, RecoveredInv, CanRestart, Boot, Reloaded
  <1>21. CASE VerifyUnavailable
    BY <1>21 DEF VerifyUnavailable, TypeOK, RecoveredInv, CanRestart, Boot, Reloaded
  <1>22. CASE Restore
    BY <1>22 DEF Restore, TypeOK, RecoveredInv, CanRestart, Boot, Reloaded
  <1>23. CASE RestoreFails
    BY <1>23 DEF RestoreFails, TypeOK, RecoveredInv, CanRestart, Boot, Reloaded
  <1>24. CASE Resignal
    BY <1>24
       DEF Resignal, TypeOK, RecoveredInv, CanRestart, Boot, Reloaded, Recovered,
           BrokerRestarted
  <1>25. CASE ResignalFails
    BY <1>25
       DEF ResignalFails, TypeOK, RecoveredInv, CanRestart, Boot, Reloaded,
           BrokerRestarted
  <1>26. CASE Reverify
    BY <1>26 DEF Reverify, TypeOK, RecoveredInv, CanRestart, Boot, Reloaded
  <1>27. CASE ReverifyFails
    BY <1>27 DEF ReverifyFails, TypeOK, RecoveredInv, CanRestart, Boot, Reloaded
  <1>28. CASE Finish
    BY <1>28 DEF Finish, TypeOK, RecoveredInv, CanRestart, Boot, Reloaded
  <1>29. CASE FinishFails
    BY <1>29 DEF FinishFails, TypeOK, RecoveredInv, CanRestart, Boot, Reloaded
  <1>30. CASE Cancel
    BY <1>30 DEF Cancel, TypeOK, RecoveredInv, CanRestart, Boot, Reloaded
  <1>31. CASE Crash
    BY <1>31 DEF Crash, TypeOK, RecoveredInv, CanRestart, Boot, Reloaded
  <1>32. CASE BrokerReload
    <2>1. /\ hup /\ running' = Reloaded(conf)
          /\ UNCHANGED <<conf, adapter, phase, cur, verdict>>
      BY <1>32 DEF BrokerReload
    <2>2. running' = Reloaded(conf)'
      BY <2>1, ReloadIdempotent DEF TypeOK, Reloaded
    <2>3. Boot(conf)' = Boot(conf)
      BY <2>1 DEF Boot
    <2>4. QED
      BY <2>1, <2>2, <2>3 DEF RecoveredInv
  <1>33. CASE UNCHANGED vars
    BY <1>33 DEF vars, TypeOK, RecoveredInv, CanRestart, Boot, Reloaded
  <1>34. QED
    BY <1>1, <1>2, <1>3, <1>4, <1>5, <1>6, <1>7, <1>8, <1>9, <1>10, <1>11,
       <1>12, <1>13, <1>14, <1>15, <1>16, <1>17, <1>18, <1>19, <1>20, <1>21,
       <1>22, <1>23, <1>24, <1>25, <1>26, <1>27, <1>28, <1>29, <1>30, <1>31,
       <1>32, <1>33 DEF Next, Operator, Step

\* A row that admits a broker that is down stays as it is.
LEMMA RowsStay ==
    ASSUME TypeOK, RowInv, [Next]_vars, NEW d \in Dep,
           deps[d].status \in {"pending_activation", "active_verified"}
    PROVE  deps'[d] = deps[d] /\ revs'[deps[d].rev] = revs[deps[d].rev]
  <1> USE BrokerConfigAssumption
      DEF files, broker, reviews, apply, Goto, Done, Fault, CtxFails, SetStatus, Decide
  <1>1. CASE UNCHANGED <<deps, revs>>
    BY <1>1
  <1>2. ASSUME NEW r \in Rev, NEW b \in Texts, NEW e \in Editors, Preview(r, b, e)
        PROVE  deps'[d] = deps[d] /\ revs'[deps[d].rev] = revs[deps[d].rev]
    <2>1. deps' = deps /\ \A q \in Rev : q # r => revs'[q] = revs[q]
      BY <1>2 DEF Preview, TypeOK
    <2>2. deps[d].rev # r
      BY <1>2 DEF Preview, RowInv
    <2>3. QED
      BY <2>1, <2>2 DEF TypeOK
  <1>3. CASE phase # "idle" /\ UNCHANGED revs /\ deps' = [deps EXCEPT ![cur.dep] = deps'[cur.dep]]
    <2>1. deps[cur.dep].status \notin {"pending_activation", "active_verified"}
      BY <1>3 DEF RowInv
    <2>2. QED
      BY <1>3, <2>1 DEF TypeOK
  <1>4. CASE Insert \/ InsertFails \/ MarkApplying \/ Finish
    <2>1. phase # "idle" /\ UNCHANGED revs /\ deps' = [deps EXCEPT ![cur.dep] = deps'[cur.dep]]
      BY <1>4 DEF Insert, InsertFails, MarkApplying, Finish, Inserted, TypeOK
    <2>2. QED
      BY <1>3, <2>1
  <1>5. CASE \/ \E b \in Texts : EditConf(b)
             \/ \E i \in Include : EditInclude(i)
             \/ Bounce \/ AdoptBrokerConfig
             \/ \E r \in Rev, e \in Dep, k \in Kinds, force, adopt \in BOOLEAN :
                    BeginApply(r, e, k, force, adopt)
    BY <1>1, <1>5, Zenon
       DEF EditConf, EditInclude, Bounce, AdoptBrokerConfig, BeginApply
  <1>6. CASE \/ MarkApplyingFails \/ Consume \/ ConsumeFails \/ Write \/ WriteFails
             \/ Restart \/ RestartFails \/ Reload \/ ReloadFails
             \/ VerifyPasses \/ VerifyFails \/ VerifyUnavailable
    BY <1>1, <1>6, Zenon
       DEF MarkApplyingFails, Consume, ConsumeFails, Write, WriteFails, Restart, RestartFails,
           Reload, ReloadFails, VerifyPasses, VerifyFails, VerifyUnavailable
  <1>7. CASE \/ Restore \/ RestoreFails \/ Resignal \/ ResignalFails \/ Reverify
             \/ ReverifyFails \/ FinishFails \/ Cancel \/ Crash \/ BrokerReload
             \/ UNCHANGED vars
    BY <1>1, <1>7, Zenon
       DEF Restore, RestoreFails, Resignal, ResignalFails, Reverify, ReverifyFails, FinishFails,
           Cancel, Crash, BrokerReload, vars
  <1>8. QED
    BY <1>2, <1>4, <1>5, <1>6, <1>7 DEF Next, Operator, Step

LEMMA LeftDownStays ==
    ASSUME TypeOK, RowInv, [Next]_vars PROVE LeftDown => LeftDown'
  <1> SUFFICES ASSUME NEW d \in Dep,
                      \/ deps[d].status = "pending_activation"
                      \/ /\ deps[d].status = "active_verified"
                         /\ deps[d].kind = "bridges" \/ Moved(deps[d].rev)
               PROVE  LeftDown'
    BY Zenon DEF LeftDown
  <1>1. deps'[d] = deps[d] /\ revs'[deps[d].rev] = revs[deps[d].rev]
    BY RowsStay, Zenon
  <1>2. Moved(deps[d].rev) => Moved(deps[d].rev)'
    BY <1>1, Zenon DEF Moved
  <1>3. QED
    BY <1>1, <1>2, Zenon DEF LeftDown

LEMMA StepUp == TypeOK /\ FileInv /\ RowInv /\ RestartInv /\ ActiveInv /\ UpInv /\ [Next]_vars => UpInv'
  <1> SUFFICES ASSUME TypeOK, FileInv, RowInv, RestartInv, ActiveInv, UpInv, [Next]_vars PROVE UpInv'
    OBVIOUS
  <1> USE BrokerConfigAssumption
      DEF files, broker, reviews, apply, Goto, Done, Fault, CtxFails, SetStatus, Decide
  <1>a. UNCHANGED <<deps, revs>> => (LeftDown' <=> LeftDown)
    BY Zenon DEF LeftDown, Moved
  <1>b. UNCHANGED <<revs, cur>> => (Moved(cur.rev)' <=> Moved(cur.rev))
    BY Zenon DEF Moved
  <1>c. LeftDown => LeftDown'
    BY LeftDownStays
  <1>1. ASSUME NEW b \in Texts, EditConf(b) PROVE UpInv'
    BY <1>1, <1>a, <1>b, <1>c
       DEF EditConf, TypeOK, FileInv, RowInv, UpInv, Admitted, Base, New,
           Boot, CanRestart
  <1>2. ASSUME NEW i \in Include, EditInclude(i) PROVE UpInv'
    BY <1>2, <1>a, <1>b, <1>c
       DEF EditInclude, TypeOK, FileInv, RowInv, UpInv, Admitted, Base,
           New, Boot, CanRestart
  <1>3. ASSUME NEW r \in Rev, NEW b \in Texts, NEW e \in Editors, Preview(r, b, e)
        PROVE  UpInv'
    BY <1>3, <1>a, <1>b, <1>c
       DEF Preview, TypeOK, FileInv, RowInv, UpInv, Admitted, Base, New,
           Boot, CanRestart
  <1>4. ASSUME NEW r \in Rev, NEW d \in Dep, NEW k \in Kinds, NEW force \in BOOLEAN, NEW adopt \in BOOLEAN, BeginApply(r, d, k, force, adopt)
        PROVE  UpInv'
    BY <1>4, <1>a, <1>b, <1>c
       DEF BeginApply, TypeOK, FileInv, RowInv, UpInv, Admitted, Base,
           New, Boot, CanRestart, BaseMatches
  <1>5. CASE Bounce
    BY <1>5, <1>a, <1>b, <1>c
       DEF Bounce, TypeOK, FileInv, RowInv, UpInv, Admitted, Base, New,
           Boot, CanRestart
  <1>6. CASE AdoptBrokerConfig
    BY <1>6, <1>a, <1>b, <1>c
       DEF AdoptBrokerConfig, TypeOK, FileInv, RowInv, UpInv, Admitted,
           Base, New, Boot, CanRestart
  <1>7. CASE Insert
    BY <1>7, <1>a, <1>b, <1>c
       DEF Insert, TypeOK, FileInv, RowInv, UpInv, Admitted, Base, New,
           Boot, CanRestart, Inserted
  <1>8. CASE InsertFails
    BY <1>8, <1>a, <1>b, <1>c
       DEF InsertFails, TypeOK, FileInv, RowInv, UpInv, Admitted, Base,
           New, Boot, CanRestart, Inserted
  <1>9. CASE MarkApplying
    BY <1>9, <1>a, <1>b, <1>c
       DEF MarkApplying, TypeOK, FileInv, RowInv, UpInv, Admitted, Base,
           New, Boot, CanRestart
  <1>10. CASE MarkApplyingFails
    BY <1>10, <1>a, <1>b, <1>c
       DEF MarkApplyingFails, TypeOK, FileInv, RowInv, UpInv, Admitted,
           Base, New, Boot, CanRestart
  <1>11. CASE Consume
    BY <1>11, <1>a, <1>b, <1>c
       DEF Consume, TypeOK, FileInv, RowInv, UpInv, Admitted, Base, New,
           Boot, CanRestart
  <1>12. CASE ConsumeFails
    BY <1>12, <1>a, <1>b, <1>c
       DEF ConsumeFails, TypeOK, FileInv, RowInv, UpInv, Admitted, Base,
           New, Boot, CanRestart
  <1>13. CASE Write
    BY <1>13, <1>a, <1>b, <1>c
       DEF Write, TypeOK, FileInv, RowInv, UpInv, Admitted, Base, New,
           Boot, CanRestart
  <1>14. CASE WriteFails
    BY <1>14, <1>a, <1>b, <1>c
       DEF WriteFails, TypeOK, FileInv, RowInv, UpInv, Admitted, Base,
           New, Boot, CanRestart
  <1>15. CASE Restart
    <2>1. /\ UNCHANGED <<conf, adapter, deps, cur, revs, faults, edits>>
          /\ phase = "signal"
          /\ running' = Down => running = Down \/ adapter = "restart"
      BY <1>15 DEF Restart, BrokerRestarted
    <2>2. phase' = "verify" \/ Admitted'
      BY <1>15 DEF Restart, Signalled, Admitted, TypeOK, Kinds
    <2>3. QED
      BY <2>1, <2>2, <1>a, <1>b DEF UpInv, Base, Admitted
  <1>16. CASE RestartFails
    BY <1>16, <1>a, <1>b, <1>c
       DEF RestartFails, TypeOK, FileInv, RowInv, UpInv, Admitted, Base,
           New, Boot, CanRestart, BrokerRestarted
  <1>17. CASE Reload
    <2>1. /\ UNCHANGED <<conf, running, adapter, deps, cur, revs, faults, edits>>
          /\ phase = "signal"
      BY <1>17 DEF Reload
    <2>2. cur.kind # "broker_config" => cur.restart
      BY <2>1 DEF RestartInv, kindNeedsRestart, TypeOK, Kinds
    <2>3. phase' = "verify" \/ Admitted'
      BY <1>17, <2>2 DEF Reload, Signalled, Admitted
    <2>4. QED
      BY <2>1, <2>3, <1>a, <1>b DEF UpInv, Base, Admitted
  <1>18. CASE ReloadFails
    BY <1>18, <1>a, <1>b, <1>c
       DEF ReloadFails, TypeOK, FileInv, RowInv, UpInv, Admitted, Base,
           New, Boot, CanRestart
  <1>19. CASE VerifyPasses
    <2>1. /\ UNCHANGED <<conf, running, adapter, deps, cur, revs, faults, edits>>
          /\ phase = "verify" /\ phase' = "finish" /\ running # Down
      BY <1>19 DEF VerifyPasses
    <2>a. verdict' = "active_verified"
      BY <1>19 DEF VerifyPasses
    <2>2. SUFFICES ASSUME faults = 0, edits = 0, ~LeftDown, adapter = "restart"
                   PROVE  conf.hard \notin Bad \/ Moved(cur.rev)
      BY <2>1, <2>a, <1>a, <1>b DEF UpInv, Base, Admitted
    <2>3. CASE cur.restart
      BY <2>1, <2>2, <2>3 DEF ActiveInv, Activating, Boot
    <2>4. CASE ~cur.restart
      <3>1. ~RequiresRestart(cur.rev, cur.kind) /\ cur.kind = "broker_config"
        BY <2>1, <2>4 DEF RestartInv
      <3>2. Base.hard \notin Bad /\ conf = New
        BY <2>1, <2>2 DEF FileInv, UpInv
      <3>3. New.hard = Base.hard \/ Moved(cur.rev)
        <4>1. revs[cur.rev].editor \in {"form", "draft"}
          BY DEF TypeOK, Revision, Editors
        <4>2. QED
          BY <3>1, <4>1 DEF RequiresRestart, Moved, New, Base
      <3>4. QED
        BY <3>2, <3>3, Zenon
    <2>5. QED
      BY <2>3, <2>4
  <1>20. CASE VerifyFails
    BY <1>20, <1>a, <1>b, <1>c
       DEF VerifyFails, TypeOK, FileInv, RowInv, UpInv, Admitted, Base,
           New, Boot, CanRestart
  <1>21. CASE VerifyUnavailable
    BY <1>21, <1>a, <1>b, <1>c
       DEF VerifyUnavailable, TypeOK, FileInv, RowInv, UpInv, Admitted,
           Base, New, Boot, CanRestart
  <1>22. CASE Restore
    BY <1>22, <1>a, <1>b, <1>c
       DEF Restore, TypeOK, FileInv, RowInv, UpInv, Admitted, Base, New,
           Boot, CanRestart
  <1>23. CASE RestoreFails
    BY <1>23, <1>a, <1>b, <1>c
       DEF RestoreFails, TypeOK, FileInv, RowInv, UpInv, Admitted, Base,
           New, Boot, CanRestart
  <1>24. CASE Resignal
    BY <1>24, <1>a, <1>b, <1>c
       DEF Resignal, TypeOK, FileInv, RowInv, UpInv, Admitted, Base, New,
           Boot, CanRestart, Recovered, BrokerRestarted
  <1>25. CASE ResignalFails
    BY <1>25, <1>a, <1>b, <1>c
       DEF ResignalFails, TypeOK, FileInv, RowInv, UpInv, Admitted, Base,
           New, Boot, CanRestart, BrokerRestarted
  <1>26. CASE Reverify
    BY <1>26, <1>a, <1>b, <1>c
       DEF Reverify, TypeOK, FileInv, RowInv, UpInv, Admitted, Base, New,
           Boot, CanRestart
  <1>27. CASE ReverifyFails
    BY <1>27, <1>a, <1>b, <1>c
       DEF ReverifyFails, TypeOK, FileInv, RowInv, UpInv, Admitted, Base,
           New, Boot, CanRestart
  <1>28. CASE Finish
    <2>1. /\ phase = "finish" /\ phase' = "idle" /\ cur.dep \in Dep
          /\ UNCHANGED <<conf, running, adapter, cur, revs, faults, edits>>
          /\ deps' = [deps EXCEPT ![cur.dep].status = verdict]
      BY <1>28 DEF Finish, TypeOK
    <2>2. deps[cur.dep].rev = cur.rev /\ deps[cur.dep].kind = cur.kind
      BY <2>1 DEF RowInv
    <2>3. /\ deps'[cur.dep].rev = cur.rev /\ deps'[cur.dep].kind = cur.kind
          /\ deps'[cur.dep].status = verdict
      BY <2>1, <2>2 DEF TypeOK
    <2>4. Moved(cur.rev) => Moved(deps[cur.dep].rev)'
      BY <2>1, <2>3, Zenon DEF Moved
    <2>5. Admitted => LeftDown'
      BY <2>1, <2>3, <2>4, Zenon DEF Admitted, LeftDown
    <2>6. QED
      BY <2>1, <2>5, <1>c DEF UpInv
  <1>29. CASE FinishFails
    BY <1>29, <1>a, <1>b, <1>c
       DEF FinishFails, TypeOK, FileInv, RowInv, UpInv, Admitted, Base,
           New, Boot, CanRestart
  <1>30. CASE Cancel
    BY <1>30, <1>a, <1>b, <1>c
       DEF Cancel, TypeOK, FileInv, RowInv, UpInv, Admitted, Base, New,
           Boot, CanRestart
  <1>31. CASE Crash
    BY <1>31, <1>a, <1>b, <1>c
       DEF Crash, TypeOK, FileInv, RowInv, UpInv, Admitted, Base, New,
           Boot, CanRestart
  <1>32. CASE BrokerReload
    BY <1>32, <1>a, <1>b, <1>c
       DEF BrokerReload, TypeOK, FileInv, RowInv, UpInv, Admitted, Base,
           New, Boot, CanRestart, Reloaded, Body
  <1>33. CASE UNCHANGED vars
    BY <1>33, <1>a, <1>b, <1>c
       DEF vars, TypeOK, FileInv, RowInv, UpInv, Admitted, Base, New,
           Boot, CanRestart
  <1>34. QED
    BY <1>1, <1>2, <1>3, <1>4, <1>5, <1>6, <1>7, <1>8, <1>9, <1>10, <1>11,
       <1>12, <1>13, <1>14, <1>15, <1>16, <1>17, <1>18, <1>19, <1>20, <1>21,
       <1>22, <1>23, <1>24, <1>25, <1>26, <1>27, <1>28, <1>29, <1>30, <1>31,
       <1>32, <1>33 DEF Next, Operator, Step

\* An apply overwrites what it was previewed against, a recovery what it wrote.
EditSafe == phase # "idle" /\ conf' # conf => conf = IF phase = "write" THEN Base ELSE New

LEMMA StepEdit == TypeOK /\ FileInv /\ [Next]_vars => EditSafe
  <1> SUFFICES ASSUME TypeOK, FileInv, [Next]_vars PROVE EditSafe
    OBVIOUS
  <1> USE BrokerConfigAssumption
      DEF files, broker, reviews, apply, Goto, Done, Fault, CtxFails, SetStatus, Decide
  <1>1. ASSUME NEW b \in Texts, EditConf(b) PROVE EditSafe
    BY <1>1 DEF EditConf, TypeOK, FileInv, EditSafe, Base, New
  <1>2. ASSUME NEW i \in Include, EditInclude(i) PROVE EditSafe
    BY <1>2 DEF EditInclude, TypeOK, FileInv, EditSafe, Base, New
  <1>3. ASSUME NEW r \in Rev, NEW b \in Texts, NEW e \in Editors, Preview(r, b, e)
        PROVE  EditSafe
    BY <1>3 DEF Preview, TypeOK, FileInv, EditSafe, Base, New
  <1>4. ASSUME NEW r \in Rev, NEW d \in Dep, NEW k \in Kinds, NEW force \in BOOLEAN, NEW adopt \in BOOLEAN, BeginApply(r, d, k, force, adopt)
        PROVE  EditSafe
    BY <1>4 DEF BeginApply, TypeOK, FileInv, EditSafe, Base, New
  <1>5. CASE Bounce
    BY <1>5 DEF Bounce, TypeOK, FileInv, EditSafe, Base, New
  <1>6. CASE AdoptBrokerConfig
    BY <1>6 DEF AdoptBrokerConfig, TypeOK, FileInv, EditSafe, Base, New
  <1>7. CASE Insert
    BY <1>7 DEF Insert, TypeOK, FileInv, EditSafe, Base, New
  <1>8. CASE InsertFails
    BY <1>8 DEF InsertFails, TypeOK, FileInv, EditSafe, Base, New
  <1>9. CASE MarkApplying
    BY <1>9 DEF MarkApplying, TypeOK, FileInv, EditSafe, Base, New
  <1>10. CASE MarkApplyingFails
    BY <1>10 DEF MarkApplyingFails, TypeOK, FileInv, EditSafe, Base, New
  <1>11. CASE Consume
    BY <1>11 DEF Consume, TypeOK, FileInv, EditSafe, Base, New
  <1>12. CASE ConsumeFails
    BY <1>12 DEF ConsumeFails, TypeOK, FileInv, EditSafe, Base, New
  <1>13. CASE Write
    BY <1>13 DEF Write, TypeOK, FileInv, EditSafe, Base, New
  <1>14. CASE WriteFails
    BY <1>14 DEF WriteFails, TypeOK, FileInv, EditSafe, Base, New
  <1>15. CASE Restart
    BY <1>15 DEF Restart, TypeOK, FileInv, EditSafe, Base, New
  <1>16. CASE RestartFails
    BY <1>16 DEF RestartFails, TypeOK, FileInv, EditSafe, Base, New
  <1>17. CASE Reload
    BY <1>17 DEF Reload, TypeOK, FileInv, EditSafe, Base, New
  <1>18. CASE ReloadFails
    BY <1>18 DEF ReloadFails, TypeOK, FileInv, EditSafe, Base, New
  <1>19. CASE VerifyPasses
    BY <1>19 DEF VerifyPasses, TypeOK, FileInv, EditSafe, Base, New
  <1>20. CASE VerifyFails
    BY <1>20 DEF VerifyFails, TypeOK, FileInv, EditSafe, Base, New
  <1>21. CASE VerifyUnavailable
    BY <1>21 DEF VerifyUnavailable, TypeOK, FileInv, EditSafe, Base, New
  <1>22. CASE Restore
    BY <1>22 DEF Restore, TypeOK, FileInv, EditSafe, Base, New
  <1>23. CASE RestoreFails
    BY <1>23 DEF RestoreFails, TypeOK, FileInv, EditSafe, Base, New
  <1>24. CASE Resignal
    BY <1>24 DEF Resignal, TypeOK, FileInv, EditSafe, Base, New
  <1>25. CASE ResignalFails
    BY <1>25 DEF ResignalFails, TypeOK, FileInv, EditSafe, Base, New
  <1>26. CASE Reverify
    BY <1>26 DEF Reverify, TypeOK, FileInv, EditSafe, Base, New
  <1>27. CASE ReverifyFails
    BY <1>27 DEF ReverifyFails, TypeOK, FileInv, EditSafe, Base, New
  <1>28. CASE Finish
    BY <1>28 DEF Finish, TypeOK, FileInv, EditSafe, Base, New
  <1>29. CASE FinishFails
    BY <1>29 DEF FinishFails, TypeOK, FileInv, EditSafe, Base, New
  <1>30. CASE Cancel
    BY <1>30 DEF Cancel, TypeOK, FileInv, EditSafe, Base, New
  <1>31. CASE Crash
    BY <1>31 DEF Crash, TypeOK, FileInv, EditSafe, Base, New
  <1>32. CASE BrokerReload
    BY <1>32 DEF BrokerReload, TypeOK, FileInv, EditSafe, Base, New
  <1>33. CASE UNCHANGED vars
    BY <1>33 DEF vars, TypeOK, FileInv, EditSafe, Base, New
  <1>34. QED
    BY <1>1, <1>2, <1>3, <1>4, <1>5, <1>6, <1>7, <1>8, <1>9, <1>10, <1>11,
       <1>12, <1>13, <1>14, <1>15, <1>16, <1>17, <1>18, <1>19, <1>20, <1>21,
       <1>22, <1>23, <1>24, <1>25, <1>26, <1>27, <1>28, <1>29, <1>30, <1>31,
       <1>32, <1>33 DEF Next, Operator, Step

\* A deployment becomes final only by the last statement of its own apply.
Recorded(d, s) ==
    Becomes(d, s) /\ s \in Final =>
        /\ phase = "finish" /\ verdict = s
        /\ d = cur.dep /\ deps[d].rev = cur.rev /\ deps[d].kind = cur.kind

LEMMA StepRecorded ==
    ASSUME TypeOK, RowInv, [Next]_vars, NEW d \in Dep, NEW s \in Statuses
    PROVE  Recorded(d, s)
  <1> USE BrokerConfigAssumption
      DEF files, broker, reviews, apply, Goto, Done, Fault, CtxFails, SetStatus, Decide
  <1>1. ASSUME NEW b \in Texts, EditConf(b) PROVE Recorded(d, s)
    BY <1>1 DEF EditConf, TypeOK, RowInv, Becomes, Recorded, Final
  <1>2. ASSUME NEW i \in Include, EditInclude(i) PROVE Recorded(d, s)
    BY <1>2 DEF EditInclude, TypeOK, RowInv, Becomes, Recorded, Final
  <1>3. ASSUME NEW r \in Rev, NEW b \in Texts, NEW ed \in Editors, Preview(r, b, ed)
        PROVE  Recorded(d, s)
    BY <1>3 DEF Preview, TypeOK, RowInv, Becomes, Recorded, Final
  <1>4. ASSUME NEW r \in Rev, NEW e \in Dep, NEW k \in Kinds, NEW force \in BOOLEAN, NEW adopt \in BOOLEAN, BeginApply(r, e, k, force, adopt)
        PROVE  Recorded(d, s)
    BY <1>4 DEF BeginApply, TypeOK, RowInv, Becomes, Recorded, Final
  <1>5. CASE Bounce
    BY <1>5 DEF Bounce, TypeOK, RowInv, Becomes, Recorded, Final
  <1>6. CASE AdoptBrokerConfig
    BY <1>6 DEF AdoptBrokerConfig, TypeOK, RowInv, Becomes, Recorded, Final
  <1>7. CASE Insert
    BY <1>7 DEF Insert, TypeOK, RowInv, Becomes, Recorded, Final, Inserted
  <1>8. CASE InsertFails
    BY <1>8 DEF InsertFails, TypeOK, RowInv, Becomes, Recorded, Final, Inserted
  <1>9. CASE MarkApplying
    BY <1>9 DEF MarkApplying, TypeOK, RowInv, Becomes, Recorded, Final
  <1>10. CASE MarkApplyingFails
    BY <1>10 DEF MarkApplyingFails, TypeOK, RowInv, Becomes, Recorded, Final
  <1>11. CASE Consume
    BY <1>11 DEF Consume, TypeOK, RowInv, Becomes, Recorded, Final
  <1>12. CASE ConsumeFails
    BY <1>12 DEF ConsumeFails, TypeOK, RowInv, Becomes, Recorded, Final
  <1>13. CASE Write
    BY <1>13 DEF Write, TypeOK, RowInv, Becomes, Recorded, Final
  <1>14. CASE WriteFails
    BY <1>14 DEF WriteFails, TypeOK, RowInv, Becomes, Recorded, Final
  <1>15. CASE Restart
    BY <1>15 DEF Restart, TypeOK, RowInv, Becomes, Recorded, Final
  <1>16. CASE RestartFails
    BY <1>16 DEF RestartFails, TypeOK, RowInv, Becomes, Recorded, Final
  <1>17. CASE Reload
    BY <1>17 DEF Reload, TypeOK, RowInv, Becomes, Recorded, Final
  <1>18. CASE ReloadFails
    BY <1>18 DEF ReloadFails, TypeOK, RowInv, Becomes, Recorded, Final
  <1>19. CASE VerifyPasses
    BY <1>19 DEF VerifyPasses, TypeOK, RowInv, Becomes, Recorded, Final
  <1>20. CASE VerifyFails
    BY <1>20 DEF VerifyFails, TypeOK, RowInv, Becomes, Recorded, Final
  <1>21. CASE VerifyUnavailable
    BY <1>21 DEF VerifyUnavailable, TypeOK, RowInv, Becomes, Recorded, Final
  <1>22. CASE Restore
    BY <1>22 DEF Restore, TypeOK, RowInv, Becomes, Recorded, Final
  <1>23. CASE RestoreFails
    BY <1>23 DEF RestoreFails, TypeOK, RowInv, Becomes, Recorded, Final
  <1>24. CASE Resignal
    BY <1>24 DEF Resignal, TypeOK, RowInv, Becomes, Recorded, Final
  <1>25. CASE ResignalFails
    BY <1>25 DEF ResignalFails, TypeOK, RowInv, Becomes, Recorded, Final
  <1>26. CASE Reverify
    BY <1>26 DEF Reverify, TypeOK, RowInv, Becomes, Recorded, Final
  <1>27. CASE ReverifyFails
    BY <1>27 DEF ReverifyFails, TypeOK, RowInv, Becomes, Recorded, Final
  <1>28. CASE Finish
    BY <1>28 DEF Finish, TypeOK, RowInv, Becomes, Recorded, Final
  <1>29. CASE FinishFails
    BY <1>29 DEF FinishFails, TypeOK, RowInv, Becomes, Recorded, Final
  <1>30. CASE Cancel
    BY <1>30 DEF Cancel, TypeOK, RowInv, Becomes, Recorded, Final
  <1>31. CASE Crash
    BY <1>31 DEF Crash, TypeOK, RowInv, Becomes, Recorded, Final
  <1>32. CASE BrokerReload
    BY <1>32 DEF BrokerReload, TypeOK, RowInv, Becomes, Recorded, Final
  <1>33. CASE UNCHANGED vars
    BY <1>33 DEF vars, TypeOK, RowInv, Becomes, Recorded, Final
  <1>34. QED
    BY <1>1, <1>2, <1>3, <1>4, <1>5, <1>6, <1>7, <1>8, <1>9, <1>10, <1>11,
       <1>12, <1>13, <1>14, <1>15, <1>16, <1>17, <1>18, <1>19, <1>20, <1>21,
       <1>22, <1>23, <1>24, <1>25, <1>26, <1>27, <1>28, <1>29, <1>30, <1>31,
       <1>32, <1>33 DEF Next, Operator, Step

-----------------------------------------------------------------------------
(* The parts together.                                                     *)

IInv == /\ TypeOK /\ OnceInv /\ FileInv /\ RowInv
        /\ RestartInv /\ ActiveInv /\ RecoveredInv /\ UpInv

LEMMA InitInv == Init => IInv
  <1> SUFFICES ASSUME Init PROVE IInv
    OBVIOUS
  <1>1. conf \in Body /\ conf.hard \notin Bad
    BY BrokerConfigAssumption DEF Init
  <1>2. 1 \in Dep /\ 0 \in 0 .. MaxEdits /\ 0 \in 0 .. MaxFaults
    BY BrokerConfigAssumption DEF Dep
  <1>3. /\ revs \in [Rev -> Revision] /\ writes \in [Rev -> Nat]
        /\ revState \in [Rev -> {"absent", "open", "applied"}] /\ covered \in SUBSET Rev
        /\ cur \in [rev : Rev, dep : Dep, kind : Kinds, restart : BOOLEAN]
        /\ deps \in [Dep -> [rev : Rev, kind : Kinds, status : Statuses]]
    BY <1>1, <1>2 DEF Init, Revision, Editors, Kinds, Statuses
  <1>4. TypeOK
    <2>1. edits \in 0 .. MaxEdits /\ faults \in 0 .. MaxFaults
      BY <1>2 DEF Init
    <2>2. QED
      BY <1>1, <1>3, <2>1 DEF Init, TypeOK, Phases, Statuses
  <1>5. OnceInv /\ FileInv /\ RowInv /\ RestartInv
    BY DEF Init, OnceInv, WrittenOnce, FileInv, RowInv, RestartInv
  <1>6. ActiveInv /\ RecoveredInv
    BY DEF Init, ActiveInv, Activating, RecoveredInv
  <1>7. UpInv
    BY <1>1, BrokerConfigAssumption DEF Init, UpInv
  <1>8. QED
    BY <1>4, <1>5, <1>6, <1>7 DEF IInv

LEMMA StepInv == IInv /\ [Next]_vars => IInv'
  BY StepType, StepOnce, StepFile, StepRow, StepRestart, StepActive, StepRecovered,
     StepUp
     DEF IInv

LEMMA InvHolds == Spec => []IInv
  BY InitInv, StepInv, PTL DEF Spec

(* TypeCorrect: every variable of the flow keeps its type; the file is     *)
(* always a configuration (service.go, applyBrokerConfigRevision).         *)
THEOREM TypeCorrect == Spec => []TypeOK
  <1>1. IInv => TypeOK
    BY DEF IInv
  <1>2. QED
    BY <1>1, InvHolds, PTL

(* ConfWrittenOnce: consuming comes before writing, so that a revision is  *)
(* written to mosquitto.conf at most once, whatever fails or crashes.      *)
THEOREM ConfWrittenOnce == Spec => []WrittenOnce
  <1>1. IInv => WrittenOnce
    BY DEF IInv, OnceInv
  <1>2. QED
    BY <1>1, InvHolds, PTL

(* EditsSurvive: an apply overwrites only the bytes it was previewed       *)
(* against and a recovery only what the apply wrote.                       *)
THEOREM EditsSurvive == Spec => HandEditKept
  <1>1. IInv /\ [Next]_vars =>
          (phase # "idle" /\ conf' # conf =>
             conf = IF phase = "write" THEN revs[cur.rev].base ELSE revs[cur.rev].body)
    BY StepEdit DEF IInv, EditSafe, Base, New
  <1>2. QED
    BY <1>1, InvHolds, PTL DEF Spec, HandEditKept

(* BrokerStaysUp: the broker is down after an apply only when a deployment *)
(* says that it may be: the verification was not available, a bridge or    *)
(* plugin change was not verified, or a move of directives was verified    *)
(* without a restart.  Holds for every adapter.                            *)
THEOREM BrokerStaysUp == Spec => []BrokerLeftUp
  <1>1. IInv => BrokerLeftUp
    BY DEF IInv, UpInv, Admitted, BrokerLeftUp
  <1>2. QED
    BY <1>1, InvHolds, PTL

(* StatusTellsTruth: the status a deployment ends with is true of the file *)
(* and of the broker, when the adapter restarts the broker or says that it *)
(* cannot.  A reload command that MCM takes for a restart breaks it.       *)
THEOREM StatusTellsTruth == "reload" \notin Adapters => (Spec => StatusIsTrue)
  <1> SUFFICES ASSUME "reload" \notin Adapters PROVE Spec => StatusIsTrue
    OBVIOUS
  <1>1. ASSUME IInv, [Next]_vars, NEW d \in Dep PROVE HonestStatus(d)
    <2>1. /\ Recorded(d, "active_verified") /\ Recorded(d, "rolled_back")
          /\ Recorded(d, "failed")
      BY <1>1, StepRecorded DEF IInv, Statuses, Final
    <2>2. adapter # "reload"
      BY <1>1 DEF IInv, TypeOK
    <2>3. ASSUME Becomes(d, "active_verified")
          PROVE  LET rev == revs[deps[d].rev]
                     root == deps[d].kind = "broker_config" IN
                 /\ conf = rev.body
                 /\ IF root /\ (rev.body.hard = rev.base.hard \/ Moved(deps[d].rev))
                    THEN hup \/ running = Reloaded(rev.body)
                    ELSE running = Boot(rev.body)
                 /\ root => running # Down
      <3>1. /\ phase = "finish" /\ verdict = "active_verified"
            /\ deps[d].rev = cur.rev /\ deps[d].kind = cur.kind
        BY <2>1, <2>3 DEF Recorded, Final
      <3>2. conf = New
        BY <1>1, <3>1 DEF IInv, FileInv
      <3>3. /\ IF cur.restart THEN running = Boot(conf) ELSE hup \/ running = Reloaded(conf)
            /\ cur.kind = "broker_config" => running # Down
        BY <1>1, <2>2, <3>1 DEF IInv, ActiveInv, Activating
      <3>4. ~cur.restart <=> cur.kind = "broker_config" /\ (New.hard = Base.hard \/ Moved(cur.rev))
        BY <1>1, <3>1
           DEF IInv, RestartInv, RequiresRestart, kindNeedsRestart, TypeOK, Revision,
                          Kinds, Editors, New, Base, Moved
      <3>5. QED
        BY <3>1, <3>2, <3>3, <3>4 DEF New, Base
    <2>4. ASSUME Becomes(d, "rolled_back")
          PROVE  LET rev == revs[deps[d].rev] IN
                 /\ conf = rev.base
                 /\ hup \/ running \in {Boot(rev.base), Reloaded(rev.base)}
      BY <1>1, <2>1, <2>4 DEF Recorded, Final, IInv, FileInv, RecoveredInv, Base
    <2>5. ASSUME Becomes(d, "failed") PROVE conf = revs[deps[d].rev].base
      BY <1>1, <2>1, <2>5 DEF Recorded, Final, IInv, FileInv, Base
    <2>6. QED
      BY <2>3, <2>4, <2>5 DEF HonestStatus
  <1>2. IInv /\ [Next]_vars => \A d \in Dep : HonestStatus(d)
    BY <1>1
  <1>3. QED
    BY <1>2, InvHolds, PTL DEF Spec, StatusIsTrue

-----------------------------------------------------------------------------
(* Induction over an initial segment of the naturals, as a fact about sets. *)

LEMMA SetInduction ==
    ASSUME NEW S \in SUBSET Nat, 0 \in S, NEW N \in Nat, \A k \in S : k < N => k + 1 \in S
    PROVE  \A k \in 0..N : k \in S
<1> SUFFICES ASSUME \E k \in 0..N : k \notin S PROVE FALSE
  OBVIOUS
<1> DEFINE T == {k \in 0..N : k \notin S}
<1>1. T \subseteq Nat /\ T # {}
  OBVIOUS
<1>2. PICK x \in T : \A y \in T : ~(<<y, x>> \in OpToRel(<, Nat))
  BY <1>1, NatLessThanWellFounded, WFMin
<1>3. x \in Nat /\ x # 0 /\ x <= N /\ x \notin S
  OBVIOUS
<1>4. x - 1 \in Nat /\ x - 1 < x /\ x - 1 < N /\ (x - 1) + 1 = x /\ x - 1 \in 0..N
  BY <1>3
<1>5. <<x - 1, x>> \in OpToRel(<, Nat)
  BY <1>3, <1>4 DEF OpToRel
<1>6. x - 1 \in S
  BY <1>2, <1>4, <1>5
<1> QED BY <1>3, <1>4, <1>6

-----------------------------------------------------------------------------
(* Sequences of sequences. *)

\* The function FlattenSeq defines is there.
IsFlat(seqs, f, n) == f = [i \in 1..n |-> IF i = 1 THEN seqs[i] ELSE f[i - 1] \o seqs[i]]

LEMMA FlatExists ==
    ASSUME NEW seqs, NEW N \in Nat
    PROVE  \E f : IsFlat(seqs, f, N)
<1> DEFINE S == {n \in Nat : \E f : IsFlat(seqs, f, n)}
<1>1. 0 \in S
  <2>1. IsFlat(seqs, [i \in 1..0 |-> 0], 0)
    BY DEF IsFlat
  <2> QED BY <2>1
<1>2. ASSUME NEW k \in S PROVE k + 1 \in S
  <2>1. PICK f : IsFlat(seqs, f, k)
    OBVIOUS
  <2> DEFINE g == [i \in 1..(k + 1) |-> IF i = k + 1 THEN (IF i = 1 THEN seqs[i] ELSE f[i - 1] \o seqs[i])
                                         ELSE f[i]]
  <2>2. \A i \in 1..(k + 1) : i # k + 1 => i \in 1..k
    OBVIOUS
  <2>3. ASSUME NEW i \in 1..(k + 1)
        PROVE  g[i] = IF i = 1 THEN seqs[i] ELSE g[i - 1] \o seqs[i]
    <3>1. CASE i = k + 1
      <4>1. i # 1 => i - 1 \in 1..(k + 1) /\ i - 1 # k + 1
        BY <3>1
      <4>2. i # 1 => g[i - 1] = f[i - 1]
        BY <4>1
      <4> QED BY <3>1, <4>2
    <3>2. CASE i # k + 1
      <4>1. i \in 1..k
        BY <2>2, <3>2
      <4>2. f[i] = IF i = 1 THEN seqs[i] ELSE f[i - 1] \o seqs[i]
        BY <2>1, <4>1 DEF IsFlat
      <4>3. i # 1 => i - 1 \in 1..(k + 1) /\ i - 1 # k + 1
        BY <4>1
      <4>4. i # 1 => g[i - 1] = f[i - 1]
        BY <4>3
      <4> QED BY <3>2, <4>2, <4>4
    <3> QED BY <3>1, <3>2
  <2>4. g = [i \in 1..(k + 1) |-> IF i = 1 THEN seqs[i] ELSE g[i - 1] \o seqs[i]]
    BY <2>3
  <2>5. IsFlat(seqs, g, k + 1)
    BY <2>4 DEF IsFlat
  <2> QED BY <2>5
<1>3. S \in SUBSET Nat /\ \A k \in S : k < N => k + 1 \in S
  BY <1>2
<1> HIDE DEF S
<1>4. N \in S
  <2>1. \A k \in 0..N : k \in S
    BY <1>1, <1>3, SetInduction
  <2> QED BY <2>1
<1> QED BY <1>4 DEF S

LEMMA FlattenType ==
    ASSUME NEW C, NEW seqs \in Seq(Seq(C))
    PROVE  FlattenSeq(seqs) \in Seq(C)
<1> DEFINE N == Len(seqs)
           F == CHOOSE f : f = [i \in 1..N |-> IF i = 1 THEN seqs[i] ELSE f[i - 1] \o seqs[i]]
<1>1. N \in Nat /\ \A i \in 1..N : seqs[i] \in Seq(C)
  OBVIOUS
<1>2. CASE N = 0
  BY <1>2 DEF FlattenSeq
<1>3. CASE N # 0
  <2>1. \E f : f = [i \in 1..N |-> IF i = 1 THEN seqs[i] ELSE f[i - 1] \o seqs[i]]
    BY <1>1, FlatExists DEF IsFlat
  <2>2. F = [i \in 1..N |-> IF i = 1 THEN seqs[i] ELSE F[i - 1] \o seqs[i]]
    BY <2>1
  <2> HIDE DEF F
  <2> DEFINE S == {k \in 0..N : k = 0 \/ F[k] \in Seq(C)}
  <2>3. 0 \in S /\ S \subseteq Nat
    BY <1>1
  <2>4. ASSUME NEW k \in S, k < N PROVE k + 1 \in S
    <3>1. k + 1 \in 1..N /\ (k + 1) - 1 = k /\ (k + 1 = 1 <=> k = 0)
      BY <1>1, <2>4
    <3>2. F[k + 1] = IF k + 1 = 1 THEN seqs[k + 1] ELSE F[(k + 1) - 1] \o seqs[k + 1]
      BY <2>2, <3>1
    <3>3. F[k + 1] \in Seq(C)
      BY <1>1, <3>1, <3>2
    <3>4. k + 1 \in 0..N
      BY <3>1
    <3> QED BY <3>3, <3>4
  <2>a. S \in SUBSET Nat /\ \A k \in S : k < N => k + 1 \in S
    BY <2>3, <2>4
  <2> HIDE DEF S
  <2>5. N \in S
    <3>1. \A k \in 0..N : k \in S
      BY <1>1, <2>3, <2>a, SetInduction
    <3> QED BY <1>1, <3>1
  <2>6. F[N] \in Seq(C)
    BY <1>3, <2>5 DEF S
  <2>7. FlattenSeq(seqs) = F[N]
    BY <1>3 DEF FlattenSeq, F
  <2> QED BY <2>6, <2>7
<1> QED BY <1>2, <1>3

LEMMA OrderType ==
    ASSUME NEW S, IsFiniteSet(S)
    PROVE  SetToSeq(S) \in Seq(S)
<1>1. Cardinality(S) \in Nat /\ ExistsBijection(1..Cardinality(S), S)
  BY FS_CardinalityType
<1>2. \E f \in [1..Cardinality(S) -> S] : IsInjective(f)
  BY <1>1 DEF ExistsBijection, Bijection, Injection, Surjection, IsInjective
<1>3. SetToSeq(S) \in [1..Cardinality(S) -> S]
  BY <1>2, Zenon DEF SetToSeq
<1> QED BY <1>1, <1>3

Flattened(seqs, o) ==
    /\ o \in [0..Len(seqs) -> Nat] /\ o[0] = 0
    /\ \A n \in 1..Len(seqs) : o[n] = o[n - 1] + Len(seqs[n])
    /\ Len(FlattenSeq(seqs)) = o[Len(seqs)]
    /\ \A n \in 1..Len(seqs) : \A k \in 1..Len(seqs[n]) : FlattenSeq(seqs)[o[n - 1] + k] = seqs[n][k]

FlatUpTo(G, seqs, C, m) ==
    /\ G[m] \in Seq(C)
    /\ \A n \in 1..m : G[n - 1] \in Seq(C) /\ Len(G[n]) = Len(G[n - 1]) + Len(seqs[n])
    /\ \A n \in 1..m : \A k \in 1..Len(seqs[n]) :
          Len(G[n - 1]) + k \in 1..Len(G[m]) /\ G[m][Len(G[n - 1]) + k] = seqs[n][k]

LEMMA Concat ==
    ASSUME NEW C, NEW s \in Seq(C), NEW t \in Seq(C)
    PROVE  /\ s \o t \in Seq(C) /\ Len(s \o t) = Len(s) + Len(t)
           /\ \A j \in 1..Len(s) : (s \o t)[j] = s[j]
           /\ \A k \in 1..Len(t) : (s \o t)[Len(s) + k] = t[k]
OBVIOUS

LEMMA Shifted == \A a, b \in Nat : /\ \A k \in 1..b : a + k \in 1..(a + b)
                                   /\ \A x \in 1..a : x \in 1..(a + b)
OBVIOUS

LEMMA FlatStep ==
    ASSUME NEW C, NEW G, NEW seqs, NEW m \in Nat, FlatUpTo(G, seqs, C, m),
           seqs[m + 1] \in Seq(C), \A n \in 1..m : seqs[n] \in Seq(C), G[m + 1] = G[m] \o seqs[m + 1]
    PROVE  FlatUpTo(G, seqs, C, m + 1)
<1>1. /\ G[m + 1] \in Seq(C) /\ Len(G[m + 1]) = Len(G[m]) + Len(seqs[m + 1])
      /\ \A j \in 1..Len(G[m]) : G[m + 1][j] = G[m][j]
      /\ \A k \in 1..Len(seqs[m + 1]) : G[m + 1][Len(G[m]) + k] = seqs[m + 1][k]
      /\ G[m] \in Seq(C) /\ Len(G[m]) \in Nat /\ Len(seqs[m + 1]) \in Nat
  <2>1. G[m] \in Seq(C)
    BY DEF FlatUpTo
  <2>2. Len(G[m]) \in Nat /\ Len(seqs[m + 1]) \in Nat
    BY <2>1
  <2> DEFINE s == G[m]
             t == seqs[m + 1]
  <2>3. s \in Seq(C) /\ t \in Seq(C) /\ G[m + 1] = s \o t
    BY <2>1
  <2> HIDE DEF s, t
  <2>4. /\ G[m + 1] \in Seq(C) /\ Len(G[m + 1]) = Len(s) + Len(t)
        /\ \A j \in 1..Len(s) : G[m + 1][j] = s[j]
        /\ \A k \in 1..Len(t) : G[m + 1][Len(s) + k] = t[k]
    BY <2>3, Concat
  <2> QED BY <2>1, <2>2, <2>4 DEF s, t
<1>2. (m + 1) - 1 = m /\ \A n \in 1..(m + 1) : n # m + 1 => n \in 1..m
  OBVIOUS
<1>3. ASSUME NEW n \in 1..(m + 1) PROVE G[n - 1] \in Seq(C) /\ Len(G[n]) = Len(G[n - 1]) + Len(seqs[n])
  <2>1. CASE n = m + 1
    BY <2>1, <1>1, <1>2
  <2>2. CASE n # m + 1
    <3>1. n \in 1..m
      BY <2>2, <1>2
    <3> QED BY <3>1 DEF FlatUpTo
  <2> QED BY <2>1, <2>2
<1>4. ASSUME NEW n \in 1..(m + 1), NEW k \in 1..Len(seqs[n])
      PROVE  Len(G[n - 1]) + k \in 1..Len(G[m + 1]) /\ G[m + 1][Len(G[n - 1]) + k] = seqs[n][k]
  <2>1. CASE n = m + 1
    <3>1. k \in 1..Len(seqs[m + 1]) /\ G[n - 1] = G[m]
      BY <2>1, <1>2
    <3>2. Len(G[m]) + k \in 1..Len(G[m + 1])
      <4>1. Len(G[m]) \in Nat /\ Len(seqs[m + 1]) \in Nat /\ Len(G[m + 1]) = Len(G[m]) + Len(seqs[m + 1])
        BY <1>1
      <4> QED BY <3>1, <4>1, Shifted
    <3> QED BY <2>1, <3>1, <3>2, <1>1
  <2>2. CASE n # m + 1
    <3>1. n \in 1..m
      BY <2>2, <1>2
    <3>2. Len(G[n - 1]) + k \in 1..Len(G[m]) /\ G[m][Len(G[n - 1]) + k] = seqs[n][k]
      BY <3>1 DEF FlatUpTo
    <3>3. Len(G[n - 1]) + k \in 1..Len(G[m + 1])
      <4>1. Len(G[m]) \in Nat /\ Len(seqs[m + 1]) \in Nat /\ Len(G[m + 1]) = Len(G[m]) + Len(seqs[m + 1])
        BY <1>1
      <4> QED BY <3>2, <4>1, Shifted
    <3> QED BY <3>2, <3>3, <1>1
  <2> QED BY <2>1, <2>2
<1> QED BY <1>1, <1>3, <1>4 DEF FlatUpTo

LEMMA FlatIndex ==
    ASSUME NEW C, NEW seqs \in Seq(Seq(C))
    PROVE  \E o : Flattened(seqs, o)
<1> DEFINE N == Len(seqs)
           F == CHOOSE f : f = [i \in 1..N |-> IF i = 1 THEN seqs[i] ELSE f[i - 1] \o seqs[i]]
           G == [i \in 0..N |-> IF i = 0 THEN <<>> ELSE F[i]]
           o == [i \in 0..N |-> Len(G[i])]
<1>1. N \in Nat /\ \A i \in 1..N : seqs[i] \in Seq(C)
  OBVIOUS
<1>2. \E f : f = [i \in 1..N |-> IF i = 1 THEN seqs[i] ELSE f[i - 1] \o seqs[i]]
  BY <1>1, FlatExists DEF IsFlat
<1>3. F = [i \in 1..N |-> IF i = 1 THEN seqs[i] ELSE F[i - 1] \o seqs[i]]
  BY <1>2
<1> HIDE DEF F
<1>4. FlattenSeq(seqs) = G[N]
  <2>1. CASE N = 0
    BY <2>1, <1>1 DEF FlattenSeq
  <2>2. CASE N # 0
    BY <2>2, <1>1 DEF FlattenSeq, F
  <2> QED BY <2>1, <2>2
<1>5. G[0] = <<>> /\ \A i \in 1..N : G[i] = IF i = 1 THEN seqs[i] ELSE G[i - 1] \o seqs[i]
  <2>1. G[0] = <<>>
    BY <1>1
  <2>2. ASSUME NEW i \in 1..N PROVE G[i] = IF i = 1 THEN seqs[i] ELSE G[i - 1] \o seqs[i]
    <3>1. i \in 0..N /\ i # 0 /\ (i # 1 => i - 1 \in 0..N /\ i - 1 # 0)
      BY <1>1
    <3>2. F[i] = IF i = 1 THEN seqs[i] ELSE F[i - 1] \o seqs[i]
      BY <1>3
    <3> QED BY <3>1, <3>2
  <2> QED BY <2>1, <2>2
<1> HIDE DEF G
<1> DEFINE S == {m \in 0..N : FlatUpTo(G, seqs, C, m)}
<1>6. 0 \in S
  <2>1. \A n \in 1..0 : FALSE
    OBVIOUS
  <2>2. FlatUpTo(G, seqs, C, 0)
    BY <1>5, <2>1 DEF FlatUpTo
  <2> QED BY <1>1, <2>2
<1>7. ASSUME NEW m \in S, m < N PROVE m + 1 \in S
  <2>0. m \in 0..N /\ FlatUpTo(G, seqs, C, m)
    OBVIOUS
  <2>1. m \in 0..N /\ m + 1 \in 1..N /\ m + 1 \in 0..N /\ (m + 1) - 1 = m /\ G[m] \in Seq(C) /\ seqs[m + 1] \in Seq(C)
    BY <1>1, <1>7, <2>0 DEF FlatUpTo
  <2>2. G[m + 1] = G[m] \o seqs[m + 1]
    <3>1. CASE m = 0
      <4>1. G[m] = <<>> /\ G[m + 1] = seqs[m + 1]
        BY <1>5, <2>1, <3>1
      <4> QED BY <4>1, <2>1
    <3>2. CASE m # 0
      <4>1. m + 1 # 1
        BY <2>1, <3>2
      <4> QED BY <1>5, <2>1, <4>1
    <3> QED BY <3>1, <3>2
  <2>6. FlatUpTo(G, seqs, C, m + 1)
    <3>1. m \in Nat /\ \A n \in 1..m : seqs[n] \in Seq(C)
      BY <1>1, <2>1
    <3> QED BY <2>0, <2>1, <2>2, <3>1, FlatStep
  <2> QED BY <2>1, <2>6
<1>8. S \in SUBSET Nat /\ \A m \in S : m < N => m + 1 \in S
  BY <1>7
<1>9. \A m \in 0..N : m \in S
  <2> HIDE DEF S
  <2> QED BY <1>1, <1>6, <1>8, SetInduction
<1>10. FlatUpTo(G, seqs, C, N) /\ \A m \in 0..N : G[m] \in Seq(C)
  <2>1. \A m \in 0..N : FlatUpTo(G, seqs, C, m)
    BY <1>9
  <2>2. N \in 0..N
    BY <1>1
  <2> HIDE DEF S, N, o
  <2> QED BY <2>1, <2>2 DEF FlatUpTo
<1>11. o \in [0..N -> Nat] /\ o[0] = 0 /\ o[N] = Len(G[N])
  BY <1>1, <1>5, <1>10
<1>12. \A n \in 1..N : n \in 0..N /\ n - 1 \in 0..N
  BY <1>1
<1>13. \A n \in 1..N : o[n] = o[n - 1] + Len(seqs[n])
  BY <1>10, <1>12 DEF FlatUpTo
<1>14. \A n \in 1..N : \A k \in 1..Len(seqs[n]) : G[N][o[n - 1] + k] = seqs[n][k]
  BY <1>10, <1>12 DEF FlatUpTo
<1>15. Flattened(seqs, o)
  BY <1>4, <1>11, <1>13, <1>14, Zenon DEF Flattened
<1> QED BY <1>15

LEMMA FlatEmpty ==
    ASSUME NEW seqs \in Seq({<<>>})
    PROVE  FlattenSeq(seqs) = <<>>
<1>0. <<>> \in Seq({})
  OBVIOUS
<1>1. seqs \in Seq(Seq({}))
  BY <1>0, {<<>>} \subseteq Seq({}), SeqMonotonic
<1>2. FlattenSeq(seqs) \in Seq({})
  BY <1>1, FlattenType
<1> QED BY <1>2

LEMMA FlatSingles ==
    ASSUME NEW C, NEW f \in Seq(C)
    PROVE  FlattenSeq([i \in DOMAIN f |-> <<f[i]>>]) = f
<1> DEFINE seqs == [i \in DOMAIN f |-> <<f[i]>>]
           N == Len(f)
<1>1. N \in Nat /\ DOMAIN f = 1..N /\ \A i \in 1..N : f[i] \in C
  OBVIOUS
<1>2. seqs \in Seq(Seq(C)) /\ Len(seqs) = N /\ \A n \in 1..N : Len(seqs[n]) = 1 /\ seqs[n] = <<f[n]>> /\ seqs[n][1] = f[n]
  BY <1>1
<1> HIDE DEF seqs
<1>3. PICK o : Flattened(seqs, o)
  BY <1>2, FlatIndex
<1> DEFINE S == {n \in 0..N : o[n] = n}
<1>4. 0 \in S /\ S \in SUBSET Nat
  BY <1>1, <1>3 DEF Flattened
<1>5. ASSUME NEW n \in S, n < N PROVE n + 1 \in S
  <2>1. n + 1 \in 1..N /\ n + 1 \in 0..N /\ (n + 1) - 1 = n
    BY <1>1, <1>5
  <2>2. o[n + 1] = o[n] + 1
    BY <2>1, <1>2, <1>3 DEF Flattened
  <2> QED BY <2>1, <2>2
<1>6. \A n \in 0..N : o[n] = n
  <2>1. \A n \in S : n < N => n + 1 \in S
    BY <1>5
  <2> HIDE DEF S
  <2>2. \A n \in 0..N : n \in S
    BY <1>1, <1>4, <2>1, SetInduction
  <2> QED BY <2>2 DEF S
<1>7. FlattenSeq(seqs) \in Seq(C)
  BY <1>2, FlattenType
<1>8. Len(FlattenSeq(seqs)) = N
  BY <1>1, <1>2, <1>3, <1>6 DEF Flattened
<1>9. ASSUME NEW n \in 1..N PROVE FlattenSeq(seqs)[n] = f[n]
  <2>1. n - 1 \in 0..N /\ (n - 1) + 1 = n
    BY <1>1
  <2>2. o[n - 1] + 1 = n
    BY <2>1, <1>6
  <2>3. 1 \in 1..Len(seqs[n])
    BY <1>2
  <2>4. FlattenSeq(seqs)[o[n - 1] + 1] = seqs[n][1]
    BY <2>3, <1>2, <1>3 DEF Flattened
  <2> QED BY <2>2, <2>4, <1>2
<1>10. FlattenSeq(seqs) = f
  BY <1>7, <1>8, <1>9
<1> QED BY <1>10 DEF seqs

LEMMA InsertNothing ==
    ASSUME NEW C, NEW f \in Seq(C), NEW at \in 0..Len(f)
    PROVE  insertItems(f, at, <<>>) = f
<1>1. SubSeq(f, 1, at) \o SubSeq(f, at + 1, Len(f)) = f
  <2>1. Len(f) \in Nat /\ 1 \in 1..(Len(f) + 1) /\ at \in (1 - 1)..Len(f) /\ Len(f) \in at..Len(f)
    OBVIOUS
  <2>2. SubSeq(f, 1, at) \o SubSeq(f, at + 1, Len(f)) = SubSeq(f, 1, Len(f))
    BY <2>1, ConcatAdjacentSubSeq
  <2> QED BY <2>2, SubSeqFull
<1>2. SubSeq(f, 1, at) \in Seq(C)
  OBVIOUS
<1>3. SubSeq(f, 1, at) \o <<>> = SubSeq(f, 1, at)
  BY <1>2, ConcatEmptySeq
<1> QED BY <1>1, <1>3 DEF insertItems

-----------------------------------------------------------------------------
(* Sets of lines and their order.                                         *)

\* A set of lines of a file.
Lineset(S) == S \subseteq Nat /\ IsFiniteSet(S)

LEMMA LinesOf ==
    ASSUME NEW n \in Nat, NEW S, S \subseteq 1..n
    PROVE  Lineset(S)
<1>1. IsFiniteSet(1..n)
  BY FS_Interval
<1>2. IsFiniteSet(S)
  BY <1>1, FS_Subset
<1> QED BY <1>2 DEF Lineset

\* The rank of a line counts the lines of the set up to it.
LEMMA RankFacts ==
    ASSUME NEW S, Lineset(S)
    PROVE  /\ Cardinality(S) \in Nat
           /\ \A i \in S : Rank(S, i) \in 1..Cardinality(S)
           /\ \A i, j \in S : i < j => Rank(S, i) < Rank(S, j)
           /\ \A i, j \in S : Rank(S, i) = Rank(S, j) => i = j
<1>1. Cardinality(S) \in Nat /\ IsFiniteSet(S) /\ S \subseteq Nat
  BY FS_CardinalityType DEF Lineset
<1>2. ASSUME NEW i \in S
      PROVE  Rank(S, i) \in 1..Cardinality(S) /\ Rank(S, i) \in Nat
  <2> DEFINE T == {j \in S : j <= i}
  <2>1. T \subseteq S /\ i \in T
    BY <1>1
  <2>2. IsFiniteSet(T) /\ Cardinality(T) <= Cardinality(S)
    BY <1>1, <2>1, FS_Subset
  <2>3. Cardinality(T) \in Nat /\ Cardinality(T) # 0
    BY <2>1, <2>2, FS_CardinalityType, FS_EmptySet
  <2>4. Rank(S, i) = Cardinality(T)
    BY DEF Rank
  <2> QED BY <1>1, <2>2, <2>3, <2>4
<1>3. ASSUME NEW i \in S, NEW j \in S, i < j PROVE Rank(S, i) < Rank(S, j)
  <2> DEFINE T == {k \in S : k <= i}
             U == {k \in S : k <= j}
  <2>0. i \in Nat /\ j \in Nat /\ \A k \in S : k \in Nat
    BY <1>1
  <2>1. T \subseteq U /\ j \in U /\ j \notin T /\ U \subseteq S
    <3>1. \A k \in S : k <= i => k <= j
      BY <1>3, <2>0
    <3>2. j <= j /\ ~(j <= i)
      BY <1>3, <2>0
    <3> QED BY <3>1, <3>2, Zenon
  <2>2. IsFiniteSet(U)
    BY <1>1, <2>1, FS_Subset
  <2>3. Cardinality(T) <= Cardinality(U) /\ (Cardinality(T) = Cardinality(U) => T = U)
    BY <2>1, <2>2, FS_Subset
  <2>4. Cardinality(T) # Cardinality(U)
    BY <2>1, <2>3
  <2>5. Rank(S, i) = Cardinality(T) /\ Rank(S, j) = Cardinality(U)
    BY DEF Rank
  <2>6. Rank(S, i) \in Nat /\ Rank(S, j) \in Nat
    BY <1>2
  <2> HIDE DEF T, U
  <2> QED BY <2>3, <2>4, <2>5, <2>6
<1>4. ASSUME NEW i \in S, NEW j \in S, Rank(S, i) = Rank(S, j) PROVE i = j
  <2>1. i \in Nat /\ j \in Nat /\ Rank(S, i) \in Nat
    BY <1>1, <1>2
  <2>2. ~(i < j) /\ ~(j < i)
    BY <1>3, <1>4, <2>1
  <2> QED BY <2>1, <2>2
<1> QED BY <1>1, <1>2, <1>3, <1>4

\* InOrder lists the lines of a set once each, by rank.
LEMMA Ordered ==
    ASSUME NEW S, Lineset(S)
    PROVE  /\ InOrder(S) \in Seq(S) /\ Len(InOrder(S)) = Cardinality(S) /\ DOMAIN InOrder(S) = 1..Cardinality(S)
           /\ \A i \in S : InOrder(S)[Rank(S, i)] = i
           /\ \A n \in 1..Cardinality(S) : InOrder(S)[n] \in S /\ Rank(S, InOrder(S)[n]) = n
<1>1. /\ Cardinality(S) \in Nat /\ IsFiniteSet(S)
      /\ \A i \in S : Rank(S, i) \in 1..Cardinality(S)
      /\ \A i, j \in S : Rank(S, i) = Rank(S, j) => i = j
  BY RankFacts DEF Lineset
<1> DEFINE N == Cardinality(S)
           r == [i \in S |-> Rank(S, i)]
<1>2. r \in Injection(S, 1..N)
  BY <1>1 DEF Injection, IsInjective
<1>3. IsFiniteSet(1..N) /\ Cardinality(1..N) = N
  BY <1>1, FS_Interval
<1>4. r \in Surjection(S, 1..N)
  BY <1>2, <1>3, FS_Injection
<1>5. \A n \in 1..N : \E i \in S : Rank(S, i) = n
  BY <1>4 DEF Surjection
<1>6. \A n \in 1..N : InOrder(S)[n] \in S /\ Rank(S, InOrder(S)[n]) = n
  BY <1>5 DEF InOrder
<1>7. \A i \in S : InOrder(S)[Rank(S, i)] = i
  BY <1>1, <1>6
<1>8. InOrder(S) \in [1..N -> S]
  BY <1>5 DEF InOrder
<1>9. InOrder(S) \in Seq(S) /\ Len(InOrder(S)) = N
  BY <1>1, <1>8
<1> QED BY <1>6, <1>7, <1>8, <1>9

LEMMA MaxFacts ==
    ASSUME NEW S, Lineset(S), S # {}
    PROVE  /\ Max(S) \in S /\ \A i \in S : i <= Max(S)
           /\ Min(S) \in S /\ \A i \in S : Min(S) <= i
<1>1. S \subseteq Nat /\ Cardinality(S) \in Nat /\ Cardinality(S) # 0
  BY RankFacts, FS_EmptySet DEF Lineset
<1> DEFINE N == Cardinality(S)
           a == InOrder(S)
<1>2. 1 \in 1..N /\ N \in 1..N
  BY <1>1
<1>3. a[1] \in S /\ a[N] \in S /\ Rank(S, a[1]) = 1 /\ Rank(S, a[N]) = N
  BY <1>2, Ordered
<1>4. \A i, j \in S : i < j => Rank(S, i) < Rank(S, j)
  BY RankFacts
<1>5. \A i \in S : Rank(S, i) \in 1..N
  BY RankFacts
<1>6. ASSUME NEW i \in S PROVE a[1] <= i /\ i <= a[N]
  <2> HIDE DEF a, N
  <2>1. i \in Nat /\ a[1] \in Nat /\ a[N] \in Nat /\ N \in Nat
    BY <1>1, <1>3 DEF N
  <2>2. Rank(S, i) \in 1..N
    BY <1>5
  <2>3. ~(i < a[1])
    BY <1>3, <1>4, <2>1, <2>2
  <2>4. ~(a[N] < i)
    BY <1>3, <1>4, <2>1, <2>2
  <2> QED BY <2>1, <2>3, <2>4
<1>7. \E x \in S : \A y \in S : x >= y
  BY <1>1, <1>3, <1>6
<1>8. \E x \in S : \A y \in S : x <= y
  BY <1>1, <1>3, <1>6
<1>9. Max(S) \in S /\ \A y \in S : Max(S) >= y
  BY <1>7 DEF Max
<1>10. Min(S) \in S /\ \A y \in S : Min(S) <= y
  BY <1>8 DEF Min
<1> QED BY <1>1, <1>9, <1>10

-----------------------------------------------------------------------------
(* The settings form: saving what it loaded.                              *)

File == Seq(Item)

LEMMA FileFacts ==
    ASSUME NEW f \in File
    PROVE  /\ Len(f) \in Nat /\ DOMAIN f = 1..Len(f)
           /\ \A i \in DOMAIN f : /\ f[i] \in Item /\ f[i].values \in Seq(Text)
                                  /\ [f[i] EXCEPT !.values = f[i].values] = f[i]
<1>1. Len(f) \in Nat /\ DOMAIN f = 1..Len(f) /\ \A i \in DOMAIN f : f[i] \in Item
  BY DEF File
<1>2. ASSUME NEW x \in Item PROVE x.values \in Seq(Text) /\ [x EXCEPT !.values = x.values] = x
  BY DEF Item
<1> QED BY <1>1, <1>2

LEMMA AnalyseLines ==
    ASSUME NEW f \in File, NEW k
    PROVE  analyse(f, k) \subseteq DOMAIN f /\ Lineset(analyse(f, k)) /\ Lineset(DOMAIN f)
<1>1. analyse(f, k) \subseteq DOMAIN f
  BY DEF analyse, Outside
<1> QED BY <1>1, FileFacts, LinesOf

\* The document the settings form loads: per directive the values of its occurrences.
LEMMA Extracted ==
    ASSUME NEW f \in File
    PROVE  LET doc == settingsExtract(f)
           IN  /\ doc \in Seq([directive : Setting, want : Seq(Seq(Text))])
               /\ \A n \in DOMAIN doc :
                    LET have == analyse(f, doc[n].directive)
                    IN  /\ Len(doc[n].want) = Cardinality(have)
                        /\ \A i \in have : doc[n].want[Rank(have, i)] = f[i].values
<1> DEFINE values(k) == LET at == InOrder(analyse(f, k)) IN [n \in DOMAIN at |-> f[at[n]].values]
           entry(n) == [directive |-> SetToSeq(Setting)[n], want |-> values(SetToSeq(Setting)[n])]
           N == Cardinality(Setting)
<1>1. N \in Nat /\ \A n \in 1..N : SetToSeq(Setting)[n] \in Setting
  <2>1. IsFiniteSet(Setting)
    BY ConfAssumption
  <2>2. Cardinality(Setting) \in Nat /\ ExistsBijection(1..Cardinality(Setting), Setting)
    BY <2>1, FS_CardinalityType
  <2>3. \E g \in [1..Cardinality(Setting) -> Setting] : IsInjective(g)
    BY <2>2 DEF ExistsBijection, Bijection, Injection, Surjection, IsInjective
  <2>4. SetToSeq(Setting) \in [1..Cardinality(Setting) -> Setting]
    BY <2>3, Zenon DEF SetToSeq
  <2> QED BY <2>2, <2>4
<1>2. ASSUME NEW k
      PROVE  /\ values(k) \in Seq(Seq(Text)) /\ Len(values(k)) = Cardinality(analyse(f, k))
             /\ \A i \in analyse(f, k) : values(k)[Rank(analyse(f, k), i)] = f[i].values
  <2> DEFINE S == analyse(f, k)
             at == InOrder(S)
  <2>1. Lineset(S) /\ S \subseteq DOMAIN f
    BY AnalyseLines
  <2> HIDE DEF S
  <2>2. /\ DOMAIN at = 1..Cardinality(S) /\ Cardinality(S) \in Nat
        /\ \A n \in 1..Cardinality(S) : at[n] \in S
        /\ \A i \in S : at[Rank(S, i)] = i /\ Rank(S, i) \in 1..Cardinality(S)
    BY <2>1, Ordered, RankFacts
  <2>3. \A n \in DOMAIN at : f[at[n]].values \in Seq(Text)
    BY <2>1, <2>2, FileFacts
  <2> HIDE DEF at
  <2> DEFINE v == [n \in DOMAIN at |-> f[at[n]].values]
  <2>4. v \in Seq(Seq(Text)) /\ Len(v) = Cardinality(S)
    BY <2>2, <2>3
  <2>5. \A i \in S : v[Rank(S, i)] = f[i].values
    BY <2>2
  <2>6. values(k) = v
    BY DEF at, S
  <2> HIDE DEF v, values
  <2> QED BY <2>4, <2>5, <2>6 DEF S
<1>3. settingsExtract(f) = [n \in 1..N |-> entry(n)]
  BY DEF settingsExtract
<1> HIDE DEF values
<1>4. \A n \in 1..N : entry(n) \in [directive : Setting, want : Seq(Seq(Text))]
  <2>1. \A k \in Setting : values(k) \in Seq(Seq(Text))
    BY <1>2
  <2>2. ASSUME NEW k \in Setting, NEW v \in Seq(Seq(Text))
        PROVE  [directive |-> k, want |-> v] \in [directive : Setting, want : Seq(Seq(Text))]
    OBVIOUS
  <2> QED BY <1>1, <2>1, <2>2, Zenon
<1>5. settingsExtract(f) \in Seq([directive : Setting, want : Seq(Seq(Text))]) /\ DOMAIN settingsExtract(f) = 1..N
  <2> DEFINE T == [directive : Setting, want : Seq(Seq(Text))]
  <2>1. \A n \in 1..N : entry(n) \in T
    BY <1>4
  <2> HIDE DEF T, entry, N
  <2>2. settingsExtract(f) \in Seq(T) /\ DOMAIN settingsExtract(f) = 1..N
    BY <1>1, <1>3, <2>1
  <2> QED BY <2>2 DEF T
<1>6. ASSUME NEW n \in 1..N
      PROVE  LET have == analyse(f, settingsExtract(f)[n].directive)
             IN  /\ Len(settingsExtract(f)[n].want) = Cardinality(have)
                 /\ \A i \in have : settingsExtract(f)[n].want[Rank(have, i)] = f[i].values
  <2> DEFINE k == SetToSeq(Setting)[n]
  <2>1. settingsExtract(f)[n].directive = k /\ settingsExtract(f)[n].want = values(k)
    BY <1>3
  <2> HIDE DEF k
  <2> QED BY <2>1, <1>2
<1> HIDE DEF N
<1> QED BY <1>5, <1>6

LEMMA InsertionIndexIn ==
    ASSUME NEW f \in File
    PROVE  insertionIndex(f) \in 0..Len(f)
<1> DEFINE sections == {i \in DOMAIN f : \/ f[i].kind = "open"
                                         \/ IsDirective(f, i) /\ f[i].key \in {"listener", "bridge", "connection"}}
           head == {i \in DOMAIN f : IsDirective(f, i) /\ \A j \in sections : i < j}
<1>1. head \subseteq DOMAIN f /\ Len(f) \in Nat /\ DOMAIN f = 1..Len(f)
  BY FileFacts
<1>2. insertionIndex(f) = IF head = {} THEN 0 ELSE Max(head)
  BY DEF insertionIndex
<1> HIDE DEF head
<1>3. CASE head = {}
  BY <1>1, <1>2, <1>3
<1>4. CASE head # {}
  <2>1. Max(head) \in head
    BY <1>1, <1>4, LinesOf, MaxFacts
  <2> QED BY <1>1, <1>2, <1>4, <2>1
<1> QED BY <1>3, <1>4

\* Loaded values rewrite every occurrence to what it is.
LEMMA SettingsRewritten ==
    ASSUME NEW f \in File
    PROVE  rewriteSettings(f, settingsExtract(f)) = f
<1> DEFINE doc == settingsExtract(f)
           mine(i) == {n \in DOMAIN doc : doc[n].directive = f[i].key /\ i \in analyse(f, doc[n].directive)}
           part(i) == IF mine(i) = {} THEN <<f[i]>>
                      ELSE LET e == doc[CHOOSE n \in mine(i) : TRUE]
                               r == Rank(analyse(f, e.directive), i)
                           IN  IF r <= Len(e.want) THEN <<[f[i] EXCEPT !.values = e.want[r]]>> ELSE <<>>
<1>1. rewriteSettings(f, doc) = FlattenSeq([i \in DOMAIN f |-> part(i)])
  BY DEF rewriteSettings
<1>2. \A n \in DOMAIN doc :
        LET have == analyse(f, doc[n].directive)
        IN  /\ Len(doc[n].want) = Cardinality(have)
            /\ \A i \in have : doc[n].want[Rank(have, i)] = f[i].values
  BY Extracted
<1> HIDE DEF doc
<1>3. ASSUME NEW i \in DOMAIN f PROVE part(i) = <<f[i]>>
  <2>1. CASE mine(i) = {}
    BY <2>1
  <2>2. CASE mine(i) # {}
    <3> DEFINE n == CHOOSE n \in mine(i) : TRUE
               have == analyse(f, doc[n].directive)
               r == Rank(have, i)
    <3>1. n \in DOMAIN doc /\ i \in have
      BY <2>2
    <3>2. part(i) = IF r <= Len(doc[n].want) THEN <<[f[i] EXCEPT !.values = doc[n].want[r]]>> ELSE <<>>
      BY <2>2
    <3> HIDE DEF n, part, mine
    <3>3. r \in 1..Cardinality(have) /\ Cardinality(have) \in Nat
      BY <3>1, AnalyseLines, RankFacts
    <3>4. Len(doc[n].want) = Cardinality(have) /\ doc[n].want[r] = f[i].values
      BY <3>1, <1>2
    <3> HIDE DEF have, r
    <3>5. r <= Len(doc[n].want)
      BY <3>3, <3>4
    <3>6. part(i) = <<[f[i] EXCEPT !.values = f[i].values]>>
      BY <3>2, <3>4, <3>5
    <3> QED BY <3>6, FileFacts
  <2> QED BY <2>1, <2>2
<1> HIDE DEF part
<1>4. [i \in DOMAIN f |-> part(i)] = [i \in DOMAIN f |-> <<f[i]>>]
  BY <1>3
<1>5. rewriteSettings(f, doc) = FlattenSeq([i \in DOMAIN f |-> <<f[i]>>])
  BY <1>1, <1>4
<1>6. FlattenSeq([i \in DOMAIN f |-> <<f[i]>>]) = f
  BY FlatSingles DEF File
<1> QED BY <1>5, <1>6 DEF doc

\* After that no occurrence is missing.
LEMMA NothingMissing ==
    ASSUME NEW f \in File, NEW n \in DOMAIN settingsExtract(f)
    PROVE  insertMissing(f, settingsExtract(f)[n]) = f
<1> DEFINE e == settingsExtract(f)[n]
           have == analyse(f, e.directive)
           missing == SubSeq(e.want, Cardinality(have) + 1, Len(e.want))
           at == IF have = {} THEN insertionIndex(f) ELSE Max(have)
<1>1. Len(e.want) = Cardinality(have) /\ Cardinality(have) \in Nat /\ e.want \in Seq(Seq(Text))
  <2>1. /\ settingsExtract(f) \in Seq([directive : Setting, want : Seq(Seq(Text))])
        /\ Len(settingsExtract(f)[n].want) = Cardinality(analyse(f, settingsExtract(f)[n].directive))
    BY Extracted, Zenon
  <2>2. e \in [directive : Setting, want : Seq(Seq(Text))]
    <3> DEFINE T == [directive : Setting, want : Seq(Seq(Text))]
    <3> HIDE DEF T
    <3>1. settingsExtract(f) \in Seq(T) /\ n \in DOMAIN settingsExtract(f)
      BY <2>1 DEF T
    <3>2. e \in T
      BY <3>1
    <3> QED BY <3>2 DEF T
  <2>3. Cardinality(have) \in Nat
    BY AnalyseLines, RankFacts
  <2> QED BY <2>1, <2>2, <2>3
<1>2. missing = <<>>
  BY <1>1, SubSeqEmpty
<1>3. [m \in DOMAIN missing |-> Directive(e.directive, missing[m])] = <<>>
  <2>1. DOMAIN missing = 1..0 /\ 1..0 = {}
    <3>1. \A s \in Seq(Seq(Text)) : DOMAIN s = 1..Len(s)
      OBVIOUS
    <3>2. <<>> \in Seq(Seq(Text)) /\ Len(<<>>) = 0
      OBVIOUS
    <3>3. 1..0 = {}
      OBVIOUS
    <3>4. DOMAIN <<>> = 1..0
      BY <3>1, <3>2
    <3> QED BY <1>2, <3>3, <3>4, Zenon
  <2> DEFINE h == [m \in 1..0 |-> Directive(e.directive, missing[m])]
  <2>2. h \in Seq({}) /\ Len(h) = 0
    BY <2>1
  <2>3. h = <<>>
    <3> HIDE DEF h
    <3> QED BY <2>2
  <2> QED BY <2>1, <2>3, Zenon
<1>4. at \in 0..Len(f)
  <2>1. CASE have = {}
    BY <2>1, InsertionIndexIn
  <2>2. CASE have # {}
    <3>1. Max(have) \in have /\ have \subseteq DOMAIN f /\ Len(f) \in Nat /\ DOMAIN f = 1..Len(f)
      BY <2>2, AnalyseLines, MaxFacts, FileFacts
    <3> QED BY <2>2, <3>1
  <2> QED BY <2>1, <2>2
<1>5. insertMissing(f, e) = insertItems(f, at, <<>>)
  BY <1>3 DEF insertMissing
<1> QED BY <1>4, <1>5, InsertNothing DEF File

\* settings.Apply of settings.Extract gives the file back, item by item.
LEMMA SettingsSaved ==
    ASSUME NEW f \in File
    PROVE  settingsApply(f, settingsExtract(f)) = f
<1> DEFINE doc == settingsExtract(f)
           N == Len(doc)
           Is(out) == out = [n \in 0..N |-> IF n = 0 THEN rewriteSettings(f, doc) ELSE insertMissing(out[n - 1], doc[n])]
           F == CHOOSE out : out = [n \in 0..N |-> IF n = 0 THEN rewriteSettings(f, doc) ELSE insertMissing(out[n - 1], doc[n])]
<1>1. N \in Nat /\ DOMAIN doc = 1..N
  BY Extracted
<1>2. rewriteSettings(f, doc) = f /\ \A n \in 1..N : insertMissing(f, doc[n]) = f
  BY <1>1, SettingsRewritten, NothingMissing
<1>3. settingsApply(f, doc) = F[N]
  BY DEF settingsApply
<1> HIDE DEF doc
<1>4. Is([n \in 0..N |-> f])
  <2> DEFINE g == [n \in 0..N |-> f]
  <2>1. \A n \in 0..N : n # 0 => n \in 1..N /\ n - 1 \in 0..N
    BY <1>1
  <2>2. \A n \in 0..N : (IF n = 0 THEN rewriteSettings(f, doc) ELSE insertMissing(g[n - 1], doc[n])) = f
    BY <1>2, <2>1
  <2>3. g = [n \in 0..N |-> IF n = 0 THEN rewriteSettings(f, doc) ELSE insertMissing(g[n - 1], doc[n])]
    BY <2>2
  <2> QED BY <2>3
<1>5. F = [n \in 0..N |-> IF n = 0 THEN rewriteSettings(f, doc) ELSE insertMissing(F[n - 1], doc[n])]
  <2>1. \E out : Is(out)
    BY <1>4
  <2> QED BY <2>1
<1> HIDE DEF F, Is
<1> DEFINE S == {n \in 0..N : F[n] = f}
<1>6. 0 \in S /\ S \in SUBSET Nat
  BY <1>1, <1>2, <1>5
<1>7. ASSUME NEW n \in S, n < N PROVE n + 1 \in S
  <2>1. n + 1 \in 0..N /\ n + 1 # 0 /\ (n + 1) - 1 = n /\ n + 1 \in 1..N /\ F[n] = f
    BY <1>1, <1>7
  <2>2. F[n + 1] = insertMissing(F[n], doc[n + 1])
    BY <1>5, <2>1
  <2> QED BY <2>1, <2>2, <1>2
<1>8. N \in S
  <2>1. \A n \in S : n < N => n + 1 \in S
    BY <1>7
  <2> HIDE DEF S, N
  <2>2. \A n \in 0..N : n \in S
    BY <1>1, <1>6, <2>1, SetInduction
  <2>3. N \in 0..N
    BY <1>1
  <2> QED BY <2>2, <2>3
<1> QED BY <1>3, <1>8 DEF doc

-----------------------------------------------------------------------------
(* The plugin page: every entry claims its own group again.               *)

\* The group the n-th entry takes, when the ones before it took the groups c.
FreeGroups(f, doc, c, n) ==
    {g \in groups(f) : /\ \A k \in 1..(n - 1) : c[k] # g
                       /\ IF MatchModule(doc[n].module) THEN MatchModule(Module(f, g))
                          ELSE Module(f, g) = doc[n].module}
Claim(f, doc, c, n) == IF FreeGroups(f, doc, c, n) = {} THEN 0 ELSE Min(FreeGroups(f, doc, c, n))

LEMMA GroupLines ==
    ASSUME NEW f \in File
    PROVE  /\ groups(f) \subseteq DOMAIN f /\ Lineset(groups(f))
           /\ Cardinality(groups(f)) \in Nat
           /\ InOrder(groups(f)) \in [1..Cardinality(groups(f)) -> groups(f)]
           /\ DOMAIN InOrder(groups(f)) = 1..Cardinality(groups(f))
<1>1. groups(f) \subseteq DOMAIN f
  BY DEF groups
<1>2. Lineset(groups(f))
  BY <1>1, FileFacts, LinesOf
<1> QED BY <1>1, <1>2, Ordered, RankFacts

LEMMA PluginEntries ==
    ASSUME NEW f \in File
    PROVE  LET doc == pluginsExtract(f)
               at  == InOrder(groups(f))
               N   == Cardinality(groups(f))
           IN  /\ doc \in Seq([module : Text, file : Text]) /\ Len(doc) = N /\ DOMAIN doc = 1..N
               /\ \A n \in 1..N : /\ doc[n].module = Module(f, at[n])
                                  /\ doc[n].file = optionValue(f, at[n], ManagedOption(Module(f, at[n])))
<1> DEFINE at == InOrder(groups(f))
           N == Cardinality(groups(f))
           entry(n) == [module |-> Module(f, at[n]), file |-> optionValue(f, at[n], ManagedOption(Module(f, at[n])))]
<1>1. N \in Nat /\ DOMAIN at = 1..N /\ \A n \in 1..N : at[n] \in groups(f) /\ groups(f) \subseteq DOMAIN f
  BY GroupLines
<1>2. pluginsExtract(f) = [n \in 1..N |-> entry(n)]
  BY <1>1 DEF pluginsExtract
<1> HIDE DEF at, N
<1>3. ASSUME NEW x \in Item, x.key \in {"plugin", ConfigFile, OtherOption} PROVE x.values[1] \in Text
  BY <1>3 DEF Item
<1>4. ASSUME NEW n \in 1..N PROVE Module(f, at[n]) \in Text
  <2>1. at[n] \in DOMAIN f /\ f[at[n]] \in Item /\ f[at[n]].key = "plugin"
    BY <1>1, FileFacts DEF groups
  <2> QED BY <1>3, <2>1 DEF Module
<1>5. ASSUME NEW n \in 1..N, NEW option PROVE optionValue(f, at[n], option) \in Text
  <2> DEFINE S == {j \in optionIndexes(f, at[n]) : f[j].key = option}
  <2>1. CASE S = {}
    BY <2>1, ConfAssumption DEF optionValue
  <2>2. CASE S # {}
    <3> DEFINE j == CHOOSE j \in S : TRUE
    <3>1. j \in S
      BY <2>2
    <3>2. optionValue(f, at[n], option) = f[j].values[1]
      BY <2>2 DEF optionValue
    <3> HIDE DEF j
    <3>3. j \in (at[n] + 1)..Len(f) /\ f[j].key \in {ConfigFile, OtherOption}
      BY <3>1 DEF optionIndexes
    <3>4. j \in DOMAIN f
      BY <3>3, <1>1, FileFacts
    <3>5. f[j] \in Item
      BY <3>4, FileFacts
    <3> QED BY <3>2, <3>3, <3>5, <1>3
  <2> QED BY <2>1, <2>2
<1>6. \A n \in 1..N : entry(n) \in [module : Text, file : Text]
  BY <1>4, <1>5
<1>7. \A n \in 1..N : /\ entry(n).module = Module(f, at[n])
                      /\ entry(n).file = optionValue(f, at[n], ManagedOption(Module(f, at[n])))
  OBVIOUS
<1> DEFINE T == [module : Text, file : Text]
<1>8. \A n \in 1..N : entry(n) \in T
  BY <1>6
<1>9. N \in Nat
  BY <1>1
<1> HIDE DEF T, entry
<1>10. pluginsExtract(f) \in Seq(T) /\ Len(pluginsExtract(f)) = N /\ DOMAIN pluginsExtract(f) = 1..N
  BY <1>2, <1>8, <1>9
<1>11. \A n \in 1..N : pluginsExtract(f)[n] = entry(n)
  BY <1>2
<1> QED BY <1>7, <1>10, <1>11 DEF T, at, N

\* The n-th entry finds the n-th group free and no earlier one that would do.
LEMMA ClaimOwn ==
    ASSUME NEW f \in File, NEW c, NEW n \in 1..Cardinality(groups(f)),
           \A k \in 1..(n - 1) : c[k] = InOrder(groups(f))[k]
    PROVE  Claim(f, pluginsExtract(f), c, n) = InOrder(groups(f))[n]
<1> DEFINE S == groups(f)
           at == InOrder(S)
           N == Cardinality(S)
           doc == pluginsExtract(f)
           free == FreeGroups(f, doc, c, n)
<1>1. Lineset(S) /\ S \subseteq Nat /\ N \in Nat
  BY GroupLines DEF Lineset
<1>2. /\ \A k \in 1..N : at[k] \in S /\ Rank(S, at[k]) = k
      /\ \A i \in S : at[Rank(S, i)] = i /\ Rank(S, i) \in 1..N
      /\ \A i, j \in S : i < j => Rank(S, i) < Rank(S, j)
  BY <1>1, Ordered, RankFacts
<1>3. doc[n].module = Module(f, at[n])
  BY PluginEntries
<1> HIDE DEF S, at, N, doc
<1>4. n \in 1..N /\ \A k \in 1..(n - 1) : k \in 1..N /\ k # n /\ c[k] = at[k]
  BY <1>1 DEF N, at, S
<1>5. at[n] \in free
  <2>1. \A k \in 1..(n - 1) : c[k] # at[n]
    BY <1>2, <1>4
  <2>2. at[n] \in groups(f)
    BY <1>2, <1>4 DEF S
  <2> QED BY <1>3, <2>1, <2>2 DEF FreeGroups
<1>6. ASSUME NEW g \in free PROVE at[n] <= g
  <2>1. g \in S /\ \A k \in 1..(n - 1) : c[k] # g
    BY DEF FreeGroups, S
  <2>2. Rank(S, g) \in 1..N /\ at[Rank(S, g)] = g
    BY <2>1, <1>2
  <2>3. Rank(S, g) \notin 1..(n - 1)
    BY <2>1, <2>2, <1>4
  <2>4. Rank(S, g) >= n
    <3> DEFINE r == Rank(S, g)
    <3> HIDE DEF r
    <3>1. r \in 1..N /\ n \in 1..N /\ N \in Nat /\ r \notin 1..(n - 1)
      BY <1>1, <1>4, <2>2, <2>3 DEF r
    <3>2. r >= n
      BY <3>1
    <3> QED BY <3>2 DEF r
  <2>5. g \in Nat /\ at[n] \in Nat /\ at[n] \in S /\ Rank(S, at[n]) = n
    BY <1>1, <1>2, <1>4, <2>1
  <2>6. ~(g < at[n])
    <3>1. g < at[n] => Rank(S, g) < n
      BY <1>2, <2>1, <2>5
    <3>2. n \in Nat /\ Rank(S, g) \in Nat
      BY <1>4, <2>2
    <3> QED BY <3>1, <3>2, <2>4
  <2> QED BY <2>5, <2>6
<1>7. free \subseteq S /\ Lineset(free)
  <2>1. free \subseteq S
    BY DEF FreeGroups, S
  <2> QED BY <1>1, <2>1, FS_Subset DEF Lineset
<1> HIDE DEF free
<1>8. Min(free) \in free /\ \A i \in free : Min(free) <= i
  BY <1>5, <1>7, MaxFacts
<1>9. Min(free) = at[n]
  <2>1. Min(free) \in Nat /\ at[n] \in Nat
    BY <1>1, <1>5, <1>7, <1>8
  <2> QED BY <1>5, <1>6, <1>8, <2>1
<1> QED BY <1>5, <1>9 DEF Claim, free, doc, at, S

\* So every entry of the loaded page claims the group it was loaded from.
LEMMA ClaimsInOrder ==
    ASSUME NEW f \in File
    PROVE  matchGroups(f, pluginsExtract(f)) = InOrder(groups(f))
<1> DEFINE doc == pluginsExtract(f)
           at == InOrder(groups(f))
           N == Cardinality(groups(f))
           F == CHOOSE c : c = [n \in 1..N |-> Claim(f, doc, c, n)]
<1>1. N \in Nat /\ Len(doc) = N /\ at \in [1..N -> groups(f)]
  BY PluginEntries, GroupLines
<1>2. matchGroups(f, doc) = CHOOSE c : c = [n \in 1..Len(doc) |-> Claim(f, doc, c, n)]
  BY Zenon DEF matchGroups, Claim, FreeGroups
<1>3. matchGroups(f, doc) = F
  BY <1>1, <1>2
<1>4. ASSUME NEW c, NEW n \in 1..N, \A k \in 1..(n - 1) : c[k] = at[k] PROVE Claim(f, doc, c, n) = at[n]
  BY <1>4, ClaimOwn
<1> HIDE DEF doc, at, N
<1>5. at = [n \in 1..N |-> Claim(f, doc, at, n)]
  BY <1>1, <1>4
<1>6. F = [n \in 1..N |-> Claim(f, doc, F, n)]
  BY <1>5
<1> HIDE DEF F
<1> DEFINE S == {n \in 0..N : \A k \in 1..n : F[k] = at[k]}
<1>7. 0 \in S /\ S \in SUBSET Nat
  BY <1>1
<1>8. ASSUME NEW n \in S, n < N PROVE n + 1 \in S
  <2>1. n + 1 \in 1..N /\ n + 1 \in 0..N /\ (n + 1) - 1 = n /\ \A k \in 1..n : F[k] = at[k]
    BY <1>1, <1>8
  <2>2. F[n + 1] = at[n + 1]
    <3>1. F[n + 1] = Claim(f, doc, F, n + 1)
      BY <1>6, <2>1
    <3>2. \A k \in 1..((n + 1) - 1) : F[k] = at[k]
      BY <2>1
    <3> QED BY <1>4, <2>1, <3>1, <3>2
  <2>3. \A k \in 1..(n + 1) : k = n + 1 \/ k \in 1..n
    BY <2>1
  <2> QED BY <2>1, <2>2, <2>3
<1>9. \A n \in 1..N : F[n] = at[n]
  <2>1. \A n \in S : n < N => n + 1 \in S
    BY <1>8
  <2> HIDE DEF S
  <2>2. \A n \in 0..N : n \in S
    BY <1>1, <1>7, <2>1, SetInduction
  <2>3. N \in S
    BY <1>1, <2>2
  <2> QED BY <2>3 DEF S
<1>10. F = at
  BY <1>1, <1>6, <1>9
<1> QED BY <1>3, <1>10 DEF doc, at

LEMMA FirstOption ==
    ASSUME NEW f \in File, NEW g \in groups(f), NEW i \in optionIndexes(f, g)
    PROVE  /\ i \in DOMAIN f /\ f[i] \in Item
           /\ optionValue(f, g, f[i].key) = f[i].values[1]
<1>1. g \in Nat /\ Len(f) \in Nat /\ DOMAIN f = 1..Len(f)
  BY GroupLines, FileFacts DEF Lineset
<1>2. \A j \in optionIndexes(f, g) : j \in Nat /\ j \in (g + 1)..Len(f) /\ j \in DOMAIN f /\ IsDirective(f, j)
  BY <1>1 DEF optionIndexes
<1>3. ASSUME NEW j \in optionIndexes(f, g), NEW k \in optionIndexes(f, g), j < k, f[j].key = f[k].key PROVE FALSE
  <2>1. j \in (g + 1)..(k - 1)
    BY <1>1, <1>2, <1>3
  <2> QED BY <1>2, <1>3, <2>1 DEF optionIndexes
<1>4. \A j \in optionIndexes(f, g) : f[j].key = f[i].key => j = i
  BY <1>2, <1>3
<1>5. {j \in optionIndexes(f, g) : f[j].key = f[i].key} = {i}
  BY <1>4
<1>6. optionValue(f, g, f[i].key) = f[i].values[1]
  BY <1>5 DEF optionValue
<1> QED BY <1>2, <1>6, FileFacts

LEMMA OneValue ==
    ASSUME NEW x \in Item, x.key \in {"plugin", ConfigFile, OtherOption}
    PROVE  [x EXCEPT !.values = <<x.values[1]>>] = x
<1>1. x.values \in Seq(Text) /\ Len(x.values) = 1
  BY DEF Item
<1>2. x.values = <<x.values[1]>>
  BY <1>1
<1>3. [x EXCEPT !.values = x.values] = x
  BY DEF Item
<1> QED BY <1>2, <1>3, Zenon

\* plugins.Apply of plugins.Extract gives the file back, if the page accepts it.
LEMMA PluginsSaved ==
    ASSUME NEW f \in File, pluginsValidate(pluginsExtract(f))
    PROVE  pluginsApply(f, pluginsExtract(f)) = f
<1> DEFINE doc == pluginsExtract(f)
           at == InOrder(groups(f))
           N == Cardinality(groups(f))
           claimed == matchGroups(f, doc)
           managed == {n \in DOMAIN doc : claimed[n] # 0 /\ MatchModule(doc[n].module)}
           removed == removedItems(f, claimed)
           m(i) == {n \in managed : claimed[n] = i}
           o(i) == {n \in managed : i \in optionIndexes(f, claimed[n]) /\ f[i].key = ConfigFile}
           edited(i) == IF m(i) # {} THEN [f[i] EXCEPT !.values = <<doc[CHOOSE n \in m(i) : TRUE].module>>]
                        ELSE IF o(i) # {} THEN [f[i] EXCEPT !.values = <<doc[CHOOSE n \in o(i) : TRUE].file>>]
                        ELSE f[i]
           a(i) == {n \in managed : /\ lastOptionIndex(f, claimed[n]) = i
                                    /\ optionValue(f, claimed[n], ConfigFile) = ""}
           behind(i) == IF a(i) = {} THEN <<>> ELSE <<Directive(ConfigFile, <<doc[CHOOSE n \in a(i) : TRUE].file>>)>>
           part(i) == IF i \in removed THEN <<>> ELSE <<edited(i)>> \o behind(i)
           block(n) == IF claimed[n] = 0 THEN pluginBlock(doc[n]) ELSE <<>>
           rebuilt == FlattenSeq([i \in DOMAIN f |-> part(i)])
           new == FlattenSeq([n \in DOMAIN doc |-> block(n)])
<1>1. pluginsApply(f, doc) = insertItems(rebuilt, insertionIndex(rebuilt), new)
  BY Zenon DEF pluginsApply
<1>2. claimed = at
  BY ClaimsInOrder
<1>3. /\ DOMAIN doc = 1..N /\ Len(doc) = N /\ N \in Nat
      /\ \A n \in 1..N : /\ doc[n].module = Module(f, at[n])
                         /\ doc[n].file = optionValue(f, at[n], ManagedOption(Module(f, at[n])))
  BY PluginEntries, GroupLines
<1>4. /\ at \in [1..N -> groups(f)] /\ groups(f) \subseteq DOMAIN f
      /\ \A g \in groups(f) : \E n \in 1..N : at[n] = g
  <2>1. \A g \in groups(f) : at[Rank(groups(f), g)] = g /\ Rank(groups(f), g) \in 1..N
    BY GroupLines, Ordered, RankFacts
  <2> QED BY <2>1, GroupLines
<1>5. \A n \in 1..N : MatchModule(doc[n].module) => doc[n].file # ""
  BY <1>3 DEF pluginsValidate
<1>6. \A g \in groups(f) : g # 0
  BY <1>4, FileFacts
<1> HIDE DEF doc, at, N, claimed
<1>7. ASSUME NEW n \in managed
      PROVE  /\ n \in 1..N /\ claimed[n] = at[n] /\ at[n] \in groups(f) /\ doc[n].module = Module(f, at[n])
             /\ doc[n].file = optionValue(f, at[n], ConfigFile) /\ doc[n].file # ""
  <2>1. n \in 1..N /\ MatchModule(doc[n].module)
    BY <1>3
  <2> QED BY <2>1, <1>2, <1>3, <1>4, <1>5 DEF ManagedOption
<1>8. removed = {}
  <2>1. \A g \in groups(f) : \E n \in DOMAIN claimed : claimed[n] = g
    BY <1>2, <1>4
  <2> QED BY <2>1, Zenon DEF removedItems
<1> HIDE DEF managed, removed
<1>9. ASSUME NEW i \in DOMAIN f PROVE part(i) = <<f[i]>>
  <2>1. edited(i) = f[i]
    <3>1. CASE m(i) # {}
      <4> DEFINE n == CHOOSE n \in m(i) : TRUE
      <4>1. n \in managed /\ claimed[n] = i
        BY <3>1
      <4>2. edited(i) = [f[i] EXCEPT !.values = <<doc[n].module>>]
        BY <3>1
      <4> HIDE DEF n, m, o, edited
      <4>3. i \in groups(f) /\ doc[n].module = f[i].values[1]
        BY <4>1, <1>7 DEF Module
      <4>4. f[i] \in Item /\ f[i].key = "plugin"
        BY <4>3, FileFacts DEF groups
      <4> QED BY <4>2, <4>3, <4>4, OneValue
    <3>2. CASE m(i) = {} /\ o(i) # {}
      <4> DEFINE n == CHOOSE n \in o(i) : TRUE
      <4>1. n \in managed /\ i \in optionIndexes(f, claimed[n]) /\ f[i].key = ConfigFile
        BY <3>2
      <4>2. edited(i) = [f[i] EXCEPT !.values = <<doc[n].file>>]
        BY <3>2
      <4> HIDE DEF n, m, o, edited
      <4>3. doc[n].file = optionValue(f, at[n], f[i].key) /\ at[n] \in groups(f) /\ i \in optionIndexes(f, at[n])
        BY <4>1, <1>7
      <4>4. doc[n].file = f[i].values[1] /\ f[i] \in Item
        BY <4>3, FirstOption
      <4> QED BY <4>1, <4>2, <4>4, OneValue
    <3>3. CASE m(i) = {} /\ o(i) = {}
      BY <3>3
    <3> QED BY <3>1, <3>2, <3>3
  <2>2. a(i) = {}
    BY <1>7
  <2>3. behind(i) = <<>>
    BY <2>2, Zenon
  <2> HIDE DEF edited, behind
  <2>4. part(i) = <<f[i]>> \o <<>>
    BY <1>8, <2>1, <2>3
  <2> QED BY <2>4
<1>10. rebuilt = f
  <2> HIDE DEF part
  <2>1. [i \in DOMAIN f |-> part(i)] = [i \in DOMAIN f |-> <<f[i]>>]
    BY <1>9
  <2> QED BY <2>1, FlatSingles DEF File
<1>11. new = <<>>
  <2>1. \A n \in 1..N : block(n) = <<>>
    BY <1>2, <1>4, <1>6
  <2> HIDE DEF block
  <2>2. [n \in DOMAIN doc |-> block(n)] \in Seq({<<>>})
    BY <1>3, <2>1
  <2> QED BY <2>2, FlatEmpty
<1>12. insertItems(f, insertionIndex(f), <<>>) = f
  BY InsertNothing, InsertionIndexIn DEF File
<1> HIDE DEF rebuilt, new
<1> QED BY <1>1, <1>10, <1>11, <1>12 DEF doc

-----------------------------------------------------------------------------
(* The bridge page: its parser reads what the broker reads, where the     *)
(* form can hold it.                                                      *)

Topics(f, S) ==
    LET rules == InOrder({i \in S : f[i].key = "topic"}) IN [r \in DOMAIN rules |-> parseTopic(f[rules[r]].values)]

AddressLines(f, S) == {i \in S : f[i].key \in {"address", "addresses"}}

Remotes(f, S) == Addresses(f, AddressLines(f, S))

\* The bridge that a connection line and the lines of a set make, with the
\* address that the form or the broker reads there.
SectionAt(f, c, S, address) ==
    [name      |-> f[c].values[1],
     address   |-> address,
     password  |-> applyOption(f, S, "remote_password"),
     keepalive |-> applyOption(f, S, "keepalive_interval"),
     topics    |-> Topics(f, S)]

Section(f, c, S)     == SectionAt(f, c, S, AddressList(Remotes(f, S)))
FormSection(f, c, S) == SectionAt(f, c, S, applyOption(f, S, "address"))

\* The options of the connection line c.
OptionsOf(f, c) == {i \in Outside(f) : f[i].key \in connectionKeys /\ Scope(Lines(f, "connection"), i) = c}

LEMMA ScopeIs ==
    ASSUME NEW C, Lineset(C), 0 \notin C, NEW c \in C, NEW i \in Nat
    PROVE  Scope(C, i) = c <=> c < i /\ \A j \in C : j < i => j <= c
<1> DEFINE B == {j \in C : j < i}
<1>1. Scope(C, i) = IF B = {} THEN 0 ELSE Max(B)
  BY DEF Scope
<1>2. C \subseteq Nat /\ Lineset(B)
  BY FS_Subset DEF Lineset
<1>3. CASE B = {}
  BY <1>1, <1>3
<1>4. CASE B # {}
  <2>1. Max(B) \in B /\ \A j \in B : j <= Max(B)
    BY <1>2, <1>4, MaxFacts
  <2>2. c < i /\ (\A j \in C : j < i => j <= c) => Max(B) = c
    <3> SUFFICES ASSUME c < i, \A j \in C : j < i => j <= c PROVE Max(B) = c
      OBVIOUS
    <3>1. c \in B /\ Max(B) <= c /\ c <= Max(B) /\ Max(B) \in Nat /\ c \in Nat
      BY <1>2, <2>1
    <3> QED BY <3>1
  <2>3. Max(B) = c => c < i /\ \A j \in C : j < i => j <= c
    BY <2>1
  <2> QED BY <1>1, <1>4, <2>2, <2>3
<1> QED BY <1>3, <1>4

LEMMA ConnectionLines ==
    ASSUME NEW f \in File
    PROVE  /\ Outside(f) \subseteq DOMAIN f /\ Lineset(Lines(f, "connection")) /\ 0 \notin Lines(f, "connection")
           /\ Lines(f, "connection") \subseteq Outside(f)
           /\ \A c : Lineset(OptionsOf(f, c)) /\ OptionsOf(f, c) \subseteq DOMAIN f
<1>1. Outside(f) \subseteq DOMAIN f /\ Lines(f, "connection") \subseteq Outside(f) /\ \A c : OptionsOf(f, c) \subseteq DOMAIN f
  BY DEF Outside, Lines, OptionsOf
<1>2. Len(f) \in Nat /\ DOMAIN f = 1..Len(f)
  BY FileFacts
<1>3. Lines(f, "connection") \subseteq 1..Len(f) /\ \A c : OptionsOf(f, c) \subseteq 1..Len(f)
  BY <1>1, <1>2
<1>4. 0 \notin 1..Len(f)
  BY <1>2
<1> QED BY <1>1, <1>2, <1>3, <1>4, LinesOf

\* The bridges Mosquitto reads, one section per connection line.
LEMMA BrokerSections ==
    ASSUME NEW f \in File
    PROVE  LET at == InOrder(Lines(f, "connection"))
           IN  BrokerBridges(f) = [n \in DOMAIN at |-> Section(f, at[n], OptionsOf(f, at[n]))]
<1> DEFINE connections == Lines(f, "connection")
           at == InOrder(connections)
           line(n, key) == {i \in Lines(f, key) : Scope(connections, i) = at[n]}
           value(n, key) == IF line(n, key) = {} THEN "" ELSE f[Max(line(n, key))].values[1]
           rules(n) == InOrder(line(n, "topic"))
           topics(n) == [r \in DOMAIN rules(n) |-> parseTopic(f[rules(n)[r]].values)]
           addresses(n) == line(n, "address") \cup line(n, "addresses")
<1>1. BrokerBridges(f) = [n \in DOMAIN at |-> [name |-> f[at[n]].values[1],
                              address |-> AddressList(Addresses(f, addresses(n))),
                              password |-> value(n, "remote_password"),
                              keepalive |-> value(n, "keepalive_interval"),
                              topics |-> topics(n)]]
  BY Zenon DEF BrokerBridges
<1>2. \A n : \A key \in connectionKeys : line(n, key) = {i \in OptionsOf(f, at[n]) : f[i].key = key}
  BY DEF Lines, OptionsOf
<1>3. ASSUME NEW n, NEW key \in connectionKeys, key # "address"
      PROVE  value(n, key) = applyOption(f, OptionsOf(f, at[n]), key)
  <2> DEFINE A == {i \in OptionsOf(f, at[n]) : f[i].key = key /\ (key = "address" => f[i].values[1] # "")}
  <2>1. A = line(n, key)
    <3>1. line(n, key) = {i \in OptionsOf(f, at[n]) : f[i].key = key}
      BY <1>2
    <3>2. A = {i \in OptionsOf(f, at[n]) : f[i].key = key}
      BY <1>3, Zenon
    <3> QED BY <3>1, <3>2
  <2>2. applyOption(f, OptionsOf(f, at[n]), key) = IF A = {} THEN "" ELSE f[Max(A)].values[1]
    BY DEF applyOption
  <2> HIDE DEF A, line
  <2> QED BY <2>1, <2>2
<1>4. /\ "address" \in connectionKeys /\ "addresses" \in connectionKeys /\ "remote_password" \in connectionKeys
      /\ "keepalive_interval" \in connectionKeys /\ "topic" \in connectionKeys
      /\ "remote_password" # "address" /\ "keepalive_interval" # "address"
  BY DEF connectionKeys
<1>5. \A n : topics(n) = Topics(f, OptionsOf(f, at[n]))
  <2>1. \A n : line(n, "topic") = {i \in OptionsOf(f, at[n]) : f[i].key = "topic"}
    BY <1>2, <1>4
  <2> QED BY <2>1, Zenon DEF Topics
<1>6. \A n : Addresses(f, addresses(n)) = Remotes(f, OptionsOf(f, at[n]))
  <2>1. \A n : addresses(n) = AddressLines(f, OptionsOf(f, at[n]))
    BY <1>2, <1>4 DEF AddressLines
  <2> HIDE DEF addresses
  <2> QED BY <2>1 DEF Remotes
<1>7. \A n : value(n, "remote_password") = applyOption(f, OptionsOf(f, at[n]), "remote_password")
  BY <1>3, <1>4
<1>8. \A n : value(n, "keepalive_interval") = applyOption(f, OptionsOf(f, at[n]), "keepalive_interval")
  BY <1>3, <1>4
<1> HIDE DEF value, topics, at, addresses
<1> QED BY <1>1, <1>5, <1>6, <1>7, <1>8 DEF Section, SectionAt, at

\* bridges.Parse, which cuts the file at the connection lines, reads the same
\* lines.
LEMMA ParsedSections ==
    ASSUME NEW f \in File
    PROVE  LET at == InOrder(Lines(f, "connection"))
           IN  bridgesParse(f) = [n \in DOMAIN at |-> FormSection(f, at[n], OptionsOf(f, at[n]))]
<1> DEFINE C == Lines(f, "connection")
           at == InOrder(C)
           N == Cardinality(C)
           mine == connectionItems(f)
           in(n) == {i \in mine : at[n] < i /\ (n < Len(at) => i < at[n + 1])}
           rules(n) == InOrder({i \in in(n) : f[i].key = "topic"})
           topics(n) == [r \in DOMAIN rules(n) |-> parseTopic(f[rules(n)[r]].values)]
<1>0. "connection" \notin connectionKeys
  BY DEF connectionKeys
<1>1. {i \in mine : f[i].key = "connection"} = C
  BY <1>0 DEF connectionItems, Lines, IsConnectionKey
<1>2. bridgesParse(f) = [n \in DOMAIN at |->
         [name      |-> f[at[n]].values[1],
          address   |-> applyOption(f, in(n), "address"),
          password  |-> applyOption(f, in(n), "remote_password"),
          keepalive |-> applyOption(f, in(n), "keepalive_interval"),
          topics    |-> topics(n)]]
  BY <1>1, Zenon DEF bridgesParse
<1>3. /\ Lineset(C) /\ 0 \notin C /\ C \subseteq Outside(f) /\ Outside(f) \subseteq DOMAIN f /\ C \subseteq Nat
      /\ DOMAIN f \subseteq Nat
  BY ConnectionLines, FileFacts DEF Lineset
<1>4. /\ N \in Nat /\ Len(at) = N /\ DOMAIN at = 1..N
      /\ \A n \in 1..N : at[n] \in C /\ Rank(C, at[n]) = n
      /\ \A i \in C : at[Rank(C, i)] = i /\ Rank(C, i) \in 1..N
      /\ \A i, j \in C : i < j => Rank(C, i) < Rank(C, j)
  BY <1>3, Ordered, RankFacts
<1> HIDE DEF at, N
<1>5. ASSUME NEW n \in 1..N, NEW i \in DOMAIN f, f[i].key \in connectionKeys
      PROVE  i \in in(n) <=> i \in OptionsOf(f, at[n])
  <2>1. i \in Nat /\ at[n] \in C /\ at[n] \in Nat /\ i \notin C
    BY <1>0, <1>3, <1>4, <1>5 DEF Lines
  <2>2. Scope(C, i) = at[n] <=> at[n] < i /\ \A j \in C : j < i => j <= at[n]
    BY <1>3, <2>1, ScopeIs
  <2>3. i \in OptionsOf(f, at[n]) <=> i \in Outside(f) /\ Scope(C, i) = at[n]
    BY <1>5 DEF OptionsOf
  <2>4. at[n] < i => (i \in mine <=> i \in Outside(f))
    BY <1>3, <1>5, <2>1 DEF connectionItems, Lines, IsConnectionKey
  <2>5. at[n] < i => ((n < N => i < at[n + 1]) <=> \A j \in C : j < i => j <= at[n])
    <3>1. ASSUME at[n] < i, n < N => i < at[n + 1], NEW j \in C, j < i PROVE j <= at[n]
      <4> DEFINE r == Rank(C, j)
      <4>1. r \in 1..N /\ at[r] = j /\ j \in Nat
        BY <1>3, <1>4
      <4>2. \A x \in 1..N : j < at[x] => r < x
        BY <1>4
      <4>3. \A x \in 1..N : at[x] < j => x < r
        BY <1>4
      <4> HIDE DEF r
      <4>4. CASE n < N
        <5>1. n + 1 \in 1..N /\ at[n + 1] \in Nat
          BY <1>3, <1>4, <4>4
        <5>2. j < at[n + 1]
          BY <3>1, <4>1, <4>4, <5>1, <2>1
        <5>3. r < n + 1
          BY <4>2, <5>1, <5>2
        <5>4. ~(at[n] < j)
          BY <4>1, <4>3, <5>3, <1>4
        <5> QED BY <4>1, <5>4, <2>1
      <4>5. CASE ~(n < N)
        <5>1. ~(at[n] < j)
          BY <4>1, <4>3, <4>5, <1>4
        <5> QED BY <4>1, <5>1, <2>1
      <4> QED BY <4>4, <4>5
    <3>2. ASSUME at[n] < i, \A j \in C : j < i => j <= at[n], n < N PROVE i < at[n + 1]
      <4>1. n + 1 \in 1..N /\ at[n + 1] \in C /\ at[n + 1] \in Nat /\ n \in Nat
        BY <1>3, <1>4, <3>2
      <4>2. at[n + 1] # i
        BY <2>1, <4>1
      <4>3. ~(at[n + 1] <= at[n])
        <5>1. Rank(C, at[n + 1]) = n + 1 /\ Rank(C, at[n]) = n
          BY <1>4, <4>1
        <5>2. ~(at[n + 1] < at[n])
          BY <1>4, <2>1, <4>1, <5>1
        <5>3. at[n + 1] # at[n]
          BY <4>1, <5>1
        <5> QED BY <2>1, <4>1, <5>2, <5>3
      <4>4. ~(at[n + 1] < i)
        BY <3>2, <4>1, <4>3
      <4> QED BY <2>1, <4>1, <4>2, <4>4
    <3> QED BY <3>1, <3>2
  <2>6. i \in in(n) <=> i \in mine /\ at[n] < i /\ (n < N => i < at[n + 1])
    BY <1>4
  <2> HIDE DEF in, mine, C
  <2> QED BY <2>2, <2>3, <2>4, <2>5, <2>6, Zenon
<1>6. \A n \in 1..N : in(n) \subseteq DOMAIN f /\ OptionsOf(f, at[n]) \subseteq DOMAIN f
  BY ConnectionLines DEF connectionItems
<1> HIDE DEF in
<1>7. ASSUME NEW n \in 1..N, NEW key \in connectionKeys
      PROVE  {i \in in(n) : f[i].key = key} = {i \in OptionsOf(f, at[n]) : f[i].key = key}
  BY <1>5, <1>6
<1>8. ASSUME NEW n \in 1..N, NEW key \in connectionKeys
      PROVE  applyOption(f, in(n), key) = applyOption(f, OptionsOf(f, at[n]), key)
  <2>1. {i \in in(n) : f[i].key = key} = {i \in OptionsOf(f, at[n]) : f[i].key = key}
    BY <1>7
  <2>2. {i \in in(n) : f[i].key = key /\ (key = "address" => f[i].values[1] # "")}
        = {i \in OptionsOf(f, at[n]) : f[i].key = key /\ (key = "address" => f[i].values[1] # "")}
    BY <2>1
  <2> QED BY <2>2, Zenon DEF applyOption
<1>9. "address" \in connectionKeys /\ "remote_password" \in connectionKeys /\ "keepalive_interval" \in connectionKeys
      /\ "topic" \in connectionKeys
  BY DEF connectionKeys
<1>10. \A n \in 1..N : topics(n) = Topics(f, OptionsOf(f, at[n]))
  BY <1>7, <1>9, Zenon DEF Topics
<1> HIDE DEF topics
<1>11. bridgesParse(f) = [n \in DOMAIN at |-> FormSection(f, at[n], OptionsOf(f, at[n]))]
  <2>1. \A n \in 1..N : applyOption(f, in(n), "address") = applyOption(f, OptionsOf(f, at[n]), "address")
    BY <1>8, <1>9
  <2>2. \A n \in 1..N : applyOption(f, in(n), "remote_password") = applyOption(f, OptionsOf(f, at[n]), "remote_password")
    BY <1>8, <1>9
  <2>3. \A n \in 1..N : applyOption(f, in(n), "keepalive_interval") = applyOption(f, OptionsOf(f, at[n]), "keepalive_interval")
    BY <1>8, <1>9
  <2> QED BY <1>2, <1>4, <1>10, <2>1, <2>2, <2>3 DEF FormSection, SectionAt
<1> QED BY <1>11 DEF at

\* Two sets of lines, one of them the other one moved.
Moves(h, S, T) == h \in [S -> T] /\ (\A i, j \in S : i < j => h[i] < h[j]) /\ \A t \in T : \E i \in S : h[i] = t

LEMMA MovedCard ==
    ASSUME NEW S, NEW T, NEW h, Lineset(S), T \subseteq Nat, Moves(h, S, T)
    PROVE  Lineset(T) /\ Cardinality(T) = Cardinality(S)
<1>1. \A i, j \in S : h[i] = h[j] => i = j
  <2> SUFFICES ASSUME NEW i \in S, NEW j \in S, h[i] = h[j], i # j PROVE FALSE
    OBVIOUS
  <2>1. i \in Nat /\ j \in Nat /\ h[i] \in Nat /\ h[j] \in Nat
    BY DEF Moves, Lineset
  <2>2. i < j \/ j < i
    BY <2>1
  <2> QED BY <2>1, <2>2 DEF Moves
<1>2. h \in Bijection(S, T)
  BY <1>1 DEF Moves, Bijection, Injection, Surjection, IsInjective
<1>3. ExistsBijection(S, T)
  BY <1>2 DEF ExistsBijection
<1> QED BY <1>3, FS_Bijection DEF Lineset

\* Lines moved without overtaking one another keep their order.
LEMMA MovedOrder ==
    ASSUME NEW S, NEW T, NEW h, Lineset(S), T \subseteq Nat, Moves(h, S, T)
    PROVE  /\ Lineset(T) /\ Cardinality(T) = Cardinality(S)
           /\ InOrder(T) = [n \in DOMAIN InOrder(S) |-> h[InOrder(S)[n]]]
           /\ \A i \in S : Rank(T, h[i]) = Rank(S, i)
<1>1. Lineset(T) /\ Cardinality(T) = Cardinality(S)
  BY MovedCard
<1>2. ASSUME NEW i \in S PROVE Rank(T, h[i]) = Rank(S, i)
  <2> DEFINE A == {j \in S : j <= i}
             B == {t \in T : t <= h[i]}
             k == [j \in A |-> h[j]]
  <2>0. \A j \in S : h[j] \in T /\ h[j] \in Nat /\ j \in Nat
    BY DEF Moves, Lineset
  <2>1. \A j \in S : j <= i <=> h[j] <= h[i]
    <3> SUFFICES ASSUME NEW j \in S PROVE j <= i <=> h[j] <= h[i]
      OBVIOUS
    <3>1. h[j] \in Nat /\ h[i] \in Nat /\ i \in Nat /\ j \in Nat
      BY <2>0
    <3>2. (j < i => h[j] < h[i]) /\ (i < j => h[i] < h[j])
      BY DEF Moves
    <3> QED BY <3>1, <3>2
  <2>2. Lineset(A) /\ B \subseteq Nat
    BY FS_Subset DEF Lineset, Moves
  <2>3. Moves(k, A, B)
    BY <2>0, <2>1 DEF Moves
  <2>4. Cardinality(B) = Cardinality(A)
    <3> HIDE DEF k, A, B
    <3> QED BY <2>2, <2>3, MovedCard
  <2> QED BY <2>4 DEF Rank
<1>3. /\ DOMAIN InOrder(S) = 1..Cardinality(S) /\ DOMAIN InOrder(T) = 1..Cardinality(S)
      /\ \A n \in 1..Cardinality(S) : InOrder(S)[n] \in S /\ Rank(S, InOrder(S)[n]) = n
      /\ \A t \in T : InOrder(T)[Rank(T, t)] = t
  BY <1>1, Ordered
<1>4. ASSUME NEW n \in 1..Cardinality(S) PROVE InOrder(T)[n] = h[InOrder(S)[n]]
  <2>1. InOrder(S)[n] \in S /\ h[InOrder(S)[n]] \in T /\ Rank(T, h[InOrder(S)[n]]) = n
    BY <1>2, <1>3 DEF Moves
  <2> QED BY <1>3, <2>1
<1>5. InOrder(T) = [n \in DOMAIN InOrder(T) |-> InOrder(T)[n]]
  BY DEF InOrder
<1> QED BY <1>1, <1>2, <1>3, <1>4, <1>5

\* A strictly increasing sequence of lines is its set in order.
LEMMA OrderUnique ==
    ASSUME NEW N \in Nat, NEW S, S \subseteq Nat, NEW s, Moves(s, 1..N, S)
    PROVE  Lineset(S) /\ Cardinality(S) = N /\ InOrder(S) = s
<1>0. ASSUME NEW n \in Nat PROVE Cardinality(1..n) = n
  <2>1. Cardinality(1..n) = IF 1 > n THEN 0 ELSE n - 1 + 1
    BY FS_Interval
  <2> QED BY <2>1
<1>1. Lineset(1..N) /\ Cardinality(1..N) = N
  BY <1>0, LinesOf
<1>2. /\ Lineset(S) /\ Cardinality(S) = N /\ InOrder(S) = [n \in DOMAIN InOrder(1..N) |-> s[InOrder(1..N)[n]]]
      /\ DOMAIN InOrder(1..N) = 1..N
  BY <1>1, MovedOrder, Ordered
<1>3. \A n \in 1..N : Rank(1..N, n) = n
  <2> SUFFICES ASSUME NEW n \in 1..N PROVE Rank(1..N, n) = n
    OBVIOUS
  <2>1. {j \in 1..N : j <= n} = 1..n
    OBVIOUS
  <2>2. Cardinality({j \in 1..N : j <= n}) = n
    <3>1. n \in Nat
      OBVIOUS
    <3>2. Cardinality(1..n) = n
      BY <1>0, <3>1
    <3> QED BY <2>1, <3>2, Zenon
  <2> QED BY <2>2 DEF Rank
<1>4. \A n \in 1..N : InOrder(1..N)[n] = n
  BY <1>1, <1>3, Ordered
<1>5. s \in [1..N -> S]
  BY DEF Moves
<1> QED BY <1>2, <1>4, <1>5

\* Sections that are moved as a whole.
LEMMA MovedMax ==
    ASSUME NEW S, NEW T, NEW h, Lineset(S), S # {}, T \subseteq Nat, Moves(h, S, T)
    PROVE  Max(T) = h[Max(S)] /\ Max(S) \in S
<1>1. Lineset(T) /\ Max(S) \in S /\ \A i \in S : i <= Max(S)
  BY MovedCard, MaxFacts
<1>2. h[Max(S)] \in T
  BY <1>1 DEF Moves
<1>3. Max(T) \in T /\ \A t \in T : t <= Max(T)
  BY <1>1, <1>2, MaxFacts
<1>4. PICK i \in S : h[i] = Max(T)
  BY <1>3 DEF Moves
<1>5. i \in Nat /\ Max(S) \in Nat /\ h[i] \in Nat /\ h[Max(S)] \in Nat /\ Max(T) \in Nat
  BY <1>1, <1>2, <1>3, <1>4 DEF Lineset
<1>6. i < Max(S) => h[i] < h[Max(S)]
  BY <1>1 DEF Moves
<1>7. i = Max(S)
  BY <1>1, <1>2, <1>3, <1>4, <1>5, <1>6
<1> QED BY <1>1, <1>4, <1>7

SameOptions(f, S, g, T) ==
    /\ \A key : applyOption(g, T, key) = applyOption(f, S, key)
    /\ Topics(g, T) = Topics(f, S)
    /\ Remotes(g, T) = Remotes(f, S)

LEMMA MovedSection ==
    ASSUME NEW f, NEW g, NEW S, NEW T, NEW h, Lineset(S), T \subseteq Nat, Moves(h, S, T),
           \A i \in S : g[h[i]].key = f[i].key /\ g[h[i]].values = f[i].values
    PROVE  SameOptions(f, S, g, T)
<1>1. ASSUME NEW key
      PROVE  LET A == {i \in S : f[i].key = key}
                 B == {t \in T : g[t].key = key}
             IN  Lineset(A) /\ B \subseteq Nat /\ Moves([i \in A |-> h[i]], A, B)
  <2> DEFINE A == {i \in S : f[i].key = key}
             B == {t \in T : g[t].key = key}
  <2>1. Lineset(A) /\ B \subseteq Nat
    BY FS_Subset DEF Lineset
  <2>2. Moves([i \in A |-> h[i]], A, B)
    BY DEF Moves
  <2> QED BY <2>1, <2>2
<1>2. ASSUME NEW key PROVE applyOption(g, T, key) = applyOption(f, S, key)
  <2> DEFINE A == {i \in S : f[i].key = key /\ (key = "address" => f[i].values[1] # "")}
             B == {t \in T : g[t].key = key /\ (key = "address" => g[t].values[1] # "")}
             k == [i \in A |-> h[i]]
  <2>1. Lineset(A) /\ B \subseteq Nat /\ Moves(k, A, B)
    <3>1. Lineset(A) /\ B \subseteq Nat
      BY FS_Subset DEF Lineset
    <3>2. \A i \in A : h[i] \in B
      BY DEF Moves
    <3>3. ASSUME NEW t \in B PROVE \E i \in A : h[i] = t
      <4>1. PICK i \in S : h[i] = t
        BY DEF Moves
      <4>2. g[t].key = f[i].key /\ g[t].values = f[i].values
        BY <4>1
      <4>3. i \in A
        BY <4>2
      <4> QED BY <4>1, <4>3
    <3>4. A \subseteq S /\ \A i, j \in S : i < j => h[i] < h[j]
      BY DEF Moves
    <3> HIDE DEF A, B
    <3>5. Moves(k, A, B)
      BY <3>2, <3>3, <3>4 DEF Moves
    <3> QED BY <3>1, <3>5
  <2>2. A = {} <=> B = {}
    BY <2>1 DEF Moves
  <2>3. A # {} => g[Max(B)].values = f[Max(A)].values
    <3> SUFFICES ASSUME A # {} PROVE g[Max(B)].values = f[Max(A)].values
      OBVIOUS
    <3>1. Max(B) = k[Max(A)] /\ Max(A) \in A
      <4> HIDE DEF A, B, k
      <4> QED BY <2>1, MovedMax
    <3>2. Max(A) \in S /\ Max(B) = h[Max(A)]
      BY <3>1
    <3> QED BY <3>2
  <2>4. applyOption(g, T, key) = IF B = {} THEN "" ELSE g[Max(B)].values[1]
    BY DEF applyOption
  <2>5. applyOption(f, S, key) = IF A = {} THEN "" ELSE f[Max(A)].values[1]
    BY DEF applyOption
  <2> HIDE DEF A, B
  <2>6. CASE A = {}
    BY <2>2, <2>4, <2>5, <2>6
  <2>7. CASE A # {}
    <3>1. applyOption(g, T, key) = g[Max(B)].values[1] /\ applyOption(f, S, key) = f[Max(A)].values[1]
      BY <2>2, <2>4, <2>5, <2>7
    <3> QED BY <2>3, <2>7, <3>1
  <2> QED BY <2>6, <2>7
<1>3. Topics(g, T) = Topics(f, S)
  <2> DEFINE A == {i \in S : f[i].key = "topic"}
             B == {t \in T : g[t].key = "topic"}
             k == [i \in A |-> h[i]]
             a == InOrder(A)
             b == InOrder(B)
  <2>1. Lineset(A) /\ B \subseteq Nat /\ Moves(k, A, B)
    BY <1>1
  <2>2. b = [n \in DOMAIN a |-> k[a[n]]] /\ \A n \in DOMAIN a : a[n] \in A
    <3> HIDE DEF A, B, k
    <3> QED BY <2>1, MovedOrder, Ordered
  <2>3. \A n \in DOMAIN a : parseTopic(g[b[n]].values) = parseTopic(f[a[n]].values)
    <3>1. \A n \in DOMAIN a : g[b[n]].values = f[a[n]].values
      BY <2>2
    <3> QED BY <3>1
  <2>4. /\ Topics(g, T) = [n \in DOMAIN b |-> parseTopic(g[b[n]].values)]
        /\ Topics(f, S) = [n \in DOMAIN a |-> parseTopic(f[a[n]].values)]
    BY Zenon DEF Topics
  <2> HIDE DEF a, b
  <2>5. DOMAIN b = DOMAIN a
    BY <2>2
  <2> QED BY <2>3, <2>4, <2>5
<1>4. Remotes(g, T) = Remotes(f, S)
  <2> DEFINE A == AddressLines(f, S)
             B == AddressLines(g, T)
  <2>1. \A i \in A : h[i] \in B /\ g[h[i]].values = f[i].values
    BY DEF Moves, AddressLines
  <2>2. \A t \in B : \E i \in A : g[t].values = f[i].values
    BY DEF Moves, AddressLines
  <2> HIDE DEF A, B
  <2>3. UNION {Range(g[t].values) : t \in B} = UNION {Range(f[i].values) : i \in A}
    <3>1. {Range(g[t].values) : t \in B} = {Range(f[i].values) : i \in A}
      BY <2>1, <2>2
    <3> QED BY <3>1
  <2> QED BY <2>3, Zenon DEF Remotes, Addresses, A, B
<1> QED BY <1>2, <1>3, <1>4 DEF SameOptions

-----------------------------------------------------------------------------
(* A rendered bridge reads as the bridge.                                 *)

Bridge == [name : Text, address : Text, password : Text, keepalive : Text, topics : Seq(Rule)]

\* A line can say the rule: its remote prefix follows a local one.
Told(rule) == rule.remote # "" => rule.local # ""

AllTold(b) == \A r \in DOMAIN b.topics : Told(b.topics[r])

TopicValues(rule) ==
    IF rule.local = "" THEN <<rule.topic, rule.direction>>
    ELSE IF rule.remote = "" THEN <<rule.topic, rule.direction, rule.local>>
    ELSE <<rule.topic, rule.direction, rule.local, rule.remote>>

\* What renderTopic writes is what parseTopic reads, for a rule a line can say.
LEMMA RuleRead ==
    ASSUME NEW rule \in Rule
    PROVE  /\ TopicValues(rule) \in Seq(Text) /\ TopicValues(rule) # <<>>
           /\ Told(rule) => parseTopic(TopicValues(rule)) = rule
<1> DEFINE t == rule.topic
           d == rule.direction
           l == rule.local
           m == rule.remote
<1>1. t \in Text /\ d \in Text /\ l \in Text /\ m \in Text
  BY DEF Rule
<1>2. rule = [topic |-> t, direction |-> d, local |-> l, remote |-> m]
  BY DEF Rule
<1> HIDE DEF t, d, l, m
<1>3. TopicValues(rule) = IF l = "" THEN <<t, d>> ELSE IF m = "" THEN <<t, d, l>> ELSE <<t, d, l, m>>
  BY Zenon DEF TopicValues, t, d, l, m
<1>4. TopicValues(rule) \in Seq(Text) /\ TopicValues(rule) # <<>>
  <2>1. <<t, d>> \in Seq(Text) /\ <<t, d, l>> \in Seq(Text) /\ <<t, d, l, m>> \in Seq(Text)
    BY <1>1
  <2>2. <<t, d>> # <<>> /\ <<t, d, l>> # <<>> /\ <<t, d, l, m>> # <<>>
    OBVIOUS
  <2> QED BY <1>3, <2>1, <2>2, Zenon
<1>5. ASSUME Told(rule) PROVE parseTopic(TopicValues(rule)) = rule
  <2>1. m # "" => l # ""
    BY <1>5 DEF Told, l, m
  <2>2. parseTopic(<<t, d>>) = [topic |-> t, direction |-> d, local |-> "", remote |-> ""]
    BY DEF parseTopic
  <2>3. parseTopic(<<t, d, l>>) = [topic |-> t, direction |-> d, local |-> l, remote |-> ""]
    BY DEF parseTopic
  <2>4. parseTopic(<<t, d, l, m>>) = [topic |-> t, direction |-> d, local |-> l, remote |-> m]
    BY DEF parseTopic
  <2>5. CASE l = ""
    <3>1. m = "" /\ TopicValues(rule) = <<t, d>>
      BY <1>3, <2>1, <2>5
    <3> QED BY <1>2, <2>2, <2>5, <3>1, Zenon
  <2>6. CASE l # "" /\ m = ""
    <3>1. TopicValues(rule) = <<t, d, l>>
      BY <1>3, <2>6
    <3> QED BY <1>2, <2>3, <2>6, <3>1, Zenon
  <2>7. CASE l # "" /\ m # ""
    <3>1. TopicValues(rule) = <<t, d, l, m>>
      BY <1>3, <2>7
    <3> QED BY <1>2, <2>4, <3>1, Zenon
  <2> QED BY <2>5, <2>6, <2>7
<1> QED BY <1>4, <1>5

\* A line of a rendered section.
IsLine(x, key, values) == x \in Item /\ x.kind = "directive" /\ x.key = key /\ x.values = values

LEMMA LineMade ==
    ASSUME NEW key, key \in connectionKeys \cup {"connection"}, NEW values \in Seq(Text), values # <<>>
    PROVE  IsLine(Directive(key, values), key, values) /\ IsLine(Option(key, values), key, values)
<1>0. key \in Keyword
  BY ConfAssumption
<1>1. key \notin {"plugin", ConfigFile, OtherOption}
  BY DEF connectionKeys, ConfigFile, OtherOption
<1>2. ASSUME NEW b \in BOOLEAN
      PROVE  IsLine([kind |-> "directive", key |-> key, values |-> values, indent |-> b], key, values)
  <2> DEFINE x == [kind |-> "directive", key |-> key, values |-> values, indent |-> b]
  <2>1. x \in [kind : {"directive", "open", "close"}, key : Keyword, values : Seq(Text), indent : BOOLEAN]
    BY <1>0
  <2>2. x.kind = "directive" /\ x.key = key /\ x.values = values
    OBVIOUS
  <2> HIDE DEF x
  <2>3. x \in Item
    BY <1>1, <2>1, <2>2 DEF Item
  <2>4. IsLine(x, key, values)
    BY <2>2, <2>3 DEF IsLine
  <2> QED BY <2>4 DEF x
<1>3. TRUE \in BOOLEAN /\ FALSE \in BOOLEAN
  OBVIOUS
<1> QED BY <1>2, <1>3, Zenon DEF Directive, Option

LEMMA OptionLines ==
    ASSUME NEW key \in connectionKeys, NEW value \in Text
    PROVE  /\ optionLine(key, value) \in File
           /\ value = "" => Len(optionLine(key, value)) = 0
           /\ value # "" => Len(optionLine(key, value)) = 1 /\ IsLine(optionLine(key, value)[1], key, <<value>>)
<1>1. CASE value = ""
  <2>1. optionLine(key, value) = <<>>
    BY <1>1 DEF optionLine
  <2>2. <<>> \in File /\ Len(<<>>) = 0
    BY DEF File
  <2> QED BY <1>1, <2>1, <2>2
<1>2. CASE value # ""
  <2> DEFINE x == Option(key, <<value>>)
  <2>1. optionLine(key, value) = <<x>>
    BY <1>2 DEF optionLine
  <2>2. IsLine(x, key, <<value>>)
    <3>1. key \in connectionKeys \cup {"connection"}
      OBVIOUS
    <3>2. <<value>> \in Seq(Text) /\ <<value>> # <<>>
      OBVIOUS
    <3> QED BY <3>1, <3>2, LineMade
  <2> HIDE DEF x
  <2>3. x \in Item
    BY <2>2 DEF IsLine
  <2>4. <<x>> \in File /\ Len(<<x>>) = 1 /\ <<x>>[1] = x
    BY <2>3 DEF File
  <2> QED BY <1>2, <2>1, <2>2, <2>4, Zenon
<1> QED BY <1>1, <1>2

LEMMA FileConcat ==
    ASSUME NEW s \in File, NEW t \in File
    PROVE  /\ s \o t \in File /\ Len(s \o t) = Len(s) + Len(t)
           /\ \A j \in 1..Len(s) : (s \o t)[j] = s[j]
           /\ \A k \in 1..Len(t) : (s \o t)[Len(s) + k] = t[k]
BY Concat DEF File

\* Five pieces one after another.
Joined(w, p, q, r, s, t, b, c, d) ==
    /\ w \in File /\ Len(w) = d + Len(t) /\ b \in Nat /\ c \in Nat /\ d \in Nat /\ Len(t) \in Nat
    /\ \A k \in 1..Len(p) : w[k] = p[k]
    /\ \A k \in 1..Len(q) : w[Len(p) + k] = q[k]
    /\ \A k \in 1..Len(r) : w[b + k] = r[k]
    /\ \A k \in 1..Len(s) : w[c + k] = s[k]
    /\ \A k \in 1..Len(t) : w[d + k] = t[k]

LEMMA FivePieces ==
    ASSUME NEW p \in File, NEW q \in File, NEW r \in File, NEW s \in File, NEW t \in File,
           NEW w, w = p \o q \o r \o s \o t,
           NEW b, b = Len(p) + Len(q), NEW c, c = b + Len(r), NEW d, d = c + Len(s)
    PROVE  Joined(w, p, q, r, s, t, b, c, d)
<1> DEFINE u == p \o q
           v == u \o r
           x == v \o s
           a == Len(p)
<1>0. a \in Nat /\ Len(q) \in Nat /\ Len(r) \in Nat /\ Len(s) \in Nat /\ Len(t) \in Nat /\ b = a + Len(q)
  BY DEF File
<1>w. w = x \o t
  OBVIOUS
<1> HIDE DEF a
<1>1. u \in File /\ Len(u) = b /\ (\A k \in 1..a : u[k] = p[k]) /\ \A k \in 1..Len(q) : u[a + k] = q[k]
  BY FileConcat DEF a
<1> HIDE DEF u
<1>2. v \in File /\ Len(v) = c /\ (\A k \in 1..b : v[k] = u[k]) /\ \A k \in 1..Len(r) : v[b + k] = r[k]
  <2>1. /\ v \in File /\ Len(v) = Len(u) + Len(r) /\ (\A k \in 1..Len(u) : v[k] = u[k])
        /\ \A k \in 1..Len(r) : v[Len(u) + k] = r[k]
    BY <1>1, FileConcat
  <2> HIDE DEF v
  <2>2. Len(u) = b
    BY <1>1
  <2> QED BY <2>1, <2>2
<1> HIDE DEF v
<1>3. x \in File /\ Len(x) = d /\ (\A k \in 1..c : x[k] = v[k]) /\ \A k \in 1..Len(s) : x[c + k] = s[k]
  <2>1. /\ x \in File /\ Len(x) = Len(v) + Len(s) /\ (\A k \in 1..Len(v) : x[k] = v[k])
        /\ \A k \in 1..Len(s) : x[Len(v) + k] = s[k]
    BY <1>2, FileConcat
  <2> HIDE DEF x
  <2>2. Len(v) = c
    BY <1>2
  <2> QED BY <2>1, <2>2
<1> HIDE DEF x
<1>4. w \in File /\ Len(w) = d + Len(t) /\ (\A k \in 1..d : w[k] = x[k]) /\ \A k \in 1..Len(t) : w[d + k] = t[k]
  <2>1. /\ w \in File /\ Len(w) = Len(x) + Len(t) /\ (\A k \in 1..Len(x) : w[k] = x[k])
        /\ \A k \in 1..Len(t) : w[Len(x) + k] = t[k]
    <3>1. LET y == x \o t
          IN  /\ y \in File /\ Len(y) = Len(x) + Len(t) /\ (\A k \in 1..Len(x) : y[k] = x[k])
              /\ \A k \in 1..Len(t) : y[Len(x) + k] = t[k]
      BY <1>3, FileConcat
    <3> QED BY <1>w, <3>1, Zenon
  <2>2. Len(x) = d
    BY <1>3
  <2> QED BY <2>1, <2>2
<1>5. b \in Nat /\ c \in Nat /\ d \in Nat
  BY <1>0
<1>6. \A k \in 1..a : k \in 1..b /\ k \in 1..c /\ k \in 1..d
  BY <1>0
<1>7. \A k \in 1..Len(q) : a + k \in 1..b /\ a + k \in 1..c /\ a + k \in 1..d
  BY <1>0
<1>8. \A k \in 1..Len(r) : b + k \in 1..c /\ b + k \in 1..d
  BY <1>0
<1>9. \A k \in 1..Len(s) : c + k \in 1..d
  BY <1>0
<1>10. \A k \in 1..a : w[k] = p[k]
  BY <1>1, <1>2, <1>3, <1>4, <1>6
<1>11. \A k \in 1..Len(q) : w[a + k] = q[k]
  BY <1>1, <1>2, <1>3, <1>4, <1>7
<1>12. \A k \in 1..Len(r) : w[b + k] = r[k]
  BY <1>2, <1>3, <1>4, <1>8
<1>13. \A k \in 1..Len(s) : w[c + k] = s[k]
  BY <1>3, <1>4, <1>9
<1> QED BY <1>0, <1>4, <1>5, <1>10, <1>11, <1>12, <1>13 DEF a, Joined

\* Where a line stands that has one key only.
LEMMA OnePlace ==
    ASSUME NEW w, NEW S, NEW key \in connectionKeys, key # "address", NEW value \in Text, NEW lo \in Nat,
           \A k \in S : w[k].key = key <=> k \in (lo + 1)..(lo + Len(optionLine(key, value))),
           (lo + 1)..(lo + Len(optionLine(key, value))) \subseteq S,
           \A k \in 1..Len(optionLine(key, value)) : w[lo + k] = optionLine(key, value)[k]
    PROVE  applyOption(w, S, key) = value
<1> DEFINE A == {k \in S : w[k].key = key}
<1>1. A = (lo + 1)..(lo + Len(optionLine(key, value)))
  OBVIOUS
<1>2. applyOption(w, S, key) = IF A = {} THEN "" ELSE w[Max(A)].values[1]
  <2>1. {k \in S : w[k].key = key /\ (key = "address" => w[k].values[1] # "")} = A
    BY Zenon
  <2> QED BY <2>1, Zenon DEF applyOption
<1> HIDE DEF A
<1>3. CASE value = ""
  <2>1. Len(optionLine(key, value)) = 0
    BY <1>3, OptionLines
  <2>2. A = {}
    BY <1>1, <2>1
  <2> QED BY <1>2, <1>3, <2>2
<1>4. CASE value # ""
  <2>1. Len(optionLine(key, value)) = 1 /\ IsLine(optionLine(key, value)[1], key, <<value>>)
    BY <1>4, OptionLines
  <2>2. A = {lo + 1}
    BY <1>1, <2>1
  <2>a. lo + 1 \in Nat
    OBVIOUS
  <2>b. Lineset({lo + 1})
    BY <2>a, FS_Singleton DEF Lineset
  <2>3. Lineset(A) /\ A # {}
    BY <2>2, <2>b
  <2>c. Max(A) \in A
    BY <2>3, MaxFacts
  <2>4. Max(A) = lo + 1
    BY <2>2, <2>c
  <2>5. w[lo + 1].values = <<value>>
    BY <2>1 DEF IsLine
  <2>6. applyOption(w, S, key) = w[lo + 1].values[1]
    BY <1>2, <2>2, <2>4
  <2> QED BY <2>5, <2>6
<1> QED BY <1>3, <1>4

\* The one address line of a rendered section.
LEMMA OneRemote ==
    ASSUME NEW w, NEW S, NEW value \in Text, NEW lo \in Nat,
           \A k \in S : w[k].key \in {"address", "addresses"}
                         <=> k \in (lo + 1)..(lo + Len(optionLine("address", value))),
           (lo + 1)..(lo + Len(optionLine("address", value))) \subseteq S,
           \A k \in 1..Len(optionLine("address", value)) : w[lo + k] = optionLine("address", value)[k]
    PROVE  AddressList(Remotes(w, S)) = value
<1> DEFINE A == AddressLines(w, S)
<1>0. "address" \in connectionKeys
  BY DEF connectionKeys
<1>1. A = (lo + 1)..(lo + Len(optionLine("address", value)))
  BY DEF AddressLines
<1>2. Remotes(w, S) = {v \in UNION {Range(w[i].values) : i \in A} : v # ""}
  BY Zenon DEF Remotes, Addresses
<1> HIDE DEF A
<1>3. CASE value = ""
  <2>1. Len(optionLine("address", value)) = 0
    BY <1>0, <1>3, OptionLines
  <2>2. A = {}
    BY <1>1, <2>1
  <2>3. Remotes(w, S) = {}
    BY <1>2, <2>2
  <2> QED BY <1>3, <2>3, Zenon DEF AddressList
<1>4. CASE value # ""
  <2>1. Len(optionLine("address", value)) = 1 /\ IsLine(optionLine("address", value)[1], "address", <<value>>)
    BY <1>0, <1>4, OptionLines
  <2>2. A = {lo + 1}
    BY <1>1, <2>1
  <2>3. w[lo + 1].values = <<value>>
    BY <2>1 DEF IsLine
  <2>4. Range(<<value>>) = {value}
    BY DEF Range
  <2>5. UNION {Range(w[i].values) : i \in A} = {value}
    <3>1. {Range(w[i].values) : i \in A} = {{value}}
      BY <2>2, <2>3, <2>4
    <3> QED BY <3>1
  <2>6. Remotes(w, S) = {value}
    BY <1>2, <1>4, <2>5
  <2>7. AddressList({value}) = value
    BY DEF AddressList
  <2> QED BY <2>6, <2>7
<1> QED BY <1>3, <1>4

LEMMA OptionKinds ==
    ASSUME NEW key \in connectionKeys, NEW value \in Text
    PROVE  \A k \in 1..Len(optionLine(key, value)) :
              optionLine(key, value)[k].key = key /\ optionLine(key, value)[k].kind = "directive"
<1>1. CASE value = ""
  <2>1. Len(optionLine(key, value)) = 0
    BY <1>1, OptionLines
  <2>2. \A k \in 1..0 : FALSE
    OBVIOUS
  <2> QED BY <2>1, <2>2
<1>2. CASE value # ""
  <2>1. Len(optionLine(key, value)) = 1 /\ IsLine(optionLine(key, value)[1], key, <<value>>)
    BY <1>2, OptionLines
  <2>2. \A k \in 1..1 : k = 1
    OBVIOUS
  <2> QED BY <2>1, <2>2 DEF IsLine
<1> QED BY <1>1, <1>2

\* The section rendered for a bridge reads as that bridge, if lines can say it.
LEMMA RenderedBridge ==
    ASSUME NEW b \in Bridge
    PROVE  LET w == renderBridge(b)
           IN  /\ w \in File /\ Len(w) \in Nat /\ 1 <= Len(w)
               /\ \A k \in 1..Len(w) : w[k].kind = "directive"
               /\ w[1].key = "connection" /\ \A k \in 2..Len(w) : w[k].key \in connectionKeys
               /\ AllTold(b) => Section(w, 1, 2..Len(w)) = b
<1> DEFINE p == <<Directive("connection", <<b.name>>)>>
           q == optionLine("address", b.address)
           r == optionLine("remote_password", b.password)
           s == optionLine("keepalive_interval", b.keepalive)
           t == [i \in DOMAIN b.topics |-> renderTopic(b.topics[i])]
           w == renderBridge(b)
           lb == 1 + Len(q)
           lc == lb + Len(r)
           ld == lc + Len(s)
           T == Len(t)
<1>0. b.name \in Text /\ b.address \in Text /\ b.password \in Text /\ b.keepalive \in Text
  BY DEF Bridge
<1>b. b.topics \in Seq(Rule)
  BY DEF Bridge
<1>a. "address" \in connectionKeys /\ "remote_password" \in connectionKeys /\ "keepalive_interval" \in connectionKeys
      /\ "topic" \in connectionKeys
  BY DEF connectionKeys
<1>1. p \in File /\ Len(p) = 1 /\ IsLine(p[1], "connection", <<b.name>>)
  <2> DEFINE x == Directive("connection", <<b.name>>)
  <2>1. IsLine(x, "connection", <<b.name>>)
    <3>1. "connection" \in connectionKeys \cup {"connection"} /\ <<b.name>> \in Seq(Text) /\ <<b.name>> # <<>>
      BY <1>0
    <3> QED BY <3>1, LineMade
  <2> HIDE DEF x
  <2>2. x \in Item
    BY <2>1 DEF IsLine
  <2>3. <<x>> \in File /\ Len(<<x>>) = 1 /\ <<x>>[1] = x
    BY <2>2 DEF File
  <2> QED BY <2>1, <2>3, Zenon DEF x
<1>2. q \in File /\ \A k \in 1..Len(q) : q[k].key = "address" /\ q[k].kind = "directive"
  <2>1. "address" \in connectionKeys /\ b.address \in Text
    BY <1>0, <1>a
  <2> QED BY <2>1, OptionLines, OptionKinds
<1>3. r \in File /\ \A k \in 1..Len(r) : r[k].key = "remote_password" /\ r[k].kind = "directive"
  <2>1. "remote_password" \in connectionKeys /\ b.password \in Text
    BY <1>0, <1>a
  <2> QED BY <2>1, OptionLines, OptionKinds
<1>4. s \in File /\ \A k \in 1..Len(s) : s[k].key = "keepalive_interval" /\ s[k].kind = "directive"
  <2>1. "keepalive_interval" \in connectionKeys /\ b.keepalive \in Text
    BY <1>0, <1>a
  <2> QED BY <2>1, OptionLines, OptionKinds
<1>5. /\ t \in File /\ T = Len(b.topics) /\ DOMAIN b.topics = 1..T
      /\ \A k \in 1..T : t[k].key = "topic" /\ t[k].kind = "directive" /\ t[k].values = TopicValues(b.topics[k])
  <2>1. Len(b.topics) \in Nat /\ DOMAIN b.topics = 1..Len(b.topics)
    BY <1>b
  <2>2. \A k \in DOMAIN b.topics : TopicValues(b.topics[k]) \in Seq(Text) /\ TopicValues(b.topics[k]) # <<>>
    BY <1>b, RuleRead
  <2>a. \A k \in DOMAIN b.topics : renderTopic(b.topics[k]) = Option("topic", TopicValues(b.topics[k]))
    BY Zenon DEF renderTopic, TopicValues
  <2>3. \A k \in DOMAIN b.topics : IsLine(renderTopic(b.topics[k]), "topic", TopicValues(b.topics[k]))
    BY <1>a, <2>2, <2>a, LineMade
  <2>4. \A k \in DOMAIN b.topics : renderTopic(b.topics[k]) \in Item
    BY <2>3 DEF IsLine
  <2>5. t \in File /\ T = Len(b.topics)
    BY <2>1, <2>4 DEF File
  <2>6. \A k \in DOMAIN b.topics : t[k] = renderTopic(b.topics[k])
    OBVIOUS
  <2> QED BY <2>1, <2>3, <2>5, <2>6 DEF IsLine
<1>6. w = p \o q \o r \o s \o t
  BY DEF renderBridge
<1> HIDE DEF p, q, r, s, t, w
<1>7. /\ w \in File /\ Len(w) = ld + T /\ lb \in Nat /\ lc \in Nat /\ ld \in Nat /\ T \in Nat
      /\ w[1] = p[1]
      /\ \A k \in 1..Len(q) : w[1 + k] = q[k]
      /\ \A k \in 1..Len(r) : w[lb + k] = r[k]
      /\ \A k \in 1..Len(s) : w[lc + k] = s[k]
      /\ \A k \in 1..T : w[ld + k] = t[k]
  <2>1. 1 \in 1..Len(p)
    BY <1>1
  <2> HIDE DEF lb, lc, ld, T
  <2>3. Len(p) = 1
    BY <1>1
  <2>4. lb = Len(p) + Len(q) /\ lc = lb + Len(r) /\ ld = lc + Len(s) /\ T = Len(t)
    BY <2>3 DEF lb, lc, ld, T
  <2>5. p \in File /\ q \in File /\ r \in File /\ s \in File /\ t \in File
    BY <1>1, <1>2, <1>3, <1>4, <1>5
  <2>6. Joined(w, p, q, r, s, t, lb, lc, ld)
    BY <2>4, <2>5, <1>6, FivePieces
  <2> QED BY <2>1, <2>3, <2>4, <2>6 DEF Joined
<1>8. Len(q) \in Nat /\ Len(r) \in Nat /\ Len(s) \in Nat
  BY <1>2, <1>3, <1>4 DEF File
<1>9. ASSUME NEW k \in 2..Len(w)
      PROVE  \/ k \in 2..lb /\ k - 1 \in 1..Len(q) /\ k = 1 + (k - 1)
             \/ k \in (lb + 1)..lc /\ k - lb \in 1..Len(r) /\ k = lb + (k - lb)
             \/ k \in (lc + 1)..ld /\ k - lc \in 1..Len(s) /\ k = lc + (k - lc)
             \/ k \in (ld + 1)..(ld + T) /\ k - ld \in 1..T /\ k = ld + (k - ld)
  <2> DEFINE lq == Len(q) lr == Len(r) ls == Len(s)
  <2>1. lq \in Nat /\ lr \in Nat /\ ls \in Nat /\ T \in Nat /\ k \in 2..(1 + lq + lr + ls + T)
    BY <1>7, <1>8
  <2> HIDE DEF lq, lr, ls, T
  <2>2. \/ k \in 2..(1 + lq) /\ k - 1 \in 1..lq
        \/ k \in (1 + lq + 1)..(1 + lq + lr) /\ k - (1 + lq) \in 1..lr
        \/ k \in (1 + lq + lr + 1)..(1 + lq + lr + ls) /\ k - (1 + lq + lr) \in 1..ls
        \/ k \in (1 + lq + lr + ls + 1)..(1 + lq + lr + ls + T) /\ k - (1 + lq + lr + ls) \in 1..T
    BY <2>1
  <2>3. k \in Int /\ lb \in Int /\ lc \in Int /\ ld \in Int
    BY <1>7
  <2>4. k = 1 + (k - 1) /\ k = lb + (k - lb) /\ k = lc + (k - lc) /\ k = ld + (k - ld)
    BY <2>3
  <2> QED BY <2>2, <2>4 DEF lq, lr, ls
<1>10. /\ \A k \in 2..lb : w[k].key = "address" /\ w[k].kind = "directive"
       /\ \A k \in (lb + 1)..lc : w[k].key = "remote_password" /\ w[k].kind = "directive"
       /\ \A k \in (lc + 1)..ld : w[k].key = "keepalive_interval" /\ w[k].kind = "directive"
       /\ \A k \in (ld + 1)..(ld + T) : w[k].key = "topic" /\ w[k].kind = "directive"
  <2>1. ASSUME NEW k \in 2..lb PROVE w[k].key = "address" /\ w[k].kind = "directive"
    <3> DEFINE j == k - 1
    <3>1. j \in 1..Len(q) /\ 1 + j = k
      BY <1>8
    <3> HIDE DEF j, lb, lc, ld, T
    <3>2. w[1 + j] = q[j]
      BY <3>1, <1>7
    <3> QED BY <3>1, <3>2, <1>2
  <2>2. ASSUME NEW k \in (lb + 1)..lc PROVE w[k].key = "remote_password" /\ w[k].kind = "directive"
    <3> DEFINE j == k - lb
    <3>1. j \in 1..Len(r) /\ lb + j = k
      BY <1>8
    <3> HIDE DEF j, lb, lc, ld, T
    <3>2. w[lb + j] = r[j]
      BY <3>1, <1>7
    <3> QED BY <3>1, <3>2, <1>3
  <2>3. ASSUME NEW k \in (lc + 1)..ld PROVE w[k].key = "keepalive_interval" /\ w[k].kind = "directive"
    <3> DEFINE j == k - lc
    <3>1. j \in 1..Len(s) /\ lc + j = k
      BY <1>8
    <3> HIDE DEF j, lb, lc, ld, T
    <3>2. w[lc + j] = s[j]
      BY <3>1, <1>7
    <3> QED BY <3>1, <3>2, <1>4
  <2>4. ASSUME NEW k \in (ld + 1)..(ld + T) PROVE w[k].key = "topic" /\ w[k].kind = "directive"
    <3> DEFINE j == k - ld
    <3>1. j \in 1..T /\ ld + j = k
      BY <1>7
    <3> HIDE DEF j, lb, lc, ld, T
    <3>2. w[ld + j] = t[j]
      BY <3>1, <1>7
    <3> QED BY <3>1, <3>2, <1>5
  <2> QED BY <2>1, <2>2, <2>3, <2>4
<1> HIDE DEF lb, lc, ld, T
<1>11. \A k \in 2..Len(w) : w[k].kind = "directive" /\ w[k].key \in connectionKeys
  BY <1>9, <1>10, <1>a
<1>12. /\ \A k \in 2..Len(w) : w[k].key \in {"address", "addresses"} <=> k \in 2..lb
       /\ \A k \in 2..Len(w) : w[k].key = "remote_password" <=> k \in (lb + 1)..lc
       /\ \A k \in 2..Len(w) : w[k].key = "keepalive_interval" <=> k \in (lc + 1)..ld
       /\ \A k \in 2..Len(w) : w[k].key = "topic" <=> k \in (ld + 1)..(ld + T)
  BY <1>9, <1>10
<1>13. /\ lb = 1 + Len(q) /\ lc = lb + Len(r) /\ ld = lc + Len(s) /\ Len(w) = ld + T
       /\ 2..lb \subseteq 2..Len(w) /\ (lb + 1)..lc \subseteq 2..Len(w) /\ (lc + 1)..ld \subseteq 2..Len(w)
       /\ (ld + 1)..(ld + T) \subseteq 2..Len(w)
  BY <1>7, <1>8 DEF lb, lc, ld
<1> DEFINE S == 2..Len(w)
<1>14. AddressList(Remotes(w, S)) = b.address
  <2>1. Len(q) = Len(optionLine("address", b.address)) /\ 1 \in Nat /\ 2..lb = (1 + 1)..(1 + Len(q))
    BY <1>13 DEF q
  <2>2. \A k \in 1..Len(optionLine("address", b.address)) : w[1 + k] = optionLine("address", b.address)[k]
    BY <1>7 DEF q
  <2> HIDE DEF S
  <2>3. \A k \in S : w[k].key \in {"address", "addresses"} <=> k \in (1 + 1)..(1 + Len(optionLine("address", b.address)))
    BY <1>12, <2>1 DEF S
  <2>4. (1 + 1)..(1 + Len(optionLine("address", b.address))) \subseteq S
    BY <1>13, <2>1 DEF S
  <2>5. b.address \in Text
    BY <1>0
  <2> QED BY <2>1, <2>2, <2>3, <2>4, <2>5, OneRemote
<1>15. applyOption(w, S, "remote_password") = b.password
  <2>1. Len(r) = Len(optionLine("remote_password", b.password)) /\ lb \in Nat /\ (lb + 1)..lc = (lb + 1)..(lb + Len(r))
    BY <1>7, <1>13 DEF r
  <2>2. \A k \in 1..Len(optionLine("remote_password", b.password)) : w[lb + k] = optionLine("remote_password", b.password)[k]
    BY <1>7 DEF r
  <2> HIDE DEF S
  <2>3. \A k \in S : w[k].key = "remote_password" <=> k \in (lb + 1)..(lb + Len(optionLine("remote_password", b.password)))
    BY <1>12, <2>1 DEF S
  <2>4. (lb + 1)..(lb + Len(optionLine("remote_password", b.password))) \subseteq S
    BY <1>13, <2>1 DEF S
  <2>5. "remote_password" # "address" /\ "remote_password" \in connectionKeys /\ b.password \in Text
    BY <1>0, <1>a
  <2> QED BY <2>1, <2>2, <2>3, <2>4, <2>5, OnePlace
<1>16. applyOption(w, S, "keepalive_interval") = b.keepalive
  <2>1. Len(s) = Len(optionLine("keepalive_interval", b.keepalive)) /\ lc \in Nat /\ (lc + 1)..ld = (lc + 1)..(lc + Len(s))
    BY <1>7, <1>13 DEF s
  <2>2. \A k \in 1..Len(optionLine("keepalive_interval", b.keepalive)) : w[lc + k] = optionLine("keepalive_interval", b.keepalive)[k]
    BY <1>7 DEF s
  <2> HIDE DEF S
  <2>3. \A k \in S : w[k].key = "keepalive_interval" <=> k \in (lc + 1)..(lc + Len(optionLine("keepalive_interval", b.keepalive)))
    BY <1>12, <2>1 DEF S
  <2>4. (lc + 1)..(lc + Len(optionLine("keepalive_interval", b.keepalive))) \subseteq S
    BY <1>13, <2>1 DEF S
  <2>5. "keepalive_interval" # "address" /\ "keepalive_interval" \in connectionKeys /\ b.keepalive \in Text
    BY <1>0, <1>a
  <2> QED BY <2>1, <2>2, <2>3, <2>4, <2>5, OnePlace
<1>17. ASSUME AllTold(b) PROVE Topics(w, S) = b.topics
  <2> DEFINE R == {k \in S : w[k].key = "topic"}
             h == [k \in 1..T |-> ld + k]
  <2>1. R = (ld + 1)..(ld + T)
    BY <1>12, <1>13
  <2>2. R \subseteq Nat /\ Moves(h, 1..T, R)
    <3>1. \A k \in 1..T : ld + k \in (ld + 1)..(ld + T)
      BY <1>7
    <3>2. \A x \in (ld + 1)..(ld + T) : x \in Nat /\ x - ld \in 1..T /\ ld + (x - ld) = x
      BY <1>7
    <3>3. \A i, j \in 1..T : i < j => ld + i < ld + j
      BY <1>7
    <3> HIDE DEF R
    <3> QED BY <2>1, <3>1, <3>2, <3>3 DEF Moves
  <2>3. InOrder(R) = h
    <3> HIDE DEF R, h
    <3> QED BY <1>7, <2>2, OrderUnique
  <2>4. Topics(w, S) = [k \in DOMAIN InOrder(R) |-> parseTopic(w[InOrder(R)[k]].values)]
    BY Zenon DEF Topics
  <2> HIDE DEF R, S
  <2>5. Topics(w, S) = [k \in 1..T |-> parseTopic(w[ld + k].values)]
    BY <2>3, <2>4
  <2>6. \A k \in 1..T : parseTopic(w[ld + k].values) = b.topics[k]
    <3>1. \A k \in 1..T : w[ld + k].values = TopicValues(b.topics[k])
      BY <1>5, <1>7
    <3>2. \A k \in 1..T : b.topics[k] \in Rule /\ Told(b.topics[k])
      BY <1>5, <1>17, <1>b DEF AllTold
    <3> QED BY <3>1, <3>2, RuleRead
  <2>7. Len(b.topics) = T /\ T \in Nat
    BY <1>5, <1>7
  <2>8. b.topics = [k \in 1..T |-> b.topics[k]]
    <3>1. \A x, y : x \in Seq(y) => x = [k \in DOMAIN x |-> x[k]]
      OBVIOUS
    <3>2. b.topics = [k \in DOMAIN b.topics |-> b.topics[k]]
      BY <1>b, <3>1
    <3> QED BY <1>5, <3>2
  <2> QED BY <2>5, <2>6, <2>8
<1>18. w[1].values[1] = b.name /\ w[1].key = "connection" /\ w[1].kind = "directive"
  BY <1>1, <1>7 DEF IsLine
<1>19. ASSUME AllTold(b) PROVE Section(w, 1, S) = b
  <2>1. Section(w, 1, S) = [name |-> b.name, address |-> b.address, password |-> b.password,
                            keepalive |-> b.keepalive, topics |-> b.topics]
    BY <1>14, <1>15, <1>16, <1>17, <1>18, <1>19, Zenon DEF Section, SectionAt
  <2>2. b = [name |-> b.name, address |-> b.address, password |-> b.password,
             keepalive |-> b.keepalive, topics |-> b.topics]
    BY DEF Bridge
  <2> QED BY <2>1, <2>2, Zenon
<1>20. Len(w) \in Nat /\ 1 <= Len(w) /\ \A k \in 1..Len(w) : k = 1 \/ k \in 2..Len(w)
  BY <1>7, <1>8, <1>13
<1> HIDE DEF S
<1>21. \A k \in 1..Len(w) : w[k].kind = "directive"
  BY <1>11, <1>18, <1>20
<1> QED BY <1>7, <1>11, <1>18, <1>19, <1>20, <1>21 DEF w, S

-----------------------------------------------------------------------------
(* Lines that are kept and lines that are inserted.                       *)

\* A kept line stands at its rank among the kept lines.
LEMMA KeptIndex ==
    ASSUME NEW f \in File, NEW S, S \subseteq DOMAIN f
    PROVE  /\ Kept(f, S) \in File /\ Len(Kept(f, S)) = Cardinality(S) /\ Lineset(S)
           /\ \A i \in S : Kept(f, S)[Rank(S, i)] = f[i]
<1> DEFINE seqs == [i \in DOMAIN f |-> IF i \in S THEN <<f[i]>> ELSE <<>>]
           N == Len(f)
<1>1. N \in Nat /\ DOMAIN f = 1..N /\ \A i \in 1..N : f[i] \in Item
  BY DEF File
<1>2. Lineset(S) /\ S \subseteq Nat /\ IsFiniteSet(S) /\ S \subseteq 1..N
  BY <1>1, LinesOf DEF Lineset
<1>3. /\ seqs \in Seq(Seq(Item)) /\ Len(seqs) = N
      /\ \A i \in 1..N : i \in S => seqs[i] = <<f[i]>>
      /\ \A i \in 1..N : i \notin S => seqs[i] = <<>>
  BY <1>1
<1>4. Kept(f, S) = FlattenSeq(seqs)
  BY DEF Kept
<1> HIDE DEF seqs
<1>5. PICK o : Flattened(seqs, o)
  BY <1>3, FlatIndex
<1>6. /\ \A n \in 1..N : n \in S => Len(seqs[n]) = 1 /\ seqs[n][1] = f[n]
      /\ \A n \in 1..N : n \notin S => Len(seqs[n]) = 0
  <2>1. \A x : Len(<<x>>) = 1 /\ <<x>>[1] = x
    OBVIOUS
  <2>2. Len(<<>>) = 0
    OBVIOUS
  <2>3. ASSUME NEW n \in 1..N, n \in S PROVE Len(seqs[n]) = 1 /\ seqs[n][1] = f[n]
    BY <1>3, <2>1, <2>3, Zenon
  <2>4. ASSUME NEW n \in 1..N, n \notin S PROVE Len(seqs[n]) = 0
    BY <1>3, <2>2, <2>4, Zenon
  <2> QED BY <2>3, <2>4
<1> DEFINE P == {n \in 0..N : o[n] = Rank(S, n)}
<1>7. 0 \in P
  <2>1. {j \in S : j <= 0} = {}
    BY <1>2
  <2>2. Rank(S, 0) = 0
    BY <2>1, FS_EmptySet DEF Rank
  <2> QED BY <1>1, <1>5, <2>2 DEF Flattened
<1>8. ASSUME NEW n \in P, n < N PROVE n + 1 \in P
  <2> DEFINE A == {j \in S : j <= n}
             B == {j \in S : j <= n + 1}
  <2>1. n \in Nat /\ n + 1 \in 1..N /\ n + 1 \in 0..N /\ (n + 1) - 1 = n /\ o[n] = Cardinality(A)
    BY <1>1, <1>8 DEF Rank
  <2>2. o[n + 1] = o[n] + Len(seqs[n + 1])
    BY <1>3, <1>5, <2>1 DEF Flattened
  <2>3. IsFiniteSet(A) /\ Cardinality(A) \in Nat /\ n + 1 \notin A
    BY <1>2, <2>1, FS_Subset, FS_CardinalityType
  <2>4. \A j \in S : j <= n + 1 <=> j <= n \/ j = n + 1
    BY <1>2, <2>1
  <2>5. CASE n + 1 \in S
    <3>1. B = A \cup {n + 1}
      BY <2>4, <2>5
    <3>2. Cardinality(B) = Cardinality(A) + 1
      BY <2>3, <3>1, FS_AddElement
    <3>3. Len(seqs[n + 1]) = 1
      BY <1>6, <2>1, <2>5
    <3> QED BY <2>1, <2>2, <3>2, <3>3 DEF Rank
  <2>6. CASE n + 1 \notin S
    <3>1. B = A
      BY <2>4, <2>6
    <3>2. Len(seqs[n + 1]) = 0
      BY <1>6, <2>1, <2>6
    <3>3. Rank(S, n + 1) = Cardinality(A)
      BY <3>1, Zenon DEF Rank
    <3>4. o[n + 1] = Cardinality(A)
      BY <2>1, <2>2, <2>3, <3>2
    <3> QED BY <2>1, <3>3, <3>4
  <2> QED BY <2>5, <2>6
<1>9. \A n \in 0..N : o[n] = Rank(S, n)
  <2>1. P \in SUBSET Nat /\ \A n \in P : n < N => n + 1 \in P
    BY <1>1, <1>8
  <2> HIDE DEF P
  <2>2. \A n \in 0..N : n \in P
    BY <1>1, <1>7, <2>1, SetInduction
  <2> QED BY <2>2 DEF P
<1>10. Kept(f, S) \in File
  BY <1>3, <1>4, FlattenType DEF File
<1>11. Len(Kept(f, S)) = Cardinality(S)
  <2>1. {j \in S : j <= N} = S
    BY <1>1, <1>2
  <2>2. N \in 0..N
    BY <1>1
  <2>3. Rank(S, N) = Cardinality(S)
    BY <2>1, Zenon DEF Rank
  <2> QED BY <1>3, <1>4, <1>5, <1>9, <2>2, <2>3 DEF Flattened
<1>12. ASSUME NEW i \in S PROVE Kept(f, S)[Rank(S, i)] = f[i]
  <2>1. i \in 1..N /\ i \in 0..N /\ 1 \in 1..Len(seqs[i]) /\ Len(seqs[i]) = 1 /\ seqs[i][1] = f[i]
    BY <1>1, <1>2, <1>6
  <2>2. o[i] = o[i - 1] + 1
    BY <1>3, <1>5, <2>1 DEF Flattened
  <2>3. FlattenSeq(seqs)[o[i - 1] + 1] = seqs[i][1]
    BY <1>3, <1>5, <2>1 DEF Flattened
  <2> QED BY <1>4, <1>9, <2>1, <2>2, <2>3
<1> QED BY <1>2, <1>10, <1>11, <1>12

\* Where the lines of a file are once others were inserted.
LEMMA InsertIndex ==
    ASSUME NEW f \in File, NEW R \in File, NEW a \in 0..Len(f)
    PROVE  LET g == insertItems(f, a, R)
           IN  /\ g \in File /\ Len(g) = Len(f) + Len(R)
               /\ \A k \in 1..a : g[k] = f[k]
               /\ \A k \in 1..Len(R) : g[a + k] = R[k]
               /\ \A k \in (a + 1)..Len(f) : g[k + Len(R)] = f[k]
<1> DEFINE p == SubSeq(f, 1, a)
           q == SubSeq(f, a + 1, Len(f))
           u == p \o R
           g == u \o q
           L == Len(f)
<1>1. L \in Nat /\ Len(R) \in Nat /\ a \in Nat /\ a <= L
  BY DEF File
<1>2. p \in File /\ Len(p) = a /\ \A k \in 1..a : p[k] = f[k]
  BY <1>1 DEF File
<1>3. q \in File /\ Len(q) = L - a /\ \A k \in 1..(L - a) : q[k] = f[a + k]
  BY <1>1 DEF File
<1>4. insertItems(f, a, R) = g
  BY DEF insertItems
<1> HIDE DEF p, q, L
<1>5. /\ u \in File /\ Len(u) = Len(p) + Len(R) /\ (\A k \in 1..Len(p) : u[k] = p[k])
      /\ \A k \in 1..Len(R) : u[Len(p) + k] = R[k]
  BY <1>2, FileConcat
<1> HIDE DEF u
<1>6. /\ g \in File /\ Len(g) = Len(u) + Len(q) /\ (\A k \in 1..Len(u) : g[k] = u[k])
      /\ \A k \in 1..Len(q) : g[Len(u) + k] = q[k]
  BY <1>3, <1>5, FileConcat
<1> HIDE DEF g
<1>7. Len(u) = a + Len(R) /\ Len(p) = a /\ Len(q) = L - a
  BY <1>2, <1>3, <1>5
<1>8. \A k \in 1..a : k \in 1..(a + Len(R))
  BY <1>1
<1>9. \A k \in 1..Len(R) : a + k \in 1..(a + Len(R))
  BY <1>1
<1>10. ASSUME NEW k \in (a + 1)..L PROVE g[k + Len(R)] = f[k]
  <2> DEFINE j == k - a
  <2>1. j \in 1..(L - a) /\ a + j = k /\ (a + Len(R)) + j = k + Len(R)
    BY <1>1
  <2> HIDE DEF j
  <2>2. g[(a + Len(R)) + j] = q[j]
    BY <1>6, <1>7, <2>1
  <2> QED BY <1>3, <2>1, <2>2
<1>11. \A k \in 1..a : g[k] = f[k]
  BY <1>2, <1>5, <1>6, <1>7, <1>8
<1>12. \A k \in 1..Len(R) : g[a + k] = R[k]
  BY <1>5, <1>6, <1>7, <1>9
<1>13. Len(g) = L + Len(R)
  BY <1>1, <1>6, <1>7
<1> QED BY <1>4, <1>6, <1>10, <1>11, <1>12, <1>13 DEF L

\* The offsets of a flattened sequence grow, and every place belongs to a piece.
Offsets(seqs, o) ==
    /\ \A n \in 0..Len(seqs) : o[n] \in Nat
    /\ \A n \in 0..Len(seqs) : \A m \in 0..n : o[m] <= o[n]
    /\ \A n \in 0..Len(seqs) : \A q \in 1..o[n] : \E m \in 1..n : \E k \in 1..Len(seqs[m]) : q = o[m - 1] + k

LEMMA FlatCover ==
    ASSUME NEW C, NEW seqs \in Seq(Seq(C)), NEW o, Flattened(seqs, o)
    PROVE  Offsets(seqs, o)
<1> DEFINE N == Len(seqs)
           Covered(n) == /\ \A m \in 0..n : o[m] <= o[n]
                         /\ \A q \in 1..o[n] : \E m \in 1..n : \E k \in 1..Len(seqs[m]) : q = o[m - 1] + k
           P == {n \in 0..N : Covered(n)}
<1>1. N \in Nat /\ \A n \in 1..N : Len(seqs[n]) \in Nat
  OBVIOUS
<1>2. (\A n \in 0..N : o[n] \in Nat) /\ o[0] = 0 /\ \A n \in 1..N : o[n] = o[n - 1] + Len(seqs[n])
  BY DEF Flattened
<1>3. 0 \in P
  <2>1. \A m \in 0..0 : m = 0
    OBVIOUS
  <2>2. \A q \in 1..0 : FALSE
    OBVIOUS
  <2>3. 0 \in 0..N
    BY <1>1
  <2>4. Covered(0)
    BY <1>2, <2>1, <2>2
  <2> HIDE DEF Covered
  <2> QED BY <2>3, <2>4
<1>4. ASSUME NEW n \in P, n < N PROVE n + 1 \in P
  <2>1. n \in Nat /\ n \in 0..N /\ n + 1 \in 1..N /\ n + 1 \in 0..N /\ (n + 1) - 1 = n
    BY <1>1, <1>4
  <2>2. /\ o[n + 1] = o[n] + Len(seqs[n + 1]) /\ o[n] \in Nat /\ o[n + 1] \in Nat /\ Len(seqs[n + 1]) \in Nat
    BY <1>1, <1>2, <2>1
  <2>3. /\ \A m \in 0..n : o[m] <= o[n]
        /\ \A q \in 1..o[n] : \E m \in 1..n : \E k \in 1..Len(seqs[m]) : q = o[m - 1] + k
    BY <1>4
  <2> HIDE DEF P, Covered
  <2>4. ASSUME NEW m \in 0..(n + 1) PROVE o[m] <= o[n + 1]
    <3>1. m = n + 1 \/ m \in 0..n
      BY <2>1
    <3>2. m \in 0..n => o[m] \in Nat
      BY <1>2, <2>1
    <3> QED BY <2>2, <2>3, <3>1, <3>2
  <2>5. ASSUME NEW q \in 1..o[n + 1] PROVE \E m \in 1..(n + 1) : \E k \in 1..Len(seqs[m]) : q = o[m - 1] + k
    <3>1. CASE q \in 1..o[n]
      <4>1. PICK m \in 1..n : \E k \in 1..Len(seqs[m]) : q = o[m - 1] + k
        BY <2>3, <3>1
      <4>2. m \in 1..(n + 1)
        BY <2>1
      <4> QED BY <4>1, <4>2
    <3>2. CASE q \notin 1..o[n]
      <4> DEFINE k == q - o[n]
      <4>1. k \in 1..Len(seqs[n + 1]) /\ q = o[n] + k
        BY <2>2, <3>2
      <4>2. n + 1 \in 1..(n + 1)
        BY <2>1
      <4> HIDE DEF k
      <4> QED BY <2>1, <4>1, <4>2
    <3> QED BY <3>1, <3>2
  <2>6. Covered(n + 1)
    BY <2>4, <2>5 DEF Covered
  <2> QED BY <2>1, <2>6 DEF P
<1>5. \A n \in 0..N : Covered(n)
  <2>1. P \in SUBSET Nat /\ \A n \in P : n < N => n + 1 \in P
    BY <1>1, <1>4
  <2> HIDE DEF P
  <2>2. \A n \in 0..N : n \in P
    BY <1>1, <1>3, <2>1, SetInduction
  <2> QED BY <2>2 DEF P
<1> QED BY <1>2, <1>5 DEF Offsets

Before(f, kind, i) == {j \in DOMAIN f : f[j].kind = kind /\ j < i}

Plain(f) == \A i \in DOMAIN f : f[i].kind = "directive"

\* A directive is at the top level when no more blocks were opened than closed before it.
LEMMA OutsideIs ==
    ASSUME NEW f \in File, NEW i
    PROVE  i \in Outside(f) <=> /\ i \in DOMAIN f /\ f[i].kind = "directive"
                                /\ ~(Cardinality(Before(f, "open", i)) > Cardinality(Before(f, "close", i)))
<1> DEFINE open == {j \in DOMAIN f : f[j].kind = "open"}
           close == {j \in DOMAIN f : f[j].kind = "close"}
<1>1. {j \in open : j < i} = Before(f, "open", i) /\ {j \in close : j < i} = Before(f, "close", i)
  BY DEF Before
<1>2. i \in blockItems(f) <=> /\ open # {} /\ i \in DOMAIN f /\ IsDirective(f, i)
                              /\ Cardinality(Before(f, "open", i)) > Cardinality(Before(f, "close", i))
  <2>1. CASE open = {}
    BY <2>1 DEF blockItems
  <2>2. CASE open # {}
    <3>1. blockItems(f) = {k \in DOMAIN f : /\ IsDirective(f, k)
                              /\ Cardinality({j \in open : j < k}) > Cardinality({j \in close : j < k})}
      BY <2>2 DEF blockItems
    <3> HIDE DEF open, close
    <3> QED BY <1>1, <2>2, <3>1, Zenon
  <2> QED BY <2>1, <2>2
<1>3. open = {} => ~(Cardinality(Before(f, "open", i)) > Cardinality(Before(f, "close", i)))
  <2> SUFFICES ASSUME open = {} PROVE ~(Cardinality(Before(f, "open", i)) > Cardinality(Before(f, "close", i)))
    OBVIOUS
  <2>1. Before(f, "open", i) = {} /\ Before(f, "close", i) \subseteq DOMAIN f
    BY DEF Before
  <2>2. Cardinality(Before(f, "open", i)) = 0
    BY <2>1, FS_EmptySet
  <2>3. Cardinality(Before(f, "close", i)) \in Nat
    BY <2>1, FileFacts, LinesOf, RankFacts
  <2> QED BY <2>2, <2>3
<1>4. i \in Outside(f) <=> i \in DOMAIN f /\ IsDirective(f, i) /\ i \notin blockItems(f)
  BY DEF Outside
<1> HIDE DEF open, close
<1> QED BY <1>2, <1>3, <1>4 DEF IsDirective

\* A file f whose lines M made room for the lines R, before the first of them.
Spliced(f, M, R, a, g, psi) ==
    /\ g \in File /\ a \in Nat
    /\ psi \in [DOMAIN f \ M -> DOMAIN g]
    /\ \A i \in DOMAIN f \ M : g[psi[i]] = f[i]
    /\ \A i, j \in DOMAIN f \ M : i < j => psi[i] < psi[j]
    /\ \A i \in DOMAIN f \ M : i <= a => psi[i] = i
    /\ \A i \in DOMAIN f \ M : i > a => psi[i] > a + Len(R)
    /\ \A k \in 1..Len(R) : a + k \in DOMAIN g /\ g[a + k] = R[k]
    /\ \A x \in DOMAIN g : (\E i \in DOMAIN f \ M : psi[i] = x) \/ \E k \in 1..Len(R) : x = a + k

\* Dropping the lines M and inserting R in the place of the first of them.
LEMMA Splice ==
    ASSUME NEW f \in File, NEW M, M \subseteq DOMAIN f, M # {}, NEW R \in File
    PROVE  LET a == Min(M) - 1
           IN  \E psi : Spliced(f, M, R, a, insertItems(Kept(f, DOMAIN f \ M), a, R), psi)
<1> DEFINE N == Len(f)
           S == DOMAIN f \ M
           a == Min(M) - 1
           kept == Kept(f, S)
           g == insertItems(kept, a, R)
           psi == [i \in S |-> IF i <= a THEN i ELSE Rank(S, i) + Len(R)]
<1>1. N \in Nat /\ DOMAIN f = 1..N /\ Len(R) \in Nat
  BY FileFacts
<1>2. Lineset(M) /\ Min(M) \in M /\ \A i \in M : Min(M) <= i
  BY <1>1, LinesOf, MaxFacts
<1>3. a \in Nat /\ a + 1 = Min(M) /\ a < N
  BY <1>1, <1>2
<1>4. /\ kept \in File /\ Len(kept) = Cardinality(S) /\ Lineset(S) /\ S \subseteq 1..N
      /\ \A i \in S : kept[Rank(S, i)] = f[i]
  BY <1>1, KeptIndex
<1>5. Cardinality(S) \in Nat /\ S \subseteq Nat /\ DOMAIN kept = 1..Cardinality(S)
  BY <1>4, RankFacts, FileFacts DEF Lineset
<1> HIDE DEF kept
<1>6. /\ \A i \in S : Rank(S, i) \in 1..Cardinality(S)
      /\ \A i, j \in S : i < j => Rank(S, i) < Rank(S, j)
      /\ \A n \in 1..Cardinality(S) : InOrder(S)[n] \in S /\ Rank(S, InOrder(S)[n]) = n
  BY <1>4, RankFacts, Ordered
<1>7. 1..a \subseteq S
  <2>1. \A i \in 1..a : i \in 1..N /\ i < Min(M)
    BY <1>1, <1>3
  <2>2. \A i \in M : i \in Nat
    BY <1>2 DEF Lineset
  <2> HIDE DEF a
  <2>3. \A i \in 1..a : i \notin M
    BY <1>2, <2>1, <2>2
  <2> QED BY <1>1, <2>1, <2>3
<1> HIDE DEF a
<1>8. \A i \in 1..a : Rank(S, i) = i
  <2> SUFFICES ASSUME NEW i \in 1..a PROVE Rank(S, i) = i
    OBVIOUS
  <2>1. i \in Nat /\ \A j \in S : j \in Nat /\ j >= 1
    BY <1>3, <1>4, <1>5
  <2>2. \A j \in 1..i : j \in 1..a
    BY <1>3
  <2> HIDE DEF S
  <2>3. {j \in S : j <= i} = 1..i
    BY <1>7, <2>1, <2>2
  <2>4. Cardinality(1..i) = i
    <3>1. Cardinality(1..i) = IF 1 > i THEN 0 ELSE i - 1 + 1
      BY <2>1, FS_Interval
    <3> QED BY <2>1, <3>1
  <2> QED BY <2>3, <2>4, Zenon DEF Rank
<1>9. \A i \in S : i > a => Rank(S, i) \in (a + 1)..Cardinality(S)
  <2> SUFFICES ASSUME NEW i \in S, i > a PROVE Rank(S, i) \in (a + 1)..Cardinality(S)
    OBVIOUS
  <2>1. Rank(S, i) \in 1..Cardinality(S)
    BY <1>6
  <2>2. CASE a = 0
    BY <1>5, <2>1, <2>2
  <2>3. CASE a # 0
    <3>1. a \in 1..a /\ a \in S
      BY <1>3, <1>7, <2>3
    <3>2. Rank(S, a) < Rank(S, i) /\ Rank(S, a) = a
      BY <1>6, <1>8, <3>1
    <3> HIDE DEF S
    <3> QED BY <1>3, <1>5, <2>1, <3>2
  <2> QED BY <2>2, <2>3
<1>10. a \in 0..Len(kept)
  <2>1. CASE a = 0
    BY <1>4, <1>5, <2>1
  <2>2. CASE a # 0
    <3>1. a \in 1..a /\ a \in S
      BY <1>3, <1>7, <2>2
    <3>2. Rank(S, a) = a /\ Rank(S, a) \in 1..Cardinality(S)
      BY <1>6, <1>8, <3>1
    <3> HIDE DEF S
    <3> QED BY <1>3, <1>4, <1>5, <3>2
  <2> QED BY <2>1, <2>2
<1>11. /\ g \in File /\ Len(g) = Len(kept) + Len(R)
       /\ \A k \in 1..a : g[k] = kept[k]
       /\ \A k \in 1..Len(R) : g[a + k] = R[k]
       /\ \A k \in (a + 1)..Len(kept) : g[k + Len(R)] = kept[k]
  BY <1>4, <1>10, InsertIndex
<1> HIDE DEF g
<1>12. DOMAIN g = 1..(Cardinality(S) + Len(R)) /\ a <= Cardinality(S)
  BY <1>3, <1>4, <1>5, <1>10, <1>11, FileFacts
<1> DEFINE c == Cardinality(S)
           L == Len(R)
<1>13. c \in Nat /\ L \in Nat /\ a \in Nat /\ a <= c /\ Len(kept) = c /\ DOMAIN g = 1..(c + L)
  BY <1>1, <1>3, <1>4, <1>5, <1>12
<1>14. ASSUME NEW i \in S PROVE psi[i] \in DOMAIN g /\ g[psi[i]] = f[i]
  <2>1. CASE i <= a
    <3>1. i \in 1..a /\ psi[i] = i
      BY <1>4, <1>13, <2>1
    <3>2. g[i] = kept[i] /\ kept[i] = f[i]
      BY <1>4, <1>8, <1>11, <3>1
    <3>3. i \in 1..(c + L)
      BY <1>13, <3>1
    <3> QED BY <1>13, <3>1, <3>2, <3>3
  <2>2. CASE ~(i <= a)
    <3>1. i > a /\ psi[i] = Rank(S, i) + L
      BY <1>5, <1>13, <2>2
    <3>2. Rank(S, i) \in (a + 1)..c
      BY <1>9, <3>1
    <3>3. g[Rank(S, i) + L] = kept[Rank(S, i)] /\ kept[Rank(S, i)] = f[i]
      BY <1>4, <1>11, <1>13, <3>2
    <3>4. Rank(S, i) + L \in 1..(c + L)
      BY <1>13, <3>2
    <3> QED BY <1>13, <3>1, <3>3, <3>4
  <2> QED BY <2>1, <2>2
<1>15. /\ \A i \in S : i <= a => psi[i] = i
       /\ \A i \in S : i > a => psi[i] = Rank(S, i) + L /\ psi[i] > a + L
  <2>1. \A i \in S : i <= a => psi[i] = i
    OBVIOUS
  <2>2. ASSUME NEW i \in S, i > a PROVE psi[i] = Rank(S, i) + L /\ psi[i] > a + L
    <3>1. ~(i <= a)
      BY <1>5, <1>13, <2>2
    <3>2. Rank(S, i) \in (a + 1)..c
      BY <1>9, <2>2
    <3> QED BY <1>13, <3>1, <3>2
  <2> QED BY <2>1, <2>2
<1>16. psi \in [S -> DOMAIN g]
  BY <1>14
<1> HIDE DEF psi
<1>17. ASSUME NEW i \in S, NEW j \in S, i < j PROVE psi[i] < psi[j]
  <2>1. i \in Nat /\ j \in Nat
    BY <1>5
  <2>2. CASE j <= a
    <3>1. i <= a
      BY <1>13, <1>17, <2>1, <2>2
    <3> QED BY <1>15, <1>17, <2>2, <3>1
  <2>3. CASE j > a /\ i <= a
    <3>1. psi[i] = i /\ psi[j] > a + L /\ psi[j] \in Nat
      BY <1>13, <1>15, <1>16, <2>3
    <3> HIDE DEF S, c, L
    <3> QED BY <1>13, <2>1, <2>3, <3>1
  <2>4. CASE j > a /\ i > a
    <3>1. psi[i] = Rank(S, i) + L /\ psi[j] = Rank(S, j) + L /\ Rank(S, i) < Rank(S, j)
      BY <1>6, <1>15, <1>17, <2>4
    <3>2. Rank(S, i) \in Nat /\ Rank(S, j) \in Nat
      BY <1>6
    <3> HIDE DEF S, c, L
    <3> QED BY <1>13, <3>1, <3>2
  <2> QED BY <1>13, <2>1, <2>2, <2>3, <2>4
<1>18. ASSUME NEW x \in DOMAIN g PROVE (\E i \in S : psi[i] = x) \/ \E k \in 1..L : x = a + k
  <2>1. x \in 1..(c + L)
    BY <1>13
  <2>2. CASE x \in 1..a
    BY <1>7, <1>13, <1>15, <2>2
  <2>3. CASE x \in (a + 1)..(a + L)
    <3>1. x - a \in 1..L /\ x = a + (x - a)
      BY <1>13, <2>3
    <3> QED BY <3>1
  <2>4. CASE x \in (a + L + 1)..(c + L)
    <3> DEFINE i == InOrder(S)[x - L]
    <3>1. x - L \in 1..c /\ x - L > a /\ (x - L) + L = x
      BY <1>13, <2>4
    <3>2. i \in S /\ Rank(S, i) = x - L
      BY <1>6, <3>1
    <3> HIDE DEF i
    <3>3. i > a
      <4> SUFFICES ASSUME i \in 1..a PROVE FALSE
        BY <1>4, <1>13, <3>2
      <4>1. Rank(S, i) = i
        BY <1>8
      <4> HIDE DEF S, c, L
      <4> QED BY <1>13, <3>1, <3>2, <4>1
    <3>4. psi[i] = x
      BY <1>15, <3>1, <3>2, <3>3
    <3> QED BY <3>2, <3>4
  <2> HIDE DEF c, L
  <2> QED BY <1>13, <2>1, <2>2, <2>3, <2>4
<1>19. \A k \in 1..L : a + k \in DOMAIN g /\ g[a + k] = R[k]
  <2>1. \A k \in 1..L : a + k \in 1..(c + L)
    BY <1>13
  <2> QED BY <1>11, <1>13, <2>1
<1>20. Spliced(f, M, R, a, g, psi)
  BY <1>11, <1>13, <1>14, <1>15, <1>16, <1>17, <1>18, <1>19, Zenon DEF Spliced, S, L
<1> QED BY <1>20 DEF a, g, kept, S

LEMMA BeforeLines ==
    ASSUME NEW f \in File, NEW kind, NEW i
    PROVE  Lineset(Before(f, kind, i)) /\ Before(f, kind, i) \subseteq DOMAIN f /\ DOMAIN f \subseteq Nat
<1>1. Before(f, kind, i) \subseteq DOMAIN f
  BY DEF Before
<1> QED BY <1>1, FileFacts, LinesOf

\* Only directives move: a kept line stays inside or outside a block.
LEMMA OutsideKept ==
    ASSUME NEW f \in File, NEW M, M \subseteq DOMAIN f, \A i \in M : f[i].kind = "directive", NEW R \in File, Plain(R),
           NEW a, NEW g, NEW psi, Spliced(f, M, R, a, g, psi), NEW i \in DOMAIN f \ M
    PROVE  psi[i] \in Outside(g) <=> i \in Outside(f)
<1> DEFINE S == DOMAIN f \ M
<1>1. /\ g \in File /\ psi \in [S -> DOMAIN g] /\ (\A j \in S : g[psi[j]] = f[j])
      /\ \A j, k \in S : j < k => psi[j] < psi[k]
  BY DEF Spliced
<1>2. DOMAIN f \subseteq Nat /\ DOMAIN g \subseteq Nat /\ DOMAIN R = 1..Len(R)
  BY <1>1, FileFacts
<1>3. ASSUME NEW kind \in {"open", "close"}
      PROVE  Cardinality(Before(g, kind, psi[i])) = Cardinality(Before(f, kind, i))
  <2> DEFINE A == Before(f, kind, i)
             B == Before(g, kind, psi[i])
             h == [j \in A |-> psi[j]]
  <2>1. A \subseteq S
    BY DEF Before
  <2>2. \A j \in S : psi[j] < psi[i] => j < i
    <3> SUFFICES ASSUME NEW j \in S, psi[j] < psi[i], ~(j < i) PROVE FALSE
      OBVIOUS
    <3>1. j \in Nat /\ i \in Nat /\ psi[j] \in Nat /\ psi[i] \in Nat
      BY <1>1, <1>2
    <3>2. j = i \/ i < j
      BY <3>1
    <3>3. i < j => psi[i] < psi[j]
      BY <1>1
    <3> QED BY <3>1, <3>2, <3>3
  <2>3. ASSUME NEW x \in B PROVE \E j \in A : psi[j] = x
    <3>1. x \in DOMAIN g /\ g[x].kind = kind /\ x < psi[i]
      BY DEF Before
    <3>2. ~ \E k \in 1..Len(R) : x = a + k
      BY <1>2, <3>1 DEF Spliced, Plain
    <3>3. PICK j \in S : psi[j] = x
      BY <3>1, <3>2 DEF Spliced
    <3>4. j \in A
      BY <1>1, <2>2, <3>1, <3>3 DEF Before
    <3> QED BY <3>3, <3>4
  <2>4. ASSUME NEW j \in A PROVE psi[j] \in B
    <3>1. j \in S /\ f[j].kind = kind /\ j < i
      BY <2>1 DEF Before
    <3> QED BY <1>1, <3>1 DEF Before
  <2>5. Lineset(A) /\ B \subseteq Nat
    BY <1>1, <1>2, BeforeLines
  <2> HIDE DEF A, B
  <2>6. Moves(h, A, B)
    BY <1>1, <2>1, <2>3, <2>4 DEF Moves
  <2> HIDE DEF h
  <2>7. Cardinality(B) = Cardinality(A)
    BY <2>5, <2>6, MovedCard
  <2> QED BY <2>7 DEF A, B
<1>4. psi[i] \in DOMAIN g /\ g[psi[i]] = f[i] /\ i \in DOMAIN f
  BY <1>1
<1>5. /\ Cardinality(Before(g, "open", psi[i])) = Cardinality(Before(f, "open", i))
      /\ Cardinality(Before(g, "close", psi[i])) = Cardinality(Before(f, "close", i))
  BY <1>3
<1> HIDE DEF S
<1> QED BY <1>1, <1>4, <1>5, OutsideIs

\* The new lines are at the top level, as the first line they replace was.
LEMMA OutsideNew ==
    ASSUME NEW f \in File, NEW M, M \subseteq DOMAIN f, \A i \in M : f[i].kind = "directive", NEW R \in File, Plain(R),
           NEW a, NEW g, NEW psi, Spliced(f, M, R, a, g, psi), a + 1 \in Outside(f), NEW k \in 1..Len(R),
           \A i \in M : a < i
    PROVE  a + k \in Outside(g)
<1> DEFINE S == DOMAIN f \ M
<1>1. /\ g \in File /\ psi \in [S -> DOMAIN g] /\ (\A j \in S : g[psi[j]] = f[j]) /\ a \in Nat
      /\ (\A i \in S : i <= a => psi[i] = i) /\ (\A i \in S : i > a => psi[i] > a + Len(R))
      /\ a + k \in DOMAIN g /\ g[a + k] = R[k]
  BY DEF Spliced
<1>2. DOMAIN f \subseteq Nat /\ DOMAIN g \subseteq Nat /\ DOMAIN R = 1..Len(R) /\ Len(R) \in Nat
  BY <1>1, FileFacts
<1>3. ASSUME NEW kind \in {"open", "close"} PROVE Before(g, kind, a + k) = Before(f, kind, a + 1)
  <2>1. ASSUME NEW x \in Before(g, kind, a + k) PROVE x \in Before(f, kind, a + 1)
    <3>1. x \in DOMAIN g /\ g[x].kind = kind /\ x < a + k
      BY DEF Before
    <3>2. ~ \E n \in 1..Len(R) : x = a + n
      BY <1>2, <3>1 DEF Spliced, Plain
    <3>3. PICK j \in S : psi[j] = x
      BY <3>1, <3>2 DEF Spliced
    <3>4. j \in Nat /\ x \in Nat /\ k \in Nat /\ k <= Len(R)
      BY <1>2, <3>1
    <3>5. j <= a
      <4> SUFFICES ASSUME j > a PROVE FALSE
        BY <1>1, <3>4
      <4>1. x > a + Len(R)
        BY <1>1, <3>3
      <4> HIDE DEF S
      <4> QED BY <1>1, <1>2, <3>1, <3>4, <4>1
    <3>6. x = j
      BY <1>1, <3>3, <3>5
    <3>7. j < a + 1
      BY <1>1, <3>4, <3>5
    <3>8. f[j].kind = kind
      BY <1>1, <3>1, <3>3
    <3> QED BY <3>6, <3>7, <3>8 DEF Before
  <2>2. ASSUME NEW x \in Before(f, kind, a + 1) PROVE x \in Before(g, kind, a + k)
    <3>1. x \in DOMAIN f /\ f[x].kind = kind /\ x < a + 1 /\ x \in Nat
      BY <1>2 DEF Before
    <3>2. x \in S /\ x <= a
      BY <1>1, <3>1
    <3>3. psi[x] = x /\ x \in DOMAIN g /\ g[x] = f[x]
      BY <1>1, <3>2
    <3>4. x < a + k
      BY <1>1, <1>2, <3>1
    <3> QED BY <3>1, <3>3, <3>4 DEF Before
  <2> QED BY <2>1, <2>2
<1>4. /\ Before(g, "open", a + k) = Before(f, "open", a + 1)
      /\ Before(g, "close", a + k) = Before(f, "close", a + 1)
  BY <1>3
<1>5. ~(Cardinality(Before(f, "open", a + 1)) > Cardinality(Before(f, "close", a + 1)))
  BY OutsideIs
<1>6. g[a + k].kind = "directive"
  BY <1>1, <1>2 DEF Plain
<1> QED BY <1>1, <1>4, <1>5, <1>6, OutsideIs

-----------------------------------------------------------------------------
(* The rendered document in its new place, as the broker reads it.        *)

\* The sections of a document one after another: section n stands behind o[n - 1].
Rendered(doc, R, o) ==
    /\ R \in File /\ Plain(R)
    /\ \A n \in 0..Len(doc) : o[n] \in Nat
    /\ \A n \in 1..Len(doc) : o[n] = o[n - 1] + Len(renderBridge(doc[n]))
    /\ \A n, m \in 1..Len(doc) : n < m => o[n] <= o[m - 1]
    /\ \A n \in 1..Len(doc) : \A k \in 1..Len(renderBridge(doc[n])) :
          o[n - 1] + k \in 1..Len(R) /\ R[o[n - 1] + k] = renderBridge(doc[n])[k]
    /\ \A x \in 1..Len(R) : \E n \in 1..Len(doc) : \E k \in 1..Len(renderBridge(doc[n])) : x = o[n - 1] + k

LEMMA RenderedDocument ==
    ASSUME NEW doc \in Seq(Bridge)
    PROVE  \E o : Rendered(doc, renderDocument(doc), o)
<1> DEFINE seqs == [n \in DOMAIN doc |-> renderBridge(doc[n])]
           N == Len(doc)
           R == renderDocument(doc)
<1>1. N \in Nat /\ DOMAIN doc = 1..N /\ \A n \in 1..N : doc[n] \in Bridge
  OBVIOUS
<1>2. \A n \in 1..N : renderBridge(doc[n]) \in Seq(Item)
  BY <1>1, RenderedBridge DEF File
<1>3. seqs \in Seq(Seq(Item)) /\ Len(seqs) = N /\ \A n \in 1..N : seqs[n] = renderBridge(doc[n])
  BY <1>1, <1>2
<1>4. R = FlattenSeq(seqs)
  BY DEF renderDocument
<1> HIDE DEF seqs, R
<1>5. PICK o : Flattened(seqs, o)
  BY <1>3, FlatIndex
<1>l. Len(seqs) = N
  BY <1>3
<1> HIDE DEF N
<1>6. /\ \A n \in 0..N : o[n] \in Nat
      /\ \A n \in 0..N : \A m \in 0..n : o[m] <= o[n]
      /\ \A n \in 0..N : \A x \in 1..o[n] : \E m \in 1..n : \E k \in 1..Len(seqs[m]) : x = o[m - 1] + k
  <2>1. /\ \A n \in 0..Len(seqs) : o[n] \in Nat
        /\ \A n \in 0..Len(seqs) : \A m \in 0..n : o[m] <= o[n]
        /\ \A n \in 0..Len(seqs) : \A x \in 1..o[n] : \E m \in 1..n : \E k \in 1..Len(seqs[m]) : x = o[m - 1] + k
    <3>1. seqs \in Seq(Seq(Item))
      BY <1>3
    <3>2. Offsets(seqs, o)
      BY <1>5, <3>1, FlatCover
    <3> QED BY <3>2, Zenon DEF Offsets
  <2> QED BY <1>l, <2>1, Zenon
<1>7. /\ Len(R) = o[N] /\ \A n \in 1..N : o[n] = o[n - 1] + Len(renderBridge(doc[n]))
      /\ \A n \in 1..N : \A k \in 1..Len(renderBridge(doc[n])) : R[o[n - 1] + k] = renderBridge(doc[n])[k]
  <2>1. /\ Len(R) = o[N] /\ \A n \in 1..N : o[n] = o[n - 1] + Len(seqs[n])
        /\ \A n \in 1..N : \A k \in 1..Len(seqs[n]) : R[o[n - 1] + k] = seqs[n][k]
    BY <1>l, <1>4, <1>5, Zenon DEF Flattened
  <2>2. \A n \in 1..N : seqs[n] = renderBridge(doc[n])
    BY <1>3
  <2> QED BY <2>1, <2>2, Zenon
<1>8. R \in File
  BY <1>3, <1>4, FlattenType DEF File
<1>9. N \in 0..N
  BY <1>1
<1>10. \A x \in 1..Len(R) : \E n \in 1..N : \E k \in 1..Len(renderBridge(doc[n])) : x = o[n - 1] + k
  <2>1. \A n \in 1..N : seqs[n] = renderBridge(doc[n])
    BY <1>3
  <2>2. \A x \in 1..o[N] : \E m \in 1..N : \E k \in 1..Len(seqs[m]) : x = o[m - 1] + k
    BY <1>6, <1>9
  <2> SUFFICES ASSUME NEW x \in 1..Len(R) PROVE \E n \in 1..N : \E k \in 1..Len(renderBridge(doc[n])) : x = o[n - 1] + k
    OBVIOUS
  <2>3. Len(R) = o[N]
    BY <1>7
  <2>4. PICK m \in 1..N : \E k \in 1..Len(seqs[m]) : x = o[m - 1] + k
    BY <2>2, <2>3
  <2> QED BY <2>1, <2>4
<1>11. ASSUME NEW n \in 1..N, NEW k \in 1..Len(renderBridge(doc[n])) PROVE o[n - 1] + k \in 1..Len(R)
  <2>1. n \in 0..N /\ n - 1 \in 0..N /\ n \in 0..N
    BY <1>1
  <2>2. o[n] <= o[N] /\ o[n] \in Nat /\ o[N] \in Nat /\ o[n - 1] \in Nat /\ Len(renderBridge(doc[n])) \in Nat
    BY <1>1, <1>6, <1>9, <2>1, RenderedBridge
  <2>3. o[n] = o[n - 1] + Len(renderBridge(doc[n]))
    BY <1>7
  <2> QED BY <1>7, <2>2, <2>3
<1>12. Plain(R)
  <2> SUFFICES ASSUME NEW x \in 1..Len(R) PROVE R[x].kind = "directive"
    BY <1>8, FileFacts DEF Plain
  <2>1. PICK n \in 1..N : \E k \in 1..Len(renderBridge(doc[n])) : x = o[n - 1] + k
    BY <1>10
  <2>2. PICK k \in 1..Len(renderBridge(doc[n])) : R[x] = renderBridge(doc[n])[k]
    BY <1>7, <2>1
  <2> QED BY <1>1, <2>2, RenderedBridge
<1>13. \A n, m \in 1..N : n < m => o[n] <= o[m - 1]
  <2> SUFFICES ASSUME NEW n \in 1..N, NEW m \in 1..N, n < m PROVE o[n] <= o[m - 1]
    OBVIOUS
  <2>1. m - 1 \in 0..N /\ n \in 0..(m - 1)
    BY <1>1
  <2> QED BY <1>6, <2>1
<1>14. Rendered(doc, R, o)
  BY <1>6, <1>7, <1>8, <1>10, <1>11, <1>12, <1>13, Zenon DEF Rendered, N
<1> QED BY <1>14 DEF R

\* The first line the bridge page owns is a connection line.
LEMMA FirstIsConnection ==
    ASSUME NEW f \in File, connectionItems(f) # {}
    PROVE  LET M == connectionItems(f)
           IN  /\ M \subseteq DOMAIN f /\ (\A i \in M : f[i].kind = "directive") /\ Min(M) \in Outside(f)
               /\ Min(M) \in M /\ Min(M) - 1 \in Nat /\ (\A i \in M : Min(M) - 1 < i) /\ (Min(M) - 1) + 1 = Min(M)
               /\ \A i \in Outside(f) : i \notin M => f[i].key # "connection"
               /\ \A i \in Outside(f) : i \notin M /\ f[i].key \in connectionKeys => i <= Min(M) - 1
<1> DEFINE M == connectionItems(f)
           lines == {i \in Outside(f) : f[i].key = "connection"}
<1>1. M = lines \cup {i \in Outside(f) : IsConnectionKey(f[i].key) /\ \E c \in lines : c < i}
  BY DEF connectionItems
<1>2. M \subseteq Outside(f) /\ Outside(f) \subseteq DOMAIN f /\ lines \subseteq M
  BY <1>1, ConnectionLines
<1>3. DOMAIN f = 1..Len(f) /\ Len(f) \in Nat
  BY FileFacts
<1>4. \A i \in Outside(f) : f[i].kind = "directive"
  BY DEF Outside, IsDirective
<1> HIDE DEF M
<1>5. M # {}
  BY DEF M
<1>6. M \subseteq 1..Len(f)
  BY <1>2, <1>3
<1>7. Min(M) \in M /\ \A i \in M : Min(M) <= i
  BY <1>3, <1>5, <1>6, LinesOf, MaxFacts
<1>8. \A i \in M : i \in Nat /\ i >= 1
  BY <1>3, <1>6
<1>9. Min(M) - 1 \in Nat /\ (\A i \in M : Min(M) - 1 < i) /\ (Min(M) - 1) + 1 = Min(M)
  BY <1>7, <1>8
<1>10. Min(M) \in lines
  <2> SUFFICES ASSUME Min(M) \notin lines PROVE FALSE
    OBVIOUS
  <2>1. PICK c \in lines : c < Min(M)
    BY <1>1, <1>7
  <2>2. c \in M
    BY <1>2
  <2> QED BY <1>7, <1>8, <2>1, <2>2
<1>11. ASSUME NEW i \in Outside(f), i \notin M, f[i].key \in connectionKeys PROVE i <= Min(M) - 1
  <2>1. ~(Min(M) < i)
    BY <1>1, <1>10, <1>11 DEF IsConnectionKey
  <2>2. i # Min(M) /\ i \in Nat /\ Min(M) \in Nat
    BY <1>2, <1>3, <1>7, <1>8, <1>11
  <2> QED BY <2>1, <2>2
<1>12. \A i \in Outside(f) : i \notin M => f[i].key # "connection"
  BY <1>2
<1> QED BY <1>2, <1>4, <1>7, <1>9, <1>10, <1>11, <1>12 DEF M

\* The sections of a document in a file g, behind line a: the connection
\* directives that the broker finds there are theirs.
Placed(doc, o, a, g) ==
    /\ g \in File /\ a \in Nat
    /\ \A n \in 1..Len(doc) : \A k \in 1..Len(renderBridge(doc[n])) :
         a + (o[n - 1] + k) \in Outside(g) /\ g[a + (o[n - 1] + k)] = renderBridge(doc[n])[k]
    /\ \A x \in Outside(g) : x > a /\ (g[x].key = "connection" \/ g[x].key \in connectionKeys) =>
         \E n \in 1..Len(doc) : \E k \in 1..Len(renderBridge(doc[n])) : x = a + (o[n - 1] + k)
    /\ \A x \in Outside(g) : x \in Nat /\ (g[x].key = "connection" => x > a)

LEMMA SplicedLines ==
    ASSUME NEW f \in File, connectionItems(f) # {}, NEW doc \in Seq(Bridge), NEW R, NEW o, Rendered(doc, R, o),
           NEW a, a = Min(connectionItems(f)) - 1, NEW g, NEW psi, Spliced(f, connectionItems(f), R, a, g, psi)
    PROVE  Placed(doc, o, a, g)
<1> DEFINE M == connectionItems(f)
           N == Len(doc)
<1>1. /\ M \subseteq DOMAIN f /\ (\A i \in M : f[i].kind = "directive") /\ Min(M) \in Outside(f)
      /\ a \in Nat /\ (\A i \in M : a < i) /\ a + 1 = Min(M)
      /\ \A i \in Outside(f) : i \notin M => f[i].key # "connection"
      /\ \A i \in Outside(f) : i \notin M /\ f[i].key \in connectionKeys => i <= a
  BY FirstIsConnection
<1> HIDE DEF M
<1>2. Spliced(f, M, R, a, g, psi) /\ R \in File /\ Plain(R) /\ M \subseteq DOMAIN f
  BY <1>1 DEF Rendered, M
<1>3. g \in File /\ DOMAIN g \subseteq Nat /\ Outside(g) \subseteq DOMAIN g
  <2>1. g \in File
    BY <1>2 DEF Spliced
  <2> QED BY <2>1, FileFacts, ConnectionLines
<1>4. ASSUME NEW n \in 1..N, NEW k \in 1..Len(renderBridge(doc[n]))
      PROVE  a + (o[n - 1] + k) \in Outside(g) /\ g[a + (o[n - 1] + k)] = renderBridge(doc[n])[k]
  <2> DEFINE q == o[n - 1] + k
  <2>1. q \in 1..Len(R) /\ R[q] = renderBridge(doc[n])[k]
    BY DEF Rendered
  <2> HIDE DEF q
  <2>2. a + q \in Outside(g)
    <3>1. a + 1 \in Outside(f)
      BY <1>1
    <3> QED BY <1>1, <1>2, <2>1, <3>1, OutsideNew
  <2>3. g[a + q] = R[q]
    BY <1>2, <2>1 DEF Spliced
  <2> QED BY <2>1, <2>2, <2>3 DEF q
<1>5. ASSUME NEW x \in Outside(g), g[x].key = "connection" \/ g[x].key \in connectionKeys,
             ~ \E n \in 1..N : \E k \in 1..Len(renderBridge(doc[n])) : x = a + (o[n - 1] + k)
      PROVE  g[x].key # "connection" /\ x <= a
  <2>1. x \in DOMAIN g /\ ~ \E q \in 1..Len(R) : x = a + q
    <3>1. ASSUME NEW q \in 1..Len(R), x = a + q PROVE FALSE
      <4>1. \E n \in 1..N : \E k \in 1..Len(renderBridge(doc[n])) : q = o[n - 1] + k
        BY DEF Rendered
      <4> QED BY <1>5, <3>1, <4>1
    <3> QED BY <1>3, <3>1
  <2>2. PICK i \in DOMAIN f \ M : psi[i] = x
    BY <1>2, <2>1 DEF Spliced
  <2>3. i \in Outside(f)
    BY <1>1, <1>2, <2>2, OutsideKept
  <2>4. g[x] = f[i]
    BY <1>2, <2>2 DEF Spliced
  <2>5. f[i].key # "connection" /\ i <= a
    BY <1>1, <1>5, <2>3, <2>4
  <2>6. x = i
    BY <1>2, <2>2, <2>5 DEF Spliced
  <2> QED BY <2>4, <2>5, <2>6
<1>6. ASSUME NEW x \in Outside(g), x > a, g[x].key = "connection" \/ g[x].key \in connectionKeys
      PROVE  \E n \in 1..N : \E k \in 1..Len(renderBridge(doc[n])) : x = a + (o[n - 1] + k)
  <2>1. x \in Nat
    BY <1>3
  <2> QED BY <1>1, <1>5, <1>6, <2>1
<1>7. ASSUME NEW x \in Outside(g) PROVE x \in Nat /\ (g[x].key = "connection" => x > a)
  <2>1. x \in Nat
    BY <1>3
  <2>2. ASSUME g[x].key = "connection" PROVE x > a
    <3>0. PICK n \in 1..N : \E k \in 1..Len(renderBridge(doc[n])) : x = a + (o[n - 1] + k)
      BY <1>5, <2>2
    <3>1. PICK k \in 1..Len(renderBridge(doc[n])) : x = a + (o[n - 1] + k)
      BY <3>0
    <3>2. n - 1 \in 0..N /\ k \in Nat /\ k >= 1
      <4>1. N \in Nat /\ doc[n] \in Bridge
        OBVIOUS
      <4>2. Len(renderBridge(doc[n])) \in Nat
        BY <4>1, RenderedBridge
      <4> QED BY <4>1, <4>2
    <3>3. o[n - 1] \in Nat
      BY <3>2 DEF Rendered
    <3> QED BY <1>1, <3>1, <3>2, <3>3
  <2> QED BY <2>1, <2>2
<1> QED BY <1>1, <1>3, <1>4, <1>6, <1>7 DEF Placed

\* Mosquitto reads the document out of its new place.
LEMMA PlacedRead ==
    ASSUME NEW doc \in Seq(Bridge), NEW R, NEW o, NEW a, NEW g, Rendered(doc, R, o), Placed(doc, o, a, g),
           \A n \in 1..Len(doc) : AllTold(doc[n])
    PROVE  BrokerBridges(g) = doc
<1> DEFINE N == Len(doc)
           W(n) == renderBridge(doc[n])
           C == Lines(g, "connection")
           s == [n \in 1..N |-> a + (o[n - 1] + 1)]
<1>1. N \in Nat /\ (\A n \in 1..N : doc[n] \in Bridge) /\ a \in Nat /\ g \in File
  BY DEF Placed
<1>2. ASSUME NEW n \in 1..N
      PROVE  /\ W(n) \in File /\ Len(W(n)) \in Nat /\ 1 <= Len(W(n)) /\ W(n)[1].key = "connection"
             /\ (\A k \in 2..Len(W(n)) : W(n)[k].key \in connectionKeys) /\ Section(W(n), 1, 2..Len(W(n))) = doc[n]
             /\ 1 \in 1..Len(W(n)) /\ 2..Len(W(n)) \subseteq 1..Len(W(n))
  <2>1. doc[n] \in Bridge /\ AllTold(doc[n])
    BY <1>1
  <2>2. /\ W(n) \in File /\ Len(W(n)) \in Nat /\ 1 <= Len(W(n)) /\ W(n)[1].key = "connection"
        /\ (\A k \in 2..Len(W(n)) : W(n)[k].key \in connectionKeys) /\ Section(W(n), 1, 2..Len(W(n))) = doc[n]
    BY <2>1, RenderedBridge, Zenon
  <2> HIDE DEF W
  <2>3. 1 \in 1..Len(W(n)) /\ 2..Len(W(n)) \subseteq 1..Len(W(n))
    BY <2>2
  <2> QED BY <2>2, <2>3
<1>3. \A n \in 1..N : o[n] \in Nat /\ o[n - 1] \in Nat /\ o[n] = o[n - 1] + Len(W(n))
  <2>1. \A n \in 1..N : n \in 0..N /\ n - 1 \in 0..N
    BY <1>1
  <2> QED BY <2>1 DEF Rendered
<1>4. \A n, m \in 1..N : n < m => o[n] <= o[m - 1]
  BY DEF Rendered
<1>5. \A n \in 1..N : \A k \in 1..Len(W(n)) : a + (o[n - 1] + k) \in Outside(g) /\ g[a + (o[n - 1] + k)] = W(n)[k]
  BY DEF Placed
<1>6. \A x \in Outside(g) : x \in Nat /\ (g[x].key = "connection" => x > a)
  BY DEF Placed
<1>7. \A x \in Outside(g) : x > a /\ (g[x].key = "connection" \/ g[x].key \in connectionKeys) =>
         \E n \in 1..N : \E k \in 1..Len(W(n)) : x = a + (o[n - 1] + k)
  BY DEF Placed
<1> HIDE DEF N, W
<1>8. "connection" \notin connectionKeys
  BY DEF connectionKeys
<1>9. \A n, m \in 1..N : n < m => a + (o[n - 1] + Len(W(n))) < s[m] /\ s[n] < s[m]
  <2> SUFFICES ASSUME NEW n \in 1..N, NEW m \in 1..N, n < m
               PROVE  a + (o[n - 1] + Len(W(n))) < s[m] /\ s[n] < s[m]
    OBVIOUS
  <2>1. s[m] = a + (o[m - 1] + 1) /\ s[n] = a + (o[n - 1] + 1)
    OBVIOUS
  <2>2. o[n] \in Nat /\ o[n - 1] \in Nat /\ o[m - 1] \in Nat /\ o[n] = o[n - 1] + Len(W(n)) /\ o[n] <= o[m - 1]
    BY <1>3, <1>4
  <2>3. Len(W(n)) \in Nat /\ 1 <= Len(W(n)) /\ a \in Nat
    BY <1>1, <1>2
  <2>4. \A p, q, l \in Nat : 1 <= l /\ p + l <= q => a + (p + l) < a + (q + 1) /\ a + (p + 1) < a + (q + 1)
    BY <1>1
  <2>5. o[n - 1] + Len(W(n)) <= o[m - 1]
    BY <2>2
  <2>6. a + (o[n - 1] + Len(W(n))) < a + (o[m - 1] + 1) /\ a + (o[n - 1] + 1) < a + (o[m - 1] + 1)
    BY <2>2, <2>3, <2>4, <2>5
  <2> HIDE DEF s
  <2> QED BY <2>1, <2>6
<1>10. \A x \in C : x \in Outside(g) /\ g[x].key = "connection" /\ x \in Nat
  BY <1>6 DEF Lines
<1>11. ASSUME NEW n \in 1..N PROVE s[n] \in C /\ s[n] \in Nat /\ s[n] > a /\ g[s[n]].values = W(n)[1].values
  <2>1. s[n] = a + (o[n - 1] + 1) /\ o[n - 1] \in Nat
    BY <1>3
  <2>2. s[n] \in Outside(g) /\ g[s[n]] = W(n)[1]
    BY <1>2, <1>5, <2>1
  <2>3. g[s[n]].key = "connection"
    BY <1>2, <2>2
  <2> QED BY <1>1, <2>1, <2>2, <2>3 DEF Lines
<1>12. ASSUME NEW t \in C PROVE \E n \in 1..N : s[n] = t
  <2>1. t \in Outside(g) /\ g[t].key = "connection" /\ t > a
    BY <1>6, <1>10
  <2>2. PICK n \in 1..N : \E k \in 1..Len(W(n)) : t = a + (o[n - 1] + k)
    BY <1>7, <2>1
  <2>3. PICK k \in 1..Len(W(n)) : t = a + (o[n - 1] + k)
    BY <2>2
  <2>4. g[t] = W(n)[k]
    BY <1>5, <2>3
  <2>5. k = 1
    <3>1. k \notin 2..Len(W(n))
      BY <1>2, <1>8, <2>1, <2>4
    <3> QED BY <1>2, <3>1
  <2> QED BY <2>3, <2>5
<1>13. Moves(s, 1..N, C)
  <2>1. s \in [1..N -> C]
    <3>1. \A n \in 1..N : a + (o[n - 1] + 1) \in C
      BY <1>11
    <3> QED BY <3>1
  <2>2. \A n, m \in 1..N : n < m => s[n] < s[m]
    BY <1>9
  <2> HIDE DEF s, C
  <2> QED BY <1>12, <2>1, <2>2 DEF Moves
<1>14. Lineset(C) /\ InOrder(C) = s /\ DOMAIN s = 1..N
  <2>1. C \subseteq Nat
    BY <1>10
  <2>2. DOMAIN s = 1..N
    OBVIOUS
  <2> HIDE DEF s, C
  <2> QED BY <1>1, <1>13, <2>1, <2>2, OrderUnique
<1>15. 0 \notin C
  BY <1>1, ConnectionLines
<1> HIDE DEF s
<1>16. ASSUME NEW n \in 1..N PROVE Section(g, s[n], OptionsOf(g, s[n])) = doc[n]
  <2> DEFINE L == Len(W(n))
             T == OptionsOf(g, s[n])
             h == [k \in 2..L |-> a + (o[n - 1] + k)]
  <2>0. s[n] = a + (o[n - 1] + 1) /\ o[n - 1] \in Nat /\ L \in Nat /\ s[n] \in C /\ s[n] \in Nat /\ a \in Nat
    BY <1>1, <1>2, <1>3, <1>11 DEF s
  <2>1. \A x \in Nat : Scope(C, x) = s[n] <=> s[n] < x /\ \A j \in C : j < x => j <= s[n]
    BY <1>14, <1>15, <2>0, ScopeIs
  <2>2. T = {x \in Outside(g) : g[x].key \in connectionKeys /\ Scope(C, x) = s[n]}
    BY DEF OptionsOf
  <2> HIDE DEF C, T, L
  <2>3. ASSUME NEW k \in 2..L PROVE a + (o[n - 1] + k) \in T /\ g[a + (o[n - 1] + k)] = W(n)[k]
    <3> DEFINE x == a + (o[n - 1] + k)
    <3>1. k \in 1..L /\ k \in Nat /\ k > 1 /\ k <= L
      BY <2>0
    <3>2. x \in Outside(g) /\ g[x] = W(n)[k]
      BY <1>5, <3>1 DEF L
    <3>3. g[x].key \in connectionKeys
      BY <1>2, <3>2 DEF L
    <3>4. s[n] < x /\ x \in Nat
      BY <2>0, <3>1
    <3>5. ASSUME NEW j \in C, j < x PROVE j <= s[n]
      <4>1. PICK m \in 1..N : s[m] = j
        BY <1>12
      <4>2. CASE n < m
        <5>1. a + (o[n - 1] + L) < j
          BY <1>9, <4>1, <4>2 DEF L
        <5>2. j \in Nat
          BY <1>10
        <5> QED BY <2>0, <3>1, <3>5, <5>1, <5>2
      <4>3. CASE m < n
        <5>1. j < s[n] /\ j \in Nat
          BY <1>9, <1>10, <4>1, <4>3
        <5> QED BY <2>0, <5>1
      <4>4. CASE m = n
        BY <2>0, <4>1, <4>4
      <4>5. n < m \/ m < n \/ m = n
        BY <1>1
      <4> QED BY <4>2, <4>3, <4>4, <4>5
    <3>6. Scope(C, x) = s[n]
      BY <2>1, <3>4, <3>5
    <3> HIDE DEF x
    <3>7. x \in T /\ g[x] = W(n)[k]
      BY <2>2, <3>2, <3>3, <3>6
    <3> QED BY <3>7 DEF x
  <2>4. ASSUME NEW t \in T PROVE \E k \in 2..L : a + (o[n - 1] + k) = t
    <3>1. t \in Outside(g) /\ g[t].key \in connectionKeys /\ Scope(C, t) = s[n] /\ t \in Nat
      BY <1>6, <2>2
    <3>2. s[n] < t /\ \A j \in C : j < t => j <= s[n]
      BY <2>1, <3>1
    <3>3. t > a
      BY <2>0, <3>1, <3>2
    <3>4. PICK m \in 1..N : \E k \in 1..Len(W(m)) : t = a + (o[m - 1] + k)
      BY <1>7, <3>1, <3>3
    <3>5. PICK k \in 1..Len(W(m)) : t = a + (o[m - 1] + k)
      BY <3>4
    <3>6. g[t] = W(m)[k]
      BY <1>5, <3>5
    <3>7. Len(W(m)) \in Nat /\ o[m - 1] \in Nat /\ s[m] = a + (o[m - 1] + 1) /\ s[m] \in C /\ s[m] \in Nat
      BY <1>2, <1>3, <1>11 DEF s
    <3>8. k # 1
      BY <1>2, <1>8, <3>1, <3>6
    <3>9. k \in 2..Len(W(m)) /\ s[m] < t
      BY <2>0, <3>5, <3>7, <3>8
    <3>10. s[m] <= s[n]
      BY <3>2, <3>7, <3>9
    <3>11. ~(n < m)
      <4>1. n < m => s[n] < s[m]
        BY <1>9
      <4> QED BY <2>0, <3>7, <3>10, <4>1
    <3>12. ~(m < n)
      <4>1. m < n => a + (o[m - 1] + Len(W(m))) < s[n]
        BY <1>9
      <4>2. t <= a + (o[m - 1] + Len(W(m)))
        BY <2>0, <3>5, <3>7
      <4>3. \A p, q, r \in Nat : ~(p <= q /\ q < r /\ r < p)
        OBVIOUS
      <4>4. a + (o[m - 1] + Len(W(m))) \in Nat
        <5>1. \A p, l \in Nat : a + (p + l) \in Nat
          BY <1>1
        <5> QED BY <3>7, <5>1
      <4> QED BY <2>0, <3>1, <3>2, <4>1, <4>2, <4>3, <4>4
    <3>13. m = n
      BY <1>1, <3>11, <3>12
    <3> QED BY <3>5, <3>9, <3>13 DEF L
  <2>5. T \subseteq Nat
    BY <1>6, <2>2
  <2>6. Moves(h, 2..L, T)
    <3>1. h \in [2..L -> T]
      BY <2>3
    <3>2. \A i, j \in 2..L : i < j => h[i] < h[j]
      BY <2>0
    <3>3. \A t \in T : \E k \in 2..L : h[k] = t
      BY <2>4
    <3> HIDE DEF h
    <3> QED BY <3>1, <3>2, <3>3 DEF Moves
  <2>7. \A k \in 2..L : g[h[k]].key = W(n)[k].key /\ g[h[k]].values = W(n)[k].values
    BY <2>3
  <2>8. Lineset(2..L)
    <3>1. 2..L \subseteq 1..L
      BY <2>0
    <3> QED BY <2>0, <3>1, LinesOf
  <2> HIDE DEF h
  <2>9. /\ \A key : applyOption(g, T, key) = applyOption(W(n), 2..L, key)
        /\ Topics(g, T) = Topics(W(n), 2..L) /\ Remotes(g, T) = Remotes(W(n), 2..L)
    <3> DEFINE w == W(n)
               S == 2..L
    <3>1. Lineset(S) /\ Moves(h, S, T) /\ \A k \in S : g[h[k]].key = w[k].key /\ g[h[k]].values = w[k].values
      BY <2>6, <2>7, <2>8
    <3> HIDE DEF w, S
    <3>2. SameOptions(w, S, g, T)
      BY <2>5, <3>1, MovedSection
    <3> QED BY <3>2, Zenon DEF w, S, SameOptions
  <2>10. Section(g, s[n], T) = Section(W(n), 1, 2..L)
    BY <1>11, <2>9 DEF Section, SectionAt
  <2> QED BY <1>2, <2>10 DEF L, T
<1>17. BrokerBridges(g) = [n \in 1..N |-> Section(g, s[n], OptionsOf(g, s[n]))]
  BY <1>1, <1>14, BrokerSections
<1>18. BrokerBridges(g) = [n \in 1..N |-> doc[n]]
  BY <1>16, <1>17
<1>19. doc = [n \in 1..N |-> doc[n]]
  BY DEF N
<1> QED BY <1>18, <1>19

\* Mosquitto reads out of the file bridges.Apply writes what was applied.
LEMMA BridgesRead ==
    ASSUME NEW f \in File, connectionItems(f) # {}, NEW doc \in Seq(Bridge),
           \A n \in 1..Len(doc) : AllTold(doc[n])
    PROVE  BrokerBridges(bridgesApply(f, doc)) = doc
<1> DEFINE M == connectionItems(f)
           a == Min(M) - 1
           R == renderDocument(doc)
           g == insertItems(Kept(f, DOMAIN f \ M), a, R)
<1>1. bridgesApply(f, doc) = g
  BY DEF bridgesApply
<1>2. PICK o : Rendered(doc, R, o)
  BY RenderedDocument
<1>3. R \in File
  BY <1>2 DEF Rendered
<1>4. M \subseteq DOMAIN f
  BY FirstIsConnection
<1>5. \E psi : Spliced(f, M, R, a, g, psi)
  <2> HIDE DEF M, R
  <2>1. M # {}
    BY DEF M
  <2> QED BY <1>3, <1>4, <2>1, Splice
<1> HIDE DEF g, R
<1>6. PICK psi : Spliced(f, connectionItems(f), R, a, g, psi)
  BY <1>5
<1>7. a = Min(connectionItems(f)) - 1
  OBVIOUS
<1> HIDE DEF a, M
<1>8. Placed(doc, o, a, g)
  BY <1>2, <1>6, <1>7, SplicedLines
<1> QED BY <1>1, <1>2, <1>8, PlacedRead

TopicLine == {t \in Seq(Text) : t # <<>>}

\* An option of a connection has a value.
LEMMA OptionType ==
    ASSUME NEW f \in File, NEW i \in DOMAIN f, f[i].key \in connectionKeys \cup {"connection"}
    PROVE  f[i].values \in TopicLine /\ f[i].values[1] \in Text
<1>1. f[i] \in Item /\ f[i].values \in Seq(Text)
  BY FileFacts
<1>2. f[i].values # <<>>
  BY <1>1 DEF Item
<1>3. \A v \in Seq(Text) : v # <<>> => v[1] \in Text
  OBVIOUS
<1> QED BY <1>1, <1>2, <1>3 DEF TopicLine

LEMMA EmptyText == "" \in Text /\ "both" \in Text
<1>1. {"", "true", "mqtt", "both", DefaultModule, DatabaseFile} \subseteq Text
  BY ConfAssumption
<1> QED BY <1>1, Zenon

LEMMA ParsedRule ==
    ASSUME NEW v \in TopicLine
    PROVE  parseTopic(v) \in Rule
<1>1. v \in Seq(Text) /\ Len(v) \in Nat /\ v # <<>> /\ v[1] \in Text
  BY DEF TopicLine
<1>2. \A k \in 1..4 : ~(Len(v) < k) => v[k] \in Text
  BY <1>1
<1>3. /\ (IF Len(v) < 2 THEN "both" ELSE v[2]) \in Text
      /\ (IF Len(v) < 3 THEN "" ELSE v[3]) \in Text
      /\ (IF Len(v) < 4 THEN "" ELSE v[4]) \in Text
  <2>1. 2 \in 1..4 /\ 3 \in 1..4 /\ 4 \in 1..4
    OBVIOUS
  <2> QED BY <1>2, <2>1, EmptyText
<1>4. \A a, b, c, d \in Text : [topic |-> a, direction |-> b, local |-> c, remote |-> d] \in Rule
  BY DEF Rule
<1> QED BY <1>1, <1>3, <1>4, Zenon DEF parseTopic

LEMMA SectionType ==
    ASSUME NEW f \in File, NEW c \in Lines(f, "connection"), NEW S, S \subseteq DOMAIN f
    PROVE  FormSection(f, c, S) \in Bridge
<1>1. c \in DOMAIN f /\ f[c].key = "connection"
  BY DEF Lines, Outside
<1>2. f[c].values[1] \in Text
  BY <1>1, OptionType
<1>3. Lineset(S)
  BY FileFacts, LinesOf
<1>4. ASSUME NEW key \in connectionKeys PROVE applyOption(f, S, key) \in Text
  <2> DEFINE A == {i \in S : f[i].key = key /\ (key = "address" => f[i].values[1] # "")}
  <2>1. applyOption(f, S, key) = IF A = {} THEN "" ELSE f[Max(A)].values[1]
    BY DEF applyOption
  <2>2. Lineset(A)
    BY <1>3, FS_Subset DEF Lineset
  <2>3. \A i \in A : i \in DOMAIN f /\ f[i].key \in connectionKeys
    OBVIOUS
  <2> HIDE DEF A
  <2>4. CASE A = {}
    BY <2>1, <2>4, EmptyText
  <2>5. CASE A # {}
    <3>1. Max(A) \in A
      BY <2>2, <2>5, MaxFacts
    <3>2. f[Max(A)].values[1] \in Text
      BY <2>3, <3>1, OptionType
    <3> QED BY <2>1, <2>5, <3>2
  <2> QED BY <2>4, <2>5
<1>5. Topics(f, S) \in Seq(Rule)
  <2> DEFINE A == {i \in S : f[i].key = "topic"}
             at == InOrder(A)
  <2>1. Topics(f, S) = [r \in DOMAIN at |-> parseTopic(f[at[r]].values)]
    BY Zenon DEF Topics
  <2>2. Lineset(A)
    BY <1>3, FS_Subset DEF Lineset
  <2>3. \A i \in A : i \in DOMAIN f /\ f[i].key \in connectionKeys
    BY DEF connectionKeys
  <2> HIDE DEF A
  <2>4. \A i \in A : parseTopic(f[i].values) \in Rule
    BY <2>3, OptionType, ParsedRule
  <2>5. DOMAIN at = 1..Cardinality(A) /\ Cardinality(A) \in Nat /\ \A r \in 1..Cardinality(A) : at[r] \in A
    BY <2>2, Ordered, RankFacts
  <2> HIDE DEF at
  <2>6. [r \in 1..Cardinality(A) |-> parseTopic(f[at[r]].values)] \in [1..Cardinality(A) -> Rule]
    BY <2>4, <2>5
  <2>7. \A m \in Nat : \A h \in [1..m -> Rule] : h \in Seq(Rule)
    OBVIOUS
  <2> QED BY <2>1, <2>5, <2>6, <2>7
<1>6. "address" \in connectionKeys /\ "remote_password" \in connectionKeys /\ "keepalive_interval" \in connectionKeys
  BY DEF connectionKeys
<1>7. Bridge = [name : Text, address : Text, password : Text, keepalive : Text, topics : Seq(Rule)]
  BY DEF Bridge
<1>8. /\ applyOption(f, S, "address") \in Text /\ applyOption(f, S, "remote_password") \in Text
      /\ applyOption(f, S, "keepalive_interval") \in Text
  BY <1>4, <1>6
<1>9. \A n, a, p, k \in Text : \A t \in Seq(Rule) :
         [name |-> n, address |-> a, password |-> p, keepalive |-> k, topics |-> t]
           \in [name : Text, address : Text, password : Text, keepalive : Text, topics : Seq(Rule)]
  OBVIOUS
<1> QED BY <1>2, <1>5, <1>7, <1>8, <1>9, Zenon DEF FormSection, SectionAt

LEMMA ParsedType ==
    ASSUME NEW f \in File
    PROVE  bridgesParse(f) \in Seq(Bridge)
<1> DEFINE C == Lines(f, "connection")
           at == InOrder(C)
<1>1. bridgesParse(f) = [n \in DOMAIN at |-> FormSection(f, at[n], OptionsOf(f, at[n]))]
  BY ParsedSections
<1>2. DOMAIN at = 1..Cardinality(C) /\ Cardinality(C) \in Nat /\ \A r \in 1..Cardinality(C) : at[r] \in C
  BY ConnectionLines, Ordered, RankFacts
<1> HIDE DEF at
<1>3. \A n \in 1..Cardinality(C) : FormSection(f, at[n], OptionsOf(f, at[n])) \in Bridge
  BY <1>2, ConnectionLines, SectionType
<1> HIDE DEF C
<1>4. \A m \in Nat : \A h \in [1..m -> Bridge] : h \in Seq(Bridge)
  OBVIOUS
<1>5. bridgesParse(f) \in [1..Cardinality(C) -> Bridge]
  BY <1>1, <1>2, <1>3
<1> QED BY <1>2, <1>4, <1>5

\* An option of a connection is an item the bridge page owns.
LEMMA OptionsOwned ==
    ASSUME NEW f \in File, NEW c \in Lines(f, "connection"), NEW i \in OptionsOf(f, c)
    PROVE  i \in connectionItems(f) /\ i \in DOMAIN f /\ Scope(Lines(f, "connection"), i) = c
<1>1. /\ i \in Outside(f) /\ f[i].key \in connectionKeys /\ Scope(Lines(f, "connection"), i) = c
      /\ i \in DOMAIN f /\ i \in Nat /\ c \in Outside(f) /\ f[c].key = "connection"
  <2>1. i \in Outside(f) /\ f[i].key \in connectionKeys /\ Scope(Lines(f, "connection"), i) = c
    BY DEF OptionsOf
  <2>2. c \in Outside(f) /\ f[c].key = "connection"
    BY DEF Lines
  <2>3. Outside(f) \subseteq DOMAIN f /\ DOMAIN f \subseteq Nat
    BY ConnectionLines, FileFacts
  <2> QED BY <2>1, <2>2, <2>3
<1>2. c < i
  BY <1>1, ConnectionLines, ScopeIs
<1> QED BY <1>1, <1>2 DEF connectionItems, IsConnectionKey

\* Where the form can hold what the file says of a bridge, it has its address.
LEMMA SameAddress ==
    ASSUME NEW f \in File, FormHolds(f), NEW c \in Lines(f, "connection")
    PROVE  AddressList(Remotes(f, OptionsOf(f, c))) = applyOption(f, OptionsOf(f, c), "address")
<1> DEFINE S == OptionsOf(f, c)
           A == AddressLines(f, S)
           B == {i \in S : f[i].key = "address" /\ ("address" = "address" => f[i].values[1] # "")}
<1>1. ASSUME NEW i \in A
      PROVE  /\ f[i].key = "address" /\ Len(f[i].values) = 1 /\ f[i].values \in TopicLine
             /\ \A j \in A : j = i
  <2>1. \A j \in A : j \in S /\ f[j].key \in {"address", "addresses"}
    BY DEF AddressLines
  <2>2. \A j \in A : j \in connectionItems(f) /\ j \in DOMAIN f /\ Scope(Lines(f, "connection"), j) = c
    BY <2>1, OptionsOwned
  <2>3. \A j \in A : f[j].key = "address"
    BY <2>1, <2>2 DEF FormHolds
  <2>4. OneAddress(f, i, Lines(f, "connection"))
    BY <2>2, <2>3 DEF FormHolds
  <2>5. f[i].values \in TopicLine
    BY <2>2, <2>3, OptionType DEF connectionKeys
  <2> HIDE DEF A
  <2> QED BY <2>2, <2>3, <2>4, <2>5 DEF OneAddress
<1>2. applyOption(f, S, "address") = IF B = {} THEN "" ELSE f[Max(B)].values[1]
  BY Zenon DEF applyOption
<1>3. Remotes(f, S) = {v \in UNION {Range(f[i].values) : i \in A} : v # ""}
  BY Zenon DEF Remotes, Addresses
<1>4. B = {i \in A : f[i].values[1] # ""}
  <2>1. A = {i \in S : f[i].key = "address"}
    <3>1. A = {i \in S : f[i].key \in {"address", "addresses"}}
      BY DEF AddressLines
    <3>2. \A i \in A : f[i].key = "address"
      BY <1>1
    <3> HIDE DEF S
    <3> QED BY <3>1, <3>2
  <2> HIDE DEF A, S
  <2> QED BY <2>1
<1> HIDE DEF A, B
<1>5. CASE A = {}
  <2>1. B = {} /\ Remotes(f, S) = {}
    BY <1>3, <1>4, <1>5
  <2> QED BY <1>2, <2>1, Zenon DEF AddressList
<1>6. ASSUME NEW i \in A PROVE AddressList(Remotes(f, S)) = applyOption(f, S, "address")
  <2> DEFINE v == f[i].values[1]
  <2>1. A = {i} /\ Range(f[i].values) = {v}
    <3>1. f[i].values \in Seq(Text) /\ Len(f[i].values) = 1
      BY <1>1 DEF TopicLine
    <3>2. \A s \in Seq(Text) : Len(s) = 1 => DOMAIN s = {1}
      OBVIOUS
    <3> QED BY <1>1, <3>1, <3>2 DEF Range
  <2>2. UNION {Range(f[j].values) : j \in A} = {v}
    <3>1. {Range(f[j].values) : j \in A} = {{v}}
      BY <2>1
    <3> QED BY <3>1
  <2>3. i \in Nat
    BY FileFacts, ConnectionLines DEF A, AddressLines
  <2> HIDE DEF v
  <2>4. CASE v = ""
    <3>1. B = {} /\ Remotes(f, S) = {}
      BY <1>3, <1>4, <2>1, <2>2, <2>4 DEF v
    <3> QED BY <1>2, <3>1, Zenon DEF AddressList
  <2>5. CASE v # ""
    <3>1. B = {i} /\ Remotes(f, S) = {v}
      BY <1>3, <1>4, <2>1, <2>2, <2>5 DEF v
    <3>2. Lineset({i})
      BY <2>3, FS_Singleton DEF Lineset
    <3>3. Max(B) = i /\ B # {}
      <4>1. Max(B) \in B
        BY <3>1, <3>2, MaxFacts
      <4> QED BY <3>1, <4>1
    <3>4. applyOption(f, S, "address") = v
      BY <1>2, <3>3 DEF v
    <3>5. AddressList({v}) = v
      BY DEF AddressList
    <3> QED BY <3>1, <3>4, <3>5
  <2> QED BY <2>4, <2>5
<1> QED BY <1>5, <1>6

\* There the form holds all that Mosquitto reads, and lines can say it.
LEMMA ParsedIsRead ==
    ASSUME NEW f \in File, FormHolds(f)
    PROVE  bridgesParse(f) = BrokerBridges(f) /\ \A n \in 1..Len(bridgesParse(f)) : AllTold(bridgesParse(f)[n])
<1> DEFINE C == Lines(f, "connection")
           at == InOrder(C)
           N == Cardinality(C)
<1>1. /\ bridgesParse(f) = [n \in DOMAIN at |-> FormSection(f, at[n], OptionsOf(f, at[n]))]
      /\ BrokerBridges(f) = [n \in DOMAIN at |-> Section(f, at[n], OptionsOf(f, at[n]))]
  BY ParsedSections, BrokerSections
<1>2. DOMAIN at = 1..N /\ N \in Nat /\ \A r \in 1..N : at[r] \in C
  BY ConnectionLines, Ordered, RankFacts
<1> HIDE DEF at
<1>3. \A n \in 1..N : FormSection(f, at[n], OptionsOf(f, at[n])) = Section(f, at[n], OptionsOf(f, at[n]))
  <2>1. \A n \in 1..N : AddressList(Remotes(f, OptionsOf(f, at[n]))) = applyOption(f, OptionsOf(f, at[n]), "address")
    BY <1>2, SameAddress
  <2> QED BY <2>1 DEF FormSection, Section
<1>4. ASSUME NEW n \in 1..N PROVE AllTold(FormSection(f, at[n], OptionsOf(f, at[n])))
  <2> DEFINE S == OptionsOf(f, at[n])
             A == {i \in S : f[i].key = "topic"}
             rules == InOrder(A)
  <2>1. FormSection(f, at[n], S).topics = [r \in DOMAIN rules |-> parseTopic(f[rules[r]].values)]
    <3>1. FormSection(f, at[n], S).topics = Topics(f, S)
      BY DEF FormSection, SectionAt
    <3> QED BY <3>1, Zenon DEF Topics
  <2>2. Lineset(A)
    BY ConnectionLines, FS_Subset DEF Lineset
  <2>3. \A i \in A : i \in connectionItems(f) /\ f[i].key = "topic"
    BY <1>2, OptionsOwned
  <2>4. \A i \in A : Told(parseTopic(f[i].values))
    BY <2>3 DEF FormHolds, Told
  <2> HIDE DEF A, S
  <2>5. \A r \in DOMAIN rules : rules[r] \in A
    BY <2>2, Ordered, RankFacts
  <2> HIDE DEF rules
  <2>6. AllTold(FormSection(f, at[n], S))
    BY <2>1, <2>4, <2>5 DEF AllTold
  <2> QED BY <2>6 DEF S
<1>5. Len(bridgesParse(f)) = N
  BY <1>1, <1>2
<1>6. \A n \in 1..N : bridgesParse(f)[n] = FormSection(f, at[n], OptionsOf(f, at[n]))
  BY <1>1, <1>2
<1> QED BY <1>1, <1>2, <1>3, <1>4, <1>5, <1>6

\* Saving the bridges as loaded leaves the bridges Mosquitto reads.
LEMMA BridgesSaved ==
    ASSUME NEW f \in File, FormHolds(f)
    PROVE  BrokerBridges(bridgesApply(f, bridgesParse(f))) = BrokerBridges(f)
<1> DEFINE M == connectionItems(f)
           doc == bridgesParse(f)
<1>0. doc \in Seq(Bridge) /\ doc = BrokerBridges(f) /\ \A n \in 1..Len(doc) : AllTold(doc[n])
  BY ParsedType, ParsedIsRead
<1>1. CASE M # {}
  BY <1>0, <1>1, BridgesRead
<1>2. CASE M = {}
  <2>1. Lines(f, "connection") = {}
    BY <1>2 DEF connectionItems, Lines
  <2>2. DOMAIN InOrder(Lines(f, "connection")) = 1..0
    BY <2>1, FS_EmptySet DEF InOrder
  <2>3. doc = <<>>
    <3>1. DOMAIN doc = 1..0
      BY <1>0, <2>2, BrokerSections
    <3> HIDE DEF doc
    <3>2. Len(doc) = 0
      BY <1>0, <3>1
    <3> QED BY <1>0, <3>2
  <2>4. renderDocument(doc) = <<>>
    <3> DEFINE h == [n \in DOMAIN doc |-> renderBridge(doc[n])]
    <3>1. DOMAIN doc = 1..0 /\ 1..0 = {}
      BY <1>0, <2>2, BrokerSections
    <3> HIDE DEF doc
    <3>2. h \in Seq({<<>>})
      BY <3>1
    <3> HIDE DEF h
    <3>3. FlattenSeq(h) = <<>>
      BY <3>2, FlatEmpty
    <3> QED BY <3>3 DEF renderDocument, h
  <2>5. Kept(f, DOMAIN f) = f
    <3>1. [i \in DOMAIN f |-> IF i \in DOMAIN f THEN <<f[i]>> ELSE <<>>] = [i \in DOMAIN f |-> <<f[i]>>]
      OBVIOUS
    <3>2. FlattenSeq([i \in DOMAIN f |-> <<f[i]>>]) = f
      BY FlatSingles DEF File
    <3> QED BY <3>1, <3>2 DEF Kept
  <2>6. Len(f) \in 0..Len(f)
    BY FileFacts
  <2>7. insertItems(f, Len(f), <<>>) = f
    BY <2>6, InsertNothing DEF File
  <2>8. DOMAIN f \ M = DOMAIN f
    BY <1>2
  <2>9. bridgesApply(f, doc) = f
    <3>1. bridgesApply(f, doc) = insertItems(Kept(f, DOMAIN f \ M), Len(f), renderDocument(doc))
      BY <1>2 DEF bridgesApply
    <3> QED BY <2>4, <2>5, <2>7, <2>8, <3>1
  <2> QED BY <2>9
<1> QED BY <1>1, <1>2

-----------------------------------------------------------------------------
(* What the editors write is a file: the inductive invariant.             *)

PluginKeys == {"plugin", ConfigFile, OtherOption}
BridgeKeys == connectionKeys \cup {"connection"}

\* A value may replace another one on a line of the file.
Fits(key, values) == values \in Seq(Text) /\ (key \in PluginKeys => Len(values) = 1) /\ (key \in BridgeKeys => values # <<>>)

LEMMA ItemMade ==
    ASSUME NEW key \in Keyword, NEW values, Fits(key, values)
    PROVE  Directive(key, values) \in Item /\ Option(key, values) \in Item
<1>1. ASSUME NEW b \in BOOLEAN
      PROVE  [kind |-> "directive", key |-> key, values |-> values, indent |-> b] \in Item
  <2> DEFINE x == [kind |-> "directive", key |-> key, values |-> values, indent |-> b]
  <2>1. x \in [kind : {"directive", "open", "close"}, key : Keyword, values : Seq(Text), indent : BOOLEAN]
    BY DEF Fits
  <2>2. x.key = key /\ x.values = values
    OBVIOUS
  <2> HIDE DEF x
  <2>3. x \in Item
    BY <2>1, <2>2 DEF Item, Fits, PluginKeys, BridgeKeys
  <2> QED BY <2>3 DEF x
<1>2. TRUE \in BOOLEAN /\ FALSE \in BOOLEAN
  OBVIOUS
<1> QED BY <1>1, <1>2, Zenon DEF Directive, Option

LEMMA ItemEdited ==
    ASSUME NEW x \in Item, NEW values, Fits(x.key, values)
    PROVE  [x EXCEPT !.values = values] \in Item
<1> DEFINE y == [x EXCEPT !.values = values]
<1>1. x \in [kind : {"directive", "open", "close"}, key : Keyword, values : Seq(Text), indent : BOOLEAN]
  BY DEF Item
<1>2. y \in [kind : {"directive", "open", "close"}, key : Keyword, values : Seq(Text), indent : BOOLEAN]
  BY <1>1 DEF Fits
<1>3. y.key = x.key /\ y.values = values
  BY <1>1
<1> HIDE DEF y
<1>4. y \in Item
  BY <1>2, <1>3 DEF Item, Fits, PluginKeys, BridgeKeys
<1> QED BY <1>4 DEF y

LEMMA OneFits ==
    ASSUME NEW key, NEW value \in Text
    PROVE  Fits(key, <<value>>)
BY DEF Fits

LEMMA Single ==
    ASSUME NEW x \in Item
    PROVE  <<x>> \in File /\ <<>> \in File
BY DEF File

LEMMA FlatFile ==
    ASSUME NEW n \in Nat, NEW h, DOMAIN h = 1..n, h = [i \in 1..n |-> h[i]], \A i \in 1..n : h[i] \in File
    PROVE  FlattenSeq(h) \in File
<1>1. h \in [1..n -> File]
  OBVIOUS
<1>2. h \in Seq(File)
  BY <1>1
<1> QED BY <1>2, FlattenType DEF File

SettingLine == [directive : Keyword, want : Seq(Seq(Text))]

LEMMA SettingFits ==
    ASSUME NEW key \in Setting, NEW values \in Seq(Text)
    PROVE  Fits(key, values) /\ key \in Keyword
<1>1. Setting \cap (connectionKeys \cup {"connection", "plugin", ConfigFile, OtherOption}) = {} /\ Setting \subseteq Keyword
  BY ConfAssumption
<1> QED BY <1>1 DEF Fits, PluginKeys, BridgeKeys

LEMMA RewriteType ==
    ASSUME NEW f \in File, NEW doc \in Seq(SettingLine), settingsValidate(doc)
    PROVE  rewriteSettings(f, doc) \in File
<1> DEFINE mine(i) == {n \in DOMAIN doc : doc[n].directive = f[i].key /\ i \in analyse(f, doc[n].directive)}
           e(i) == doc[CHOOSE n \in mine(i) : TRUE]
           r(i) == Rank(analyse(f, e(i).directive), i)
           part(i) == IF mine(i) = {} THEN <<f[i]>>
                      ELSE IF r(i) <= Len(e(i).want) THEN <<[f[i] EXCEPT !.values = e(i).want[r(i)]]>> ELSE <<>>
           h == [i \in DOMAIN f |-> part(i)]
<1>1. rewriteSettings(f, doc) = FlattenSeq(h)
  BY Zenon DEF rewriteSettings
<1>2. Len(f) \in Nat /\ DOMAIN f = 1..Len(f)
  BY FileFacts
<1>3. ASSUME NEW i \in DOMAIN f PROVE part(i) \in File
  <2>1. f[i] \in Item
    BY FileFacts
  <2>2. CASE mine(i) = {}
    BY <2>1, <2>2, Single
  <2>3. CASE mine(i) # {} /\ ~(r(i) <= Len(e(i).want))
    BY <2>1, <2>3, Single
  <2>4. CASE mine(i) # {} /\ r(i) <= Len(e(i).want)
    <3> DEFINE n == CHOOSE n \in mine(i) : TRUE
    <3>1. n \in mine(i)
      BY <2>4
    <3> HIDE DEF n
    <3>2. n \in DOMAIN doc /\ doc[n].directive = f[i].key /\ i \in analyse(f, doc[n].directive)
      BY <3>1
    <3>3. doc[n] \in SettingLine
      BY <3>2
    <3>4. doc[n].want \in Seq(Seq(Text))
      BY <3>3 DEF SettingLine
    <3>5. Rank(analyse(f, doc[n].directive), i) \in 1..Cardinality(analyse(f, doc[n].directive))
          /\ Cardinality(analyse(f, doc[n].directive)) \in Nat
      BY <3>2, AnalyseLines, RankFacts
    <3>6. e(i) = doc[n]
      BY DEF n
    <3> HIDE DEF e, mine
    <3>7. r(i) \in Nat /\ r(i) >= 1
      BY <3>5, <3>6
    <3> HIDE DEF r
    <3>8. doc[n].want[r(i)] \in Seq(Text)
      <4>1. \A s \in Seq(Seq(Text)) : \A k \in Nat : k >= 1 /\ k <= Len(s) => s[k] \in Seq(Text)
        OBVIOUS
      <4> QED BY <2>4, <3>4, <3>6, <3>7, <4>1
    <3>9. doc[n].directive \in Setting
      BY <3>2 DEF settingsValidate
    <3>10. Fits(f[i].key, doc[n].want[r(i)])
      BY <3>2, <3>8, <3>9, SettingFits
    <3>11. [f[i] EXCEPT !.values = doc[n].want[r(i)]] \in Item
      BY <2>1, <3>10, ItemEdited
    <3>12. part(i) = <<[f[i] EXCEPT !.values = doc[n].want[r(i)]]>>
      BY <2>4, <3>6
    <3> QED BY <3>11, <3>12, Single
  <2> QED BY <2>2, <2>3, <2>4
<1> HIDE DEF part
<1>4. DOMAIN h = 1..Len(f) /\ h = [i \in 1..Len(f) |-> h[i]] /\ \A i \in 1..Len(f) : h[i] \in File
  BY <1>2, <1>3
<1> HIDE DEF h
<1> QED BY <1>1, <1>2, <1>4, FlatFile

LEMMA InsertMissingType ==
    ASSUME NEW f \in File, NEW e \in SettingLine, e.directive \in Setting
    PROVE  insertMissing(f, e) \in File
<1> DEFINE have == analyse(f, e.directive)
           missing == SubSeq(e.want, Cardinality(have) + 1, Len(e.want))
           at == IF have = {} THEN insertionIndex(f) ELSE Max(have)
           items == [n \in DOMAIN missing |-> Directive(e.directive, missing[n])]
<1>1. insertMissing(f, e) = insertItems(f, at, items)
  BY DEF insertMissing
<1>2. at \in 0..Len(f)
  <2>1. CASE have = {}
    BY <2>1, InsertionIndexIn
  <2>2. CASE have # {}
    <3>1. Max(have) \in have /\ have \subseteq DOMAIN f /\ Len(f) \in Nat /\ DOMAIN f = 1..Len(f)
      BY <2>2, AnalyseLines, MaxFacts, FileFacts
    <3> QED BY <2>2, <3>1
  <2> QED BY <2>1, <2>2
<1>3. missing \in Seq(Seq(Text))
  <2>1. e.want \in Seq(Seq(Text))
    BY DEF SettingLine
  <2>2. Cardinality(have) \in Nat
    BY AnalyseLines, RankFacts
  <2> HIDE DEF have
  <2>3. \A s \in Seq(Seq(Text)) : \A k \in Nat : SubSeq(s, k + 1, Len(s)) \in Seq(Seq(Text))
    OBVIOUS
  <2> QED BY <2>1, <2>2, <2>3
<1> HIDE DEF missing, at
<1>4. items \in File
  <2>1. Len(missing) \in Nat /\ DOMAIN missing = 1..Len(missing) /\ \A n \in 1..Len(missing) : missing[n] \in Seq(Text)
    BY <1>3
  <2>2. \A n \in 1..Len(missing) : Directive(e.directive, missing[n]) \in Item
    BY <2>1, SettingFits, ItemMade
  <2>3. \A m \in Nat : \A h \in [1..m -> Item] : h \in File
    BY DEF File
  <2>4. items \in [1..Len(missing) -> Item]
    BY <2>1, <2>2
  <2> QED BY <2>1, <2>3, <2>4
<1> HIDE DEF items
<1> QED BY <1>1, <1>2, <1>4, InsertIndex

\* The files the form passes through while it inserts the missing settings.
Passes(out, first, doc, k) ==
    out = [n \in 0..k |-> IF n = 0 THEN first ELSE insertMissing(out[n - 1], doc[n])]

LEMMA PassesExist ==
    ASSUME NEW first, NEW doc, NEW N \in Nat
    PROVE  \E out : Passes(out, first, doc, N)
<1> DEFINE S == {k \in 0..N : \E out : Passes(out, first, doc, k)}
<1>1. 0 \in S
  <2> DEFINE g == [n \in 0..0 |-> first]
  <2>1. \A n \in 0..0 : n = 0
    OBVIOUS
  <2>2. g = [n \in 0..0 |-> IF n = 0 THEN first ELSE insertMissing(g[n - 1], doc[n])]
    BY <2>1
  <2>3. Passes(g, first, doc, 0)
    BY <2>2 DEF Passes
  <2>4. 0 \in 0..N
    OBVIOUS
  <2> QED BY <2>3, <2>4
<1>2. ASSUME NEW k \in S, k < N PROVE k + 1 \in S
  <2>1. PICK out : Passes(out, first, doc, k)
    OBVIOUS
  <2> DEFINE last == insertMissing(out[k], doc[k + 1])
             g == [n \in 0..(k + 1) |-> IF n = k + 1 THEN last ELSE out[n]]
  <2>2. k \in Nat /\ k + 1 \in 0..N
    BY <1>2
  <2>3. ASSUME NEW n \in 0..(k + 1) PROVE g[n] = IF n = 0 THEN first ELSE insertMissing(g[n - 1], doc[n])
    <3> HIDE DEF last
    <3>1. CASE n = k + 1
      <4>1. n # 0 /\ n - 1 = k /\ k \in 0..(k + 1) /\ k # k + 1
        BY <2>2, <3>1
      <4>2. g[k] = out[k] /\ g[n] = last
        BY <3>1, <4>1
      <4> HIDE DEF g
      <4> QED BY <3>1, <4>1, <4>2 DEF last
    <3>2. CASE n # k + 1
      <4>1. n \in 0..k
        BY <2>2, <3>2
      <4>2. out[n] = IF n = 0 THEN first ELSE insertMissing(out[n - 1], doc[n])
        BY <2>1, <4>1 DEF Passes
      <4>3. n # 0 => n - 1 \in 0..(k + 1) /\ n - 1 # k + 1
        BY <2>2, <4>1
      <4>4. (n # 0 => g[n - 1] = out[n - 1]) /\ g[n] = out[n]
        BY <3>2, <4>3
      <4> HIDE DEF g
      <4> QED BY <4>2, <4>4
    <3> QED BY <3>1, <3>2
  <2>4. g = [n \in 0..(k + 1) |-> IF n = 0 THEN first ELSE insertMissing(g[n - 1], doc[n])]
    BY <2>3
  <2>5. Passes(g, first, doc, k + 1)
    BY <2>4 DEF Passes
  <2> QED BY <2>2, <2>5
<1>3. S \in SUBSET Nat /\ \A k \in S : k < N => k + 1 \in S
  BY <1>2
<1> HIDE DEF S
<1>4. N \in S
  <2>1. \A k \in 0..N : k \in S
    BY <1>1, <1>3, SetInduction
  <2> QED BY <2>1
<1> QED BY <1>4 DEF S

\* Every step of settings.Apply gives a file.
LEMMA SettingsType ==
    ASSUME NEW f \in File, NEW doc \in Seq(SettingLine), settingsValidate(doc)
    PROVE  settingsApply(f, doc) \in File
<1> DEFINE N == Len(doc)
           first == rewriteSettings(f, doc)
           F == CHOOSE out : out = [n \in 0..N |-> IF n = 0 THEN first ELSE insertMissing(out[n - 1], doc[n])]
<1>1. N \in Nat /\ \A n \in 1..N : doc[n] \in SettingLine /\ n \in DOMAIN doc
  OBVIOUS
<1>2. \A n \in 1..N : doc[n].directive \in Setting
  BY <1>1 DEF settingsValidate
<1>3. first \in File
  BY RewriteType
<1>4. settingsApply(f, doc) = F[N]
  BY DEF settingsApply
<1> HIDE DEF first, N
<1>5. F = [n \in 0..N |-> IF n = 0 THEN first ELSE insertMissing(F[n - 1], doc[n])]
  <2>1. \E out : Passes(out, first, doc, N)
    BY <1>1, PassesExist
  <2> QED BY <2>1, Zenon DEF Passes
<1> HIDE DEF F
<1> DEFINE S == {n \in 0..N : F[n] \in File}
<1>6. 0 \in S /\ S \in SUBSET Nat
  BY <1>1, <1>3, <1>5
<1>7. ASSUME NEW n \in S, n < N PROVE n + 1 \in S
  <2>1. n + 1 \in 0..N /\ n + 1 # 0 /\ (n + 1) - 1 = n /\ n + 1 \in 1..N /\ F[n] \in File
    BY <1>1, <1>7
  <2>2. F[n + 1] = insertMissing(F[n], doc[n + 1])
    BY <1>5, <2>1
  <2>3. insertMissing(F[n], doc[n + 1]) \in File
    BY <1>1, <1>2, <2>1, InsertMissingType
  <2> QED BY <2>1, <2>2, <2>3
<1>8. N \in S
  <2>1. \A n \in S : n < N => n + 1 \in S
    BY <1>7
  <2> HIDE DEF S
  <2>2. \A n \in 0..N : n \in S
    BY <1>1, <1>6, <2>1, SetInduction
  <2>3. N \in 0..N
    BY <1>1
  <2> QED BY <2>2, <2>3
<1> QED BY <1>4, <1>8

PluginLine == [module : Text, file : Text]

LEMMA PluginBlockType ==
    ASSUME NEW p \in PluginLine
    PROVE  pluginBlock(p) \in File
<1>1. p.module \in Text /\ p.file \in Text
  BY DEF PluginLine
<1>2. connectionKeys \cup {"connection", "plugin", ConfigFile, OtherOption} \subseteq Keyword
  BY ConfAssumption
<1>3. "plugin" \in Keyword /\ ManagedOption(p.module) \in Keyword
  BY <1>2 DEF ManagedOption
<1>4. Directive("plugin", <<p.module>>) \in Item /\ Directive(ManagedOption(p.module), <<p.file>>) \in Item
  BY <1>1, <1>3, OneFits, ItemMade
<1>5. <<Directive("plugin", <<p.module>>)>> \in File /\ <<Directive(ManagedOption(p.module), <<p.file>>)>> \in File
      /\ <<>> \in File
  BY <1>4, Single
<1>6. \A s, t \in File : s \o t \in File
  BY FileConcat
<1>7. CASE p.file = ""
  BY <1>5, <1>6, <1>7, Zenon DEF pluginBlock
<1>8. CASE p.file # ""
  BY <1>5, <1>6, <1>8, Zenon DEF pluginBlock
<1> QED BY <1>7, <1>8

\* plugins.Apply gives a file.
LEMMA PluginsType ==
    ASSUME NEW f \in File, NEW doc \in Seq(PluginLine)
    PROVE  pluginsApply(f, doc) \in File
<1> DEFINE claimed == matchGroups(f, doc)
           managed == {n \in DOMAIN doc : claimed[n] # 0 /\ MatchModule(doc[n].module)}
           removed == removedItems(f, claimed)
           m(i) == {n \in managed : claimed[n] = i}
           o(i) == {n \in managed : i \in optionIndexes(f, claimed[n]) /\ f[i].key = ConfigFile}
           edited(i) == IF m(i) # {} THEN [f[i] EXCEPT !.values = <<doc[CHOOSE n \in m(i) : TRUE].module>>]
                        ELSE IF o(i) # {} THEN [f[i] EXCEPT !.values = <<doc[CHOOSE n \in o(i) : TRUE].file>>]
                        ELSE f[i]
           a(i) == {n \in managed : /\ lastOptionIndex(f, claimed[n]) = i
                                    /\ optionValue(f, claimed[n], ConfigFile) = ""}
           behind(i) == IF a(i) = {} THEN <<>> ELSE <<Directive(ConfigFile, <<doc[CHOOSE n \in a(i) : TRUE].file>>)>>
           part(i) == IF i \in removed THEN <<>> ELSE <<edited(i)>> \o behind(i)
           block(n) == IF claimed[n] = 0 THEN pluginBlock(doc[n]) ELSE <<>>
           h == [i \in DOMAIN f |-> part(i)]
           k == [n \in DOMAIN doc |-> block(n)]
<1>1. pluginsApply(f, doc) = insertItems(FlattenSeq(h), insertionIndex(FlattenSeq(h)), FlattenSeq(k))
  BY Zenon DEF pluginsApply
<1>2. Len(f) \in Nat /\ DOMAIN f = 1..Len(f) /\ Len(doc) \in Nat /\ DOMAIN doc = 1..Len(doc)
  BY FileFacts
<1>3. \A n \in DOMAIN doc : doc[n] \in PluginLine /\ doc[n].module \in Text /\ doc[n].file \in Text
  <2>1. \A n \in DOMAIN doc : doc[n] \in PluginLine
    OBVIOUS
  <2>2. \A p \in PluginLine : p.module \in Text /\ p.file \in Text
    BY DEF PluginLine
  <2> QED BY <2>1, <2>2
<1>4. \A i : m(i) \subseteq DOMAIN doc /\ o(i) \subseteq DOMAIN doc /\ a(i) \subseteq DOMAIN doc
  OBVIOUS
<1> HIDE DEF m, o, a, managed, removed, claimed
<1>5. \A i : /\ m(i) # {} => (CHOOSE n \in m(i) : TRUE) \in DOMAIN doc
             /\ o(i) # {} => (CHOOSE n \in o(i) : TRUE) \in DOMAIN doc
             /\ a(i) # {} => (CHOOSE n \in a(i) : TRUE) \in DOMAIN doc
  BY <1>4
<1>6. ConfigFile \in Keyword /\ \A s, t \in File : s \o t \in File
  <2>1. connectionKeys \cup {"connection", "plugin", ConfigFile, OtherOption} \subseteq Keyword
    BY ConfAssumption
  <2> QED BY <2>1, FileConcat
<1>7. ASSUME NEW i \in DOMAIN f PROVE part(i) \in File
  <2>1. f[i] \in Item
    BY FileFacts
  <2>2. \A v \in Text : [f[i] EXCEPT !.values = <<v>>] \in Item
    BY <2>1, OneFits, ItemEdited
  <2>3. edited(i) \in Item
    BY <1>3, <1>5, <2>1, <2>2
  <2>4. \A v \in Text : Directive(ConfigFile, <<v>>) \in Item
    BY <1>6, OneFits, ItemMade
  <2>5. behind(i) \in File
    <3>1. CASE a(i) = {}
      BY <2>1, <3>1, Single
    <3>2. CASE a(i) # {}
      BY <1>3, <1>5, <2>4, <3>2, Single
    <3> QED BY <3>1, <3>2
  <2> HIDE DEF edited, behind
  <2>6. <<edited(i)>> \in File /\ <<>> \in File
    BY <2>3, Single
  <2> QED BY <1>6, <2>5, <2>6, Zenon
<1>8. ASSUME NEW n \in DOMAIN doc PROVE block(n) \in File
  <2>1. pluginBlock(doc[n]) \in File
    BY <1>3, PluginBlockType
  <2>2. <<>> \in File
    BY DEF File
  <2> QED BY <2>1, <2>2
<1> HIDE DEF part, block
<1>9. FlattenSeq(h) \in File
  <2>1. DOMAIN h = 1..Len(f) /\ h = [i \in 1..Len(f) |-> h[i]] /\ \A i \in 1..Len(f) : h[i] \in File
    BY <1>2, <1>7
  <2> HIDE DEF h
  <2> QED BY <1>2, <2>1, FlatFile
<1>10. FlattenSeq(k) \in File
  <2>1. DOMAIN k = 1..Len(doc) /\ k = [i \in 1..Len(doc) |-> k[i]] /\ \A i \in 1..Len(doc) : k[i] \in File
    BY <1>2, <1>8
  <2> HIDE DEF k
  <2> QED BY <1>2, <2>1, FlatFile
<1> HIDE DEF h, k
<1> QED BY <1>1, <1>9, <1>10, InsertionIndexIn, InsertIndex

LEMMA AdoptionType ==
    ASSUME NEW f \in File
    PROVE  /\ removeFileBackend(f) \in File
           /\ Append(pluginsExtract(f), [module |-> DefaultModule, file |-> DatabaseFile]) \in Seq(PluginLine)
<1>1. {i \in DOMAIN f : ~(IsDirective(f, i) /\ f[i].key \in {"password_file", "acl_file"})} \subseteq DOMAIN f
  OBVIOUS
<1>2. removeFileBackend(f) \in File
  BY <1>1, KeptIndex DEF removeFileBackend
<1>3. pluginsExtract(f) \in Seq(PluginLine)
  BY PluginEntries DEF PluginLine
<1>4. {"", "true", "mqtt", DefaultModule, DatabaseFile} \subseteq Text
  BY ConfAssumption
<1>5. DefaultModule \in Text /\ DatabaseFile \in Text
  BY <1>4
<1>6. [module |-> DefaultModule, file |-> DatabaseFile] \in PluginLine
  BY <1>5 DEF PluginLine
<1> QED BY <1>2, <1>3, <1>6

LEMMA MergedType ==
    ASSUME NEW doc \in Seq(Bridge), NEW current \in Seq(Bridge)
    PROVE  mergeBridgeSecrets(doc, current) \in Seq(Bridge)
<1> DEFINE old(n) == {m \in DOMAIN current : current[m].name = doc[n].name}
           entry(n) == IF doc[n].password # "" \/ old(n) = {} THEN doc[n]
                       ELSE [doc[n] EXCEPT !.password = current[Min(old(n))].password]
<1>1. mergeBridgeSecrets(doc, current) = [n \in DOMAIN doc |-> entry(n)]
  BY Zenon DEF mergeBridgeSecrets
<1>2. /\ Len(doc) \in Nat /\ DOMAIN doc = 1..Len(doc) /\ \A n \in 1..Len(doc) : doc[n] \in Bridge
      /\ Len(current) \in Nat /\ DOMAIN current = 1..Len(current) /\ \A n \in DOMAIN current : current[n] \in Bridge
  OBVIOUS
<1>3. \A b, c \in Bridge : [b EXCEPT !.password = c.password] \in Bridge
  BY DEF Bridge
<1>4. ASSUME NEW n \in 1..Len(doc) PROVE entry(n) \in Bridge
  <2>1. CASE old(n) = {}
    BY <1>2, <2>1
  <2>2. CASE old(n) # {}
    <3>1. Lineset(old(n))
      BY <1>2, LinesOf
    <3>2. Min(old(n)) \in DOMAIN current
      BY <2>2, <3>1, MaxFacts
    <3> HIDE DEF old
    <3> QED BY <1>2, <1>3, <3>2
  <2> QED BY <2>1, <2>2
<1> HIDE DEF entry
<1>5. mergeBridgeSecrets(doc, current) \in [1..Len(doc) -> Bridge]
  BY <1>1, <1>2, <1>4
<1>6. \A m \in Nat : \A h \in [1..m -> Bridge] : h \in Seq(Bridge)
  OBVIOUS
<1> QED BY <1>2, <1>5, <1>6

\* bridges.Apply gives a file.
LEMMA BridgesType ==
    ASSUME NEW f \in File, NEW doc \in Seq(Bridge)
    PROVE  bridgesApply(f, doc) \in File
<1> DEFINE M == connectionItems(f)
           R == renderDocument(doc)
           kept == Kept(f, DOMAIN f \ M)
           a == Min(M) - 1
<1>1. R \in File
  <2>1. PICK o : Rendered(doc, R, o)
    BY RenderedDocument
  <2> QED BY <2>1 DEF Rendered
<1>2. CASE M # {}
  <2>1. bridgesApply(f, doc) = insertItems(kept, a, R)
    BY <1>2 DEF bridgesApply
  <2>2. M \subseteq DOMAIN f
    BY <1>2, FirstIsConnection
  <2> HIDE DEF M, R
  <2>3. \E psi : Spliced(f, M, R, a, insertItems(kept, a, R), psi)
    BY <1>1, <1>2, <2>2, Splice
  <2> HIDE DEF a, kept
  <2>4. insertItems(kept, a, R) \in File
    BY <2>3, Zenon DEF Spliced
  <2> QED BY <2>1, <2>4
<1>3. CASE M = {}
  <2>1. bridgesApply(f, doc) = insertItems(kept, Len(f), R)
    BY <1>3 DEF bridgesApply
  <2>2. DOMAIN f \ M = DOMAIN f
    BY <1>3
  <2>3. Len(f) \in Nat /\ DOMAIN f = 1..Len(f)
    BY FileFacts
  <2>4. kept \in File /\ Len(kept) = Cardinality(DOMAIN f)
    BY <2>2, KeptIndex
  <2>5. ASSUME NEW n \in Nat PROVE Cardinality(1..n) = n
    <3>1. Cardinality(1..n) = IF 1 > n THEN 0 ELSE n - 1 + 1
      BY FS_Interval
    <3> QED BY <3>1
  <2>6. Cardinality(DOMAIN f) = Len(f)
    BY <2>3, <2>5
  <2>7. Len(f) \in 0..Len(kept)
    BY <2>3, <2>4, <2>6
  <2> HIDE DEF R, kept
  <2> QED BY <1>1, <2>1, <2>4, <2>7, InsertIndex
<1> QED BY <1>2, <1>3

\* The listener writer.
LEMMA GlobalType ==
    ASSUME NEW f \in File, NEW key
    PROVE  globalDirectiveValue(f, key) \in Seq(Text)
<1> DEFINE at == {i \in DOMAIN f : IsDirective(f, i) /\ f[i].key = key}
<1>1. globalDirectiveValue(f, key) = IF at = {} THEN <<>> ELSE f[Min(at)].values
  BY DEF globalDirectiveValue
<1>2. at \subseteq DOMAIN f /\ Lineset(at)
  BY FileFacts, LinesOf
<1> HIDE DEF at
<1>3. CASE at = {}
  BY <1>1, <1>3
<1>4. CASE at # {}
  <2>1. Min(at) \in DOMAIN f
    BY <1>2, <1>4, MaxFacts
  <2> QED BY <1>1, <1>4, <2>1, FileFacts
<1> QED BY <1>3, <1>4

\* The part of the file the listener writer keeps is a file.
LEMMA HeadType ==
    ASSUME NEW f \in File
    PROVE  filterListenerItems(f) \in File /\ ensurePerListenerSettings(f) \in File
<1>1. filterListenerItems(f) \in File
  <2> DEFINE block == listenerBlock(f)
             S == {i \in DOMAIN f \ block :
                      IsDirective(f, i) => /\ ~listenerOption(f, block, i)
                                           /\ f[i].key # "listener"
                                           /\ ~(f[i].key = "protocol" /\ precedesListener(f, i))}
  <2>1. filterListenerItems(f) = Kept(f, S)
    BY Zenon DEF filterListenerItems
  <2>2. S \subseteq DOMAIN f
    OBVIOUS
  <2> HIDE DEF S
  <2> QED BY <2>1, <2>2, KeptIndex
<1>2. ensurePerListenerSettings(f) \in File
  <2> DEFINE g == Kept(f, DOMAIN f \ perListenerItems(f))
             security == {i \in DOMAIN g : IsDirective(g, i) /\ g[i].key \in securityDirectives}
             at == IF security = {} THEN Len(g) ELSE Min(security) - 1
             x == Directive("per_listener_settings", <<"true">>)
  <2>1. ensurePerListenerSettings(f) = insertItems(g, at, <<x>>)
    BY DEF ensurePerListenerSettings, insertPerListenerSettings
  <2>2. g \in File
    BY KeptIndex
  <2> HIDE DEF g
  <2>3. Len(g) \in Nat /\ DOMAIN g = 1..Len(g) /\ security \subseteq DOMAIN g /\ Lineset(security)
    BY <2>2, FileFacts, LinesOf
  <2> HIDE DEF security
  <2>4. at \in 0..Len(g)
    <3>1. CASE security = {}
      BY <2>3, <3>1
    <3>2. CASE security # {}
      <4>1. Min(security) \in 1..Len(g)
        BY <2>3, <3>2, MaxFacts
      <4> QED BY <2>3, <3>2, <4>1
    <3> QED BY <3>1, <3>2
  <2>5. {"listener", "protocol", "acl_file", "password_file", "per_listener_settings"} \subseteq Keyword
    BY ConfAssumption
  <2>6. {"", "true", "mqtt", DefaultModule, DatabaseFile} \subseteq Text
    BY ConfAssumption
  <2>7. "true" \in Text /\ "per_listener_settings" \in Keyword
    BY <2>5, <2>6
  <2>8. <<x>> \in File
    BY <2>7, OneFits, ItemMade, Single
  <2> HIDE DEF at, x
  <2> QED BY <2>1, <2>2, <2>4, <2>8, InsertIndex
<1> QED BY <1>1, <1>2

Listener == [port : Text, acl : Seq(Text), password : Seq(Text)]

LEMMA ListenerType ==
    ASSUME NEW l \in Listener
    PROVE  renderListener(l) \in File
<1>1. l.port \in Text /\ l.acl \in Seq(Text) /\ l.password \in Seq(Text)
  BY DEF Listener
<1>2. {"listener", "protocol", "acl_file", "password_file", "per_listener_settings"} \subseteq Keyword
  BY ConfAssumption
<1>3. {"", "true", "mqtt", DefaultModule, DatabaseFile} \subseteq Text
  BY ConfAssumption
<1>4. "mqtt" \in Text /\ "listener" \in Keyword /\ "protocol" \in Keyword /\ "acl_file" \in Keyword /\ "password_file" \in Keyword
  BY <1>2, <1>3
<1>5. Directive("listener", <<l.port>>) \in Item /\ Option("protocol", <<"mqtt">>) \in Item
  BY <1>1, <1>4, OneFits, ItemMade
<1>6. Fits("acl_file", l.acl) /\ Fits("password_file", l.password)
  BY <1>1 DEF Fits, PluginKeys, BridgeKeys, connectionKeys, ConfigFile, OtherOption
<1>7. Option("acl_file", l.acl) \in Item /\ Option("password_file", l.password) \in Item
  BY <1>4, <1>6, ItemMade
<1>8. \A x, y \in Item : <<x, y>> \in File /\ <<x>> \in File /\ <<>> \in File
  BY DEF File
<1>9. \A s, t \in File : s \o t \in File
  BY FileConcat
<1> DEFINE p == <<Directive("listener", <<l.port>>), Option("protocol", <<"mqtt">>)>>
           q == IF l.acl = <<>> THEN <<>> ELSE <<Option("acl_file", l.acl)>>
           r == IF l.password = <<>> THEN <<>> ELSE <<Option("password_file", l.password)>>
<1>10. p \in File
  BY <1>5, <1>8
<1>11. q \in File
  BY <1>7, <1>8
<1>12. r \in File
  BY <1>7, <1>8
<1>13. renderListener(l) = p \o q \o r
  BY Zenon DEF renderListener
<1> HIDE DEF p, q, r
<1> QED BY <1>9, <1>10, <1>11, <1>12, <1>13

\* The listener sections are a file.
LEMMA AllType ==
    ASSUME NEW rendered, rendered \subseteq Listener
    PROVE  RenderAll(rendered) \in File
<1> DEFINE here(n) == {l \in rendered : l.port = PortOrder[n]}
           part(n) == IF here(n) = {} THEN <<>> ELSE renderListener(CHOOSE l \in here(n) : TRUE)
           h == [n \in DOMAIN PortOrder |-> part(n)]
<1>1. RenderAll(rendered) = FlattenSeq(h)
  BY Zenon DEF RenderAll
<1>2. Len(PortOrder) \in Nat /\ DOMAIN PortOrder = 1..Len(PortOrder)
  <2>1. PortOrder \in Seq(Text)
    BY ConfAssumption
  <2> QED BY <2>1
<1>3. ASSUME NEW n PROVE part(n) \in File
  <2>1. CASE here(n) = {}
    BY <2>1 DEF File
  <2>2. CASE here(n) # {}
    <3>1. (CHOOSE l \in here(n) : TRUE) \in rendered
      BY <2>2
    <3> HIDE DEF here
    <3>2. part(n) = renderListener(CHOOSE l \in here(n) : TRUE)
      BY <2>2
    <3> QED BY <3>1, <3>2, ListenerType
  <2> QED BY <2>1, <2>2
<1> HIDE DEF part
<1>4. DOMAIN h = 1..Len(PortOrder) /\ h = [i \in 1..Len(PortOrder) |-> h[i]] /\ \A i \in 1..Len(PortOrder) : h[i] \in File
  BY <1>2, <1>3
<1> HIDE DEF h
<1> QED BY <1>1, <1>2, <1>4, FlatFile

\* What a listener inherits from the broker-wide files.
LEMMA InheritType ==
    ASSUME NEW s, s.port \in Text, s.acl \in {<<>>} \cup (Text \X Text), NEW head \in File
    PROVE  inheritGlobalAccessControl(s, head) \in Listener
<1> DEFINE globalACL == globalDirectiveValue(head, "acl_file")
           resolved == BrokerACLPath(s.acl, globalACL, s.port)
           acl == IF s.acl = <<>> THEN globalACL ELSE IF resolved = <<>> THEN s.acl ELSE resolved
           password == globalDirectiveValue(head, "password_file")
<1>1. globalACL \in Seq(Text) /\ password \in Seq(Text)
  BY GlobalType
<1>2. inheritGlobalAccessControl(s, head) = [port |-> s.port, acl |-> acl, password |-> password]
  BY Zenon DEF inheritGlobalAccessControl
<1> HIDE DEF globalACL, password
<1>3. \A a, b \in Text : <<a, b>> \in Seq(Text)
  OBVIOUS
<1>4. \A p \in Text \X Text : p[2] \in Text /\ p = <<p[1], p[2]>> /\ p[1] \in Text
  OBVIOUS
<1>5. \A p \in Text \X Text : p \in Seq(Text)
  BY <1>3, <1>4
<1>6. resolved = <<>> \/ resolved \in Seq(Text)
  <2>1. CASE s.acl = <<>> \/ globalACL = <<>> \/ s.acl[2] # ListenerACLFileName(s.port)
    BY <2>1 DEF BrokerACLPath
  <2>2. CASE ~(s.acl = <<>> \/ globalACL = <<>> \/ s.acl[2] # ListenerACLFileName(s.port))
    <3>1. resolved = <<globalACL[1], s.acl[2]>>
      BY <2>2, Zenon DEF BrokerACLPath
    <3>2. s.acl[2] \in Text
      BY <1>4, <2>2
    <3>3. globalACL[1] \in Text
      BY <1>1, <2>2
    <3> HIDE DEF resolved
    <3> QED BY <1>3, <3>1, <3>2, <3>3
  <2> QED BY <2>1, <2>2
<1> HIDE DEF resolved
<1>7. acl \in Seq(Text)
  <2>1. s.acl = <<>> \/ s.acl \in Seq(Text)
    BY <1>5
  <2> QED BY <1>1, <1>6, <2>1
<1> HIDE DEF acl
<1> QED BY <1>1, <1>2, <1>7 DEF Listener

\* The file that an editor writes is a file again.
LEMMA WrittenIs ==
    ASSUME NEW file, Written(file)
    PROVE  confItems' = file
BY DEF Written

\* Every editor keeps the file a file: the inductive step.
LEMMA FileKept ==
    ASSUME confItems \in File, [NextEdit]_editVars
    PROVE  confItems' \in File
<1>1. CASE PreviewBrokerSettings
  <2>1. PICK doc \in SettingsDocument : settingsValidate(doc) /\ Written(settingsApply(confItems, doc))
    BY <1>1 DEF PreviewBrokerSettings
  <2>2. SettingsDocument \subseteq Seq([directive : Keyword, want : Seq(Seq(Text))])
    BY ConfAssumption
  <2>3. doc \in Seq(SettingLine)
    BY <2>2, Zenon DEF SettingLine
  <2>4. settingsApply(confItems, doc) \in File
    BY <2>1, <2>3, SettingsType
  <2>5. confItems' = settingsApply(confItems, doc)
    BY <2>1, WrittenIs
  <2> QED BY <2>4, <2>5
<1>2. CASE PreviewPlugins
  <2>1. PICK doc \in PluginsDocument : Written(pluginsApply(confItems, doc))
    BY <1>2 DEF PreviewPlugins
  <2>2. PluginsDocument \subseteq Seq([module : Text, file : Text])
    BY ConfAssumption
  <2>3. doc \in Seq(PluginLine)
    BY <2>2, Zenon DEF PluginLine
  <2>4. pluginsApply(confItems, doc) \in File
    BY <2>3, PluginsType
  <2>5. confItems' = pluginsApply(confItems, doc)
    BY <2>1, WrittenIs
  <2> QED BY <2>4, <2>5
<1>3. CASE previewAdoptionConfig
  <2> DEFINE doc == Append(pluginsExtract(confItems), [module |-> DefaultModule, file |-> DatabaseFile])
  <2>1. Written(removeFileBackend(pluginsApply(confItems, doc)))
    BY <1>3, Zenon DEF previewAdoptionConfig
  <2>2. doc \in Seq(PluginLine)
    BY AdoptionType
  <2> HIDE DEF doc
  <2>3. removeFileBackend(pluginsApply(confItems, doc)) \in File
    BY <2>2, PluginsType, AdoptionType
  <2>4. confItems' = removeFileBackend(pluginsApply(confItems, doc))
    BY <2>1, WrittenIs
  <2> QED BY <2>3, <2>4
<1>4. CASE previewBridgesLocked
  <2>1. PICK doc \in BridgesDocument : Written(bridgesApply(confItems, mergeBridgeSecrets(doc, bridgesParse(confItems))))
    BY <1>4, Zenon DEF previewBridgesLocked
  <2>2. BridgesDocument \subseteq Seq([name : Text, address : Text, password : Text, keepalive : Text,
                                       topics : Seq(Rule)])
    BY ConfAssumption
  <2>3. doc \in Seq(Bridge)
    BY <2>2, Zenon DEF Bridge
  <2> DEFINE merged == mergeBridgeSecrets(doc, bridgesParse(confItems))
  <2>4. merged \in Seq(Bridge)
    BY <2>3, ParsedType, MergedType
  <2> HIDE DEF merged
  <2>5. bridgesApply(confItems, merged) \in File
    BY <2>4, BridgesType
  <2>6. confItems' = bridgesApply(confItems, merged)
    BY <2>1, WrittenIs DEF merged
  <2> QED BY <2>5, <2>6
<1>5. CASE WriteListeners
  <2> DEFINE bare == filterListenerItems(confItems)
             head == ensurePerListenerSettings(bare)
             own(specs) == {inheritGlobalAccessControl(s, head) : s \in dropDefaultListenerSpec(specs)}
             plain(specs) == {[port |-> s.port, acl |-> <<>>, password |-> <<>>] : s \in specs}
  <2>1. PICK specs \in ListenersDocument : \/ Written(head \o RenderAll(own(specs)))
                                           \/ Written(bare \o RenderAll(plain(specs)))
    BY <1>5, Zenon DEF WriteListeners
  <2>2. \A s \in specs : s.port \in Text /\ s.acl \in {<<>>} \cup (Text \X Text)
    BY ConfAssumption, Zenon
  <2>3. bare \in File /\ head \in File
    BY HeadType
  <2> HIDE DEF bare, head
  <2>4. own(specs) \subseteq Listener
    <3>1. \A s \in dropDefaultListenerSpec(specs) : s \in specs
      BY DEF dropDefaultListenerSpec
    <3> QED BY <2>2, <2>3, <3>1, InheritType
  <2>5. plain(specs) \subseteq Listener
    <3>1. \A p \in Text : [port |-> p, acl |-> <<>>, password |-> <<>>] \in Listener
      <4>1. <<>> \in Seq(Text)
        OBVIOUS
      <4>2. \A p \in Text : \A a, w \in Seq(Text) : [port |-> p, acl |-> a, password |-> w] \in Listener
        BY DEF Listener
      <4> QED BY <4>1, <4>2, Zenon
    <3> QED BY <2>2, <3>1, Zenon
  <2> HIDE DEF own, plain
  <2>6. head \o RenderAll(own(specs)) \in File /\ bare \o RenderAll(plain(specs)) \in File
    BY <2>3, <2>4, <2>5, AllType, FileConcat
  <2>7. confItems' = head \o RenderAll(own(specs)) \/ confItems' = bare \o RenderAll(plain(specs))
    BY <2>1, WrittenIs
  <2> QED BY <2>6, <2>7
<1>6. CASE \E s \in UNION ListenersDocument : s.acl # <<>> /\ DeployACLFile(s.port)
  BY <1>6 DEF DeployACLFile
<1>7. CASE UNCHANGED editVars
  BY <1>7 DEF editVars
<1> QED BY <1>1, <1>2, <1>3, <1>4, <1>5, <1>6, <1>7 DEF NextEdit

(* For every file made of items, every catalog of directives and plugins    *)
(* and every document: whatever the editors did before, saving a form as it *)
(* was loaded changes nothing.  settings.Apply and plugins.Apply give the   *)
(* same items back, bridges.Apply a file with the same bridges where the    *)
(* form can hold what the file says of them.                                *)
THEOREM SavingKeeps == EditSpec => []SaveIsNoChange
<1>1. InitFile => confItems \in File
  <2>1. StartFile \subseteq Seq(Item)
    BY ConfAssumption
  <2> QED BY <2>1 DEF InitFile, File
<1>2. confItems \in File /\ [NextEdit]_editVars => (confItems \in File)'
  BY FileKept
<1>3. confItems \in File => SaveIsNoChange
  BY SettingsSaved, PluginsSaved, BridgesSaved DEF SaveIsNoChange
<1> QED BY <1>1, <1>2, <1>3, PTL DEF EditSpec
=============================================================================

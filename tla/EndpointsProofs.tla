--------------------------- MODULE EndpointsProofs ---------------------------
(***************************************************************************)
(* Proofs about Endpoints, for any number of requests, revisions, listener *)
(* configurations and applies: a recorded revision has its files whatever  *)
(* overlaps, fails or crashes; without overlap, crash and failed recovery  *)
(* of a file, rows, files and broker agree after every apply up to named   *)
(* failures of a row update or a restart; and a write of the rest of       *)
(* mosquitto.conf survives.                                                *)
(***************************************************************************)
EXTENDS Endpoints, TLAPS

(* Types; an apply of the listeners is the apply of a preview.              *)
TypeInv == TypeOK /\ (la.pc # "idle" => la.id \in PreviewIds)

(* Every recorded revision has its files, also the ones the links and the  *)
(* requests in flight name.  A revision being created has its files and no *)
(* row yet, and no two requests create the same one: that is why a discard *)
(* takes the files of no recorded revision.                                *)
Recorded(r) == r \in Revisions /\ crows[r] # "none"

Creating(c) == req[c].pc \in {"profile", "insert"}

RowsInv == \A r \in Revisions : crows[r] # "none" => material[r] = "complete"

LinksInv == /\ link # NoRevision => Recorded(link)
            /\ tmp # NoRevision => Recorded(tmp)

CreateInv ==
  \A c \in Clients : Creating(c) =>
    /\ req[c].rev \in Revisions
    /\ material[req[c].rev] = "complete" /\ crows[req[c].rev] = "none"
    /\ \A d \in Clients : Creating(d) /\ d # c => req[d].rev # req[c].rev

ApplyInv ==
  \A c \in Clients : Applying(c) =>
    /\ Recorded(req[c].rev)
    /\ req[c].prev # NoRevision => Recorded(req[c].prev)
    /\ req[c].pc \in {"unlink", "symlink", "rename"} /\ req[c].back => req[c].prev # NoRevision
    /\ req[c].pc = "supersede" => req[c].prev # NoRevision

MaterialInv == RowsInv /\ LinksInv /\ CreateInv /\ ApplyInv

(* A clean history has one apply at a time.                                *)
AloneInv ==
  clean => /\ la.pc # "idle" => \A c \in Clients : ~Applying(c)
           /\ \A c, d \in Clients : Applying(c) /\ Applying(d) => c = d

(* The rest of mosquitto.conf, in the file and in what an apply of the     *)
(* listeners is going to write.                                            *)
HeadInv ==
  clean => /\ conf.head = edits
           /\ la.pc \in {"read", "write", "restart", "persist", "restore"} => la.snap.head = edits
           /\ la.pc = "write" => la.head = edits

-----------------------------------------------------------------------------
(* Where the parts are at each step of an apply that runs alone.           *)

Active == {r \in Revisions : crows[r] = "active"}

ActiveIs(S) == marked => Active = S

Only(r) == {r} \ {NoRevision}

Serving(plan, r) ==
  Composed /\ served =>
    broker = [up |-> plan \notin RefusedPlans, block |-> plan, cert |-> r]

Startable(plan, r) == Bound(plan) # {} => r # NoRevision

Settled ==
  /\ ActiveIs(Only(link)) /\ conf.block = lrows
  /\ Startable(lrows, link) /\ Serving(lrows, link)

(* The link has been switched and is not switched back.                    *)
Switched(q) ==
  \/ ~q.back /\ q.pc \in {"restart", "verify", "mark", "supersede"}
  \/ q.back /\ q.pc \in {"unlink", "symlink", "rename", "deactivate"}

CertInv(c) ==
  LET q == req[c] IN
  /\ q.rev # q.prev
  /\ q.pc \in {"verify", "mark", "supersede"} => ~q.back
  /\ q.pc \in {"deactivate", "fail"} => q.back
  /\ q.pc = "deactivate" => q.prev = NoRevision
  /\ q.pc = "rename" => tmp = Target(c)
  /\ link = IF Switched(q) THEN q.rev ELSE q.prev
  /\ ActiveIs(IF q.pc = "supersede" THEN {q.prev, q.rev} ELSE Only(q.prev))
  /\ conf.block = lrows /\ Startable(lrows, q.prev)
  /\ \/ q.pc \in {"verify", "mark", "supersede", "fail"}
     \/ ~q.back /\ q.pc \in {"unlink", "symlink", "rename"}
     => Serving(lrows, link)

ListenInv ==
  /\ ActiveIs(Only(link)) /\ Startable(lrows, link)
  /\ la.pc # "resolve" => Startable(la.plan, link)
  /\ la.pc \in {"restart", "persist"} => conf.block = la.plan
  /\ la.pc \notin {"restart", "persist", "restore"} => conf.block = lrows
  /\ la.pc \in {"read", "write", "restart", "persist", "restore"} => la.snap.block = lrows
  /\ la.pc = "persist" => Serving(la.plan, link)
  /\ \/ la.pc \in {"resolve", "snapshot", "read", "write", "restart", "consume"}
     \/ la.pc = "restore" /\ la.cause # "persist"
     => Serving(lrows, link)

AgreeInv ==
  clean => /\ la.pc = "idle" /\ (\A c \in Clients : ~Applying(c)) => Settled
           /\ \A c \in Clients : Applying(c) => CertInv(c)
           /\ la.pc # "idle" => ListenInv

IInv == TypeInv /\ MaterialInv /\ AloneInv /\ HeadInv /\ AgreeInv

-----------------------------------------------------------------------------
(* How a step moves a request and the apply of the listeners.              *)

Request == [pc : Steps, rev : Links, prev : Links, back : BOOLEAN]

LEMMA Moved ==
    ASSUME CertTypeOK, NEW c \in Clients, NEW pc \in Steps, Goto(c, pc)
    PROVE  /\ req' \in [Clients -> Request] /\ req'[c].pc = pc
           /\ req'[c].rev = req[c].rev /\ req'[c].prev = req[c].prev /\ req'[c].back = req[c].back
           /\ \A d \in Clients \ {c} : req'[d] = req[d]
  BY DEF CertTypeOK, Goto, Request

LEMMA Returned ==
    ASSUME CertTypeOK, NEW c \in Clients, Return(c)
    PROVE  /\ req' \in [Clients -> Request] /\ req'[c].pc = "idle"
           /\ \A d \in Clients \ {c} : req'[d] = req[d]
  BY DEF CertTypeOK, Return, NoRequest, Request, Steps, Links

LEMMA TurnedBack ==
    ASSUME CertTypeOK, NEW c \in Clients, BeginRollback(c)
    PROVE  /\ req' \in [Clients -> Request]
           /\ req'[c].pc = IF req[c].prev # NoRevision THEN "unlink" ELSE "deactivate"
           /\ req'[c].rev = req[c].rev /\ req'[c].prev = req[c].prev /\ req'[c].back = TRUE
           /\ \A d \in Clients \ {c} : req'[d] = req[d]
  BY DEF CertTypeOK, BeginRollback, Request, Steps

LEMMA Failed ==
    ASSUME CertTypeOK, clean \in BOOLEAN, NEW c \in Clients, ActivateFails(c)
    PROVE  /\ req' \in [Clients -> Request] /\ clean' \in BOOLEAN
           /\ clean' => clean /\ ~req[c].back
           /\ req[c].back => /\ req'[c].pc = "restart" /\ req'[c].rev = req[c].rev
                             /\ req'[c].prev = req[c].prev /\ req'[c].back = req[c].back
           /\ ~req[c].back => req'[c].pc = "idle"
           /\ \A d \in Clients \ {c} : req'[d] = req[d]
  <1>1. clean' \in BOOLEAN /\ (clean' => clean /\ ~req[c].back)
    BY DEF ActivateFails
  <1>2. CASE req[c].back
    BY <1>1, <1>2, Moved DEF ActivateFails, Steps
  <1>3. CASE ~req[c].back
    BY <1>1, <1>3, Returned DEF ActivateFails
  <1>4. QED
    BY <1>2, <1>3

ListenerApply ==
    [pc : {"idle", "resolve", "snapshot", "read", "write", "restart", "persist",
           "restore", "compensate", "consume"},
     id : PreviewIds \union {0}, plan : Plans, head : Edits,
     snap : [head : Edits, block : Plans], cause : {"none", "write", "restart", "persist"}]

LEMMA Idle ==
    /\ NoApply \in ListenerApply /\ NoApply.pc = "idle"
  BY HostAssumption DEF NoApply, ListenerApply, Edits

LEMMA LoadedType ==
    ASSUME HostTypeOK
    PROVE  Loaded \in [up : BOOLEAN, block : Plans, cert : Links]
  BY DEF HostTypeOK, Loaded

LEMMA RestartType ==
    ASSUME HostTypeOK, NEW b \in BOOLEAN, RestartSucceeds \/ RestartFails(b)
    PROVE  broker' \in [up : BOOLEAN, block : Plans, cert : Links] /\ served' \in BOOLEAN
  BY LoadedType DEF RestartSucceeds, RestartFails, HostTypeOK


-----------------------------------------------------------------------------
(* Types.                                                                  *)

LEMMA InitType == Init => TypeInv
  <1> SUFFICES ASSUME Init PROVE TypeInv
    OBVIOUS
  <1>1. HostTypeOK
    BY HostAssumption DEF Init, HostInit, HostTypeOK, Links, Edits
  <1>2. CertTypeOK
    BY DEF Init, CertInit, CertTypeOK, NoRequest, Links, Steps
  <1>3. ListenerTypeOK /\ begun \in 0..MaxApplies
    BY Idle, AppliesAssumption DEF Init, ListenerInit, ListenerTypeOK, ListenerApply
  <1>4. la.pc = "idle"
    BY Idle DEF Init, ListenerInit
  <1>5. QED
    BY <1>1, <1>2, <1>3, <1>4 DEF TypeOK, TypeInv

LEMMA StepTypeOK == TypeInv /\ [Next]_vars => TypeOK'
  <1> SUFFICES ASSUME TypeInv, [Next]_vars PROVE TypeOK'
    OBVIOUS
  <1>0. TypeOK /\ HostTypeOK /\ CertTypeOK /\ ListenerTypeOK /\ clean \in BOOLEAN
    BY DEF TypeInv, TypeOK, HostTypeOK
  <1> USE DEF Request
  <1>1. ASSUME NEW c \in Clients, NEW r \in Revisions, SaveRevision(c, r), UNCHANGED <<listenerVars, begun>>
        PROVE  TypeOK'
    <2>0. [NoRequest EXCEPT !.pc = "profile", !.rev = r] \in Request
      BY DEF NoRequest, Steps, Links
    <2>1. req' \in [Clients -> Request]
      BY <1>0, <1>1, <2>0 DEF SaveRevision, CertTypeOK
    <2>2. CertTypeOK'
      BY <1>0, <1>1, <2>1 DEF SaveRevision, CertTypeOK, Links, RowStates
    <2>3. HostTypeOK'
      BY <1>0, <1>1 DEF SaveRevision, HostTypeOK, Links, StoreFiles
    <2>4. ListenerTypeOK' /\ begun' \in 0..MaxApplies
      BY <1>0, <1>1 DEF TypeOK, ListenerTypeOK, listenerVars
    <2>5. QED
      BY <2>2, <2>3, <2>4 DEF TypeOK
  <1>2. ASSUME NEW c \in Clients, NEW r \in Revisions, BeginApply(c, r, Busy), UNCHANGED listenerVars, begun < MaxApplies, begun' = begun + 1
        PROVE  TypeOK'
    BY <1>2, <1>0, HostAssumption, AppliesAssumption
       DEF BeginApply, listenerVars, TypeOK, HostTypeOK, CertTypeOK, ListenerTypeOK,
           Steps, Links
  <1>3. ASSUME NEW c \in Clients, UpsertProfile(c), UNCHANGED <<listenerVars, begun>>
        PROVE  TypeOK'
    <2>1. req' \in [Clients -> Request]
      BY <1>0, <1>3, Moved, Returned DEF UpsertProfile, Steps
    <2>2. CertTypeOK'
      BY <1>0, <1>3, <2>1
         DEF UpsertProfile, CertTypeOK, Links, RowStates, UpsertCertificateProfile
    <2>3. HostTypeOK'
      BY <1>0, <1>3
         DEF UpsertProfile, HostTypeOK, Links, DiscardRevision, RemoveRevision
    <2>4. ListenerTypeOK' /\ begun' \in 0..MaxApplies
      BY <1>0, <1>3 DEF TypeOK, ListenerTypeOK, listenerVars
    <2>5. QED
      BY <2>2, <2>3, <2>4 DEF TypeOK
  <1>4. ASSUME NEW c \in Clients, InsertRevision(c), UNCHANGED <<listenerVars, begun>>
        PROVE  TypeOK'
    <2>1. req' \in [Clients -> Request]
      BY <1>0, <1>4, Returned DEF InsertRevision, Steps
    <2>2. CertTypeOK'
      BY <1>0, <1>4, <2>1
         DEF InsertRevision, CertTypeOK, Links, RowStates, InsertCertificateRevision
    <2>3. HostTypeOK'
      BY <1>0, <1>4
         DEF InsertRevision, HostTypeOK, Links, DiscardRevision, RemoveRevision
    <2>4. ListenerTypeOK' /\ begun' \in 0..MaxApplies
      BY <1>0, <1>4 DEF TypeOK, ListenerTypeOK, listenerVars
    <2>5. QED
      BY <2>2, <2>3, <2>4 DEF TypeOK
  <1>5. ASSUME NEW c \in Clients, ActivateUnlink(c), UNCHANGED <<listenerVars, begun>>
        PROVE  TypeOK'
    BY <1>5, <1>0, Moved, Failed
       DEF ActivateUnlink, listenerVars, TypeOK, HostTypeOK, CertTypeOK,
           ListenerTypeOK, Steps, Links, Target
  <1>6. ASSUME NEW c \in Clients, ActivateSymlink(c), UNCHANGED <<listenerVars, begun>>
        PROVE  TypeOK'
    BY <1>6, <1>0, Moved, Failed
       DEF ActivateSymlink, listenerVars, TypeOK, HostTypeOK, CertTypeOK,
           ListenerTypeOK, Steps, Links, Target
  <1>7. ASSUME NEW c \in Clients, ActivateRename(c), UNCHANGED <<listenerVars, begun>>
        PROVE  TypeOK'
    BY <1>7, <1>0, Moved, Failed
       DEF ActivateRename, listenerVars, TypeOK, HostTypeOK, CertTypeOK,
           ListenerTypeOK, Steps, Links, Target
  <1>8. ASSUME NEW c \in Clients, Deactivate(c), UNCHANGED <<listenerVars, begun>>
        PROVE  TypeOK'
    <2>1. req' \in [Clients -> Request]
      BY <1>0, <1>8, Moved DEF Deactivate, Steps
    <2>2. CertTypeOK'
      BY <1>0, <1>8, <2>1 DEF Deactivate, CertTypeOK, Links, RowStates
    <2>3. HostTypeOK'
      BY <1>0, <1>8 DEF Deactivate, HostTypeOK, Links
    <2>4. ListenerTypeOK' /\ begun' \in 0..MaxApplies
      BY <1>0, <1>8 DEF TypeOK, ListenerTypeOK, listenerVars
    <2>5. QED
      BY <2>2, <2>3, <2>4 DEF TypeOK
  <1>9. ASSUME NEW c \in Clients, RestartBroker(c), UNCHANGED <<listenerVars, begun>>
        PROVE  TypeOK'
    <2>1. req' \in [Clients -> Request]
      BY <1>0, <1>9, Moved, TurnedBack DEF RestartBroker, Steps
    <2>2. req[c].back \in BOOLEAN /\ (RestartSucceeds \/ RestartFails(req[c].back))
      BY <1>0, <1>9 DEF RestartBroker, CertTypeOK
    <2>3. broker' \in [up : BOOLEAN, block : Plans, cert : Links] /\ served' \in BOOLEAN
      BY <1>0, <2>2, RestartType
    <2>4. CertTypeOK'
      BY <1>0, <1>9, <2>1 DEF RestartBroker, CertTypeOK, Links, RowStates
    <2>5. HostTypeOK'
      BY <1>0, <1>9, <2>3 DEF RestartBroker, HostTypeOK, Links
    <2>6. ListenerTypeOK' /\ begun' \in 0..MaxApplies
      BY <1>0, <1>9 DEF TypeOK, ListenerTypeOK, listenerVars
    <2>7. QED
      BY <2>4, <2>5, <2>6 DEF TypeOK
  <1>10. ASSUME NEW c \in Clients, VerifyProfile(c), UNCHANGED <<listenerVars, begun>>
         PROVE  TypeOK'
    <2>1. req' \in [Clients -> Request]
      BY <1>0, <1>10, Moved, TurnedBack DEF VerifyProfile, Steps
    <2>2. CertTypeOK'
      BY <1>0, <1>10, <2>1 DEF VerifyProfile, CertTypeOK, Links, RowStates
    <2>3. HostTypeOK'
      BY <1>0, <1>10 DEF VerifyProfile, HostTypeOK, Links, hostVars
    <2>4. ListenerTypeOK' /\ begun' \in 0..MaxApplies
      BY <1>0, <1>10 DEF TypeOK, ListenerTypeOK, listenerVars
    <2>5. QED
      BY <2>2, <2>3, <2>4 DEF TypeOK
  <1>11. ASSUME NEW c \in Clients, MarkActive(c), UNCHANGED <<listenerVars, begun>>
         PROVE  TypeOK'
    <2>1. req' \in [Clients -> Request]
      BY <1>0, <1>11, Moved, Returned DEF MarkActive, Steps
    <2>2. CertTypeOK'
      BY <1>0, <1>11, <2>1
         DEF MarkActive, CertTypeOK, Links, RowStates,
             UpdateCertificateRevisionState
    <2>3. HostTypeOK'
      BY <1>0, <1>11 DEF MarkActive, HostTypeOK, Links
    <2>4. ListenerTypeOK' /\ begun' \in 0..MaxApplies
      BY <1>0, <1>11 DEF TypeOK, ListenerTypeOK, listenerVars
    <2>5. QED
      BY <2>2, <2>3, <2>4 DEF TypeOK
  <1>12. ASSUME NEW c \in Clients, MarkSuperseded(c), UNCHANGED <<listenerVars, begun>>
         PROVE  TypeOK'
    <2>1. req' \in [Clients -> Request]
      BY <1>0, <1>12, Returned DEF MarkSuperseded, Steps
    <2>2. CertTypeOK'
      BY <1>0, <1>12, <2>1
         DEF MarkSuperseded, CertTypeOK, Links, RowStates,
             UpdateCertificateRevisionState
    <2>3. HostTypeOK'
      BY <1>0, <1>12 DEF MarkSuperseded, HostTypeOK, Links
    <2>4. ListenerTypeOK' /\ begun' \in 0..MaxApplies
      BY <1>0, <1>12 DEF TypeOK, ListenerTypeOK, listenerVars
    <2>5. QED
      BY <2>2, <2>3, <2>4 DEF TypeOK
  <1>13. ASSUME NEW c \in Clients, MarkFailed(c), UNCHANGED <<listenerVars, begun>>
         PROVE  TypeOK'
    <2>1. req' \in [Clients -> Request]
      BY <1>0, <1>13, Returned DEF MarkFailed, hostVars, Steps
    <2>2. CertTypeOK'
      BY <1>0, <1>13, <2>1
         DEF MarkFailed, hostVars, CertTypeOK, Links, RowStates,
             UpdateCertificateRevisionState
    <2>3. HostTypeOK'
      BY <1>0, <1>13 DEF MarkFailed, hostVars, HostTypeOK, Links
    <2>4. ListenerTypeOK' /\ begun' \in 0..MaxApplies
      BY <1>0, <1>13 DEF TypeOK, ListenerTypeOK, listenerVars
    <2>5. QED
      BY <2>2, <2>3, <2>4 DEF TypeOK
  <1>14. ASSUME NEW p \in PreviewIds, NEW plan \in Plans, Preview(p, plan), UNCHANGED begun
         PROVE  TypeOK'
    BY <1>14, <1>0, HostAssumption
       DEF Preview, TypeOK, HostTypeOK, CertTypeOK, ListenerTypeOK, hostVars,
           certVars, LivePreviews
  <1>15. ASSUME NEW p \in PreviewIds, Expire(p), UNCHANGED begun PROVE TypeOK'
    <2>1. HostTypeOK' /\ CertTypeOK'
      BY <1>0, <1>15 DEF Expire, HostTypeOK, CertTypeOK, hostVars, certVars
    <2>2. ListenerTypeOK' /\ begun' \in 0..MaxApplies
      BY <1>0, <1>15 DEF Expire, TypeOK, ListenerTypeOK
    <2>3. QED
      BY <2>1, <2>2 DEF TypeOK
  <1>16. ASSUME NEW p \in PreviewIds, ApplyExpired(p), UNCHANGED begun PROVE TypeOK'
    BY <1>16, <1>0, HostAssumption
       DEF ApplyExpired, TypeOK, HostTypeOK, CertTypeOK, ListenerTypeOK, hostVars,
           certVars, LivePreviews
  <1>17. ASSUME NEW p \in PreviewIds, BeginListenerApply(p, Busy), begun < MaxApplies, begun' = begun + 1
         PROVE  TypeOK'
    <2>0. previews[p].plan \in Plans
      BY <1>0, <1>17 DEF BeginListenerApply, ListenerTypeOK
    <2>1. la' \in ListenerApply
      BY <2>0, <1>17, Idle DEF BeginListenerApply, ListenerApply
    <2>2. HostTypeOK' /\ CertTypeOK'
      BY <1>0, <1>17 DEF BeginListenerApply, HostTypeOK, CertTypeOK, certVars
    <2>3. ListenerTypeOK' /\ begun' \in 0..MaxApplies
      BY <1>0, <1>17, <2>1, AppliesAssumption
         DEF BeginListenerApply, TypeOK, ListenerTypeOK, ListenerApply
    <2>4. QED
      BY <2>2, <2>3 DEF TypeOK
  <1>18. ASSUME ResolveMaterial, UNCHANGED begun PROVE TypeOK'
    BY <1>18, <1>0, Idle
       DEF ResolveMaterial, TypeOK, HostTypeOK, CertTypeOK, ListenerTypeOK,
           hostVars, certVars, To, Done, ListenerApply
  <1>19. ASSUME Snapshot, UNCHANGED begun PROVE TypeOK'
    BY <1>19, <1>0, Idle
       DEF Snapshot, TypeOK, HostTypeOK, CertTypeOK, ListenerTypeOK, hostVars,
           certVars, To, Done, ListenerApply
  <1>20. ASSUME WriteRead, UNCHANGED begun PROVE TypeOK'
    BY <1>20, <1>0, Idle
       DEF WriteRead, TypeOK, HostTypeOK, CertTypeOK, ListenerTypeOK, hostVars,
           certVars, To, Done, ListenerApply
  <1>21. ASSUME WriteFile, UNCHANGED begun PROVE TypeOK'
    <2>1. la' \in ListenerApply
      BY <1>0, <1>21, Idle DEF WriteFile, ListenerTypeOK, ListenerApply, To
    <2>2. HostTypeOK' /\ CertTypeOK'
      BY <1>0, <1>21 DEF WriteFile, HostTypeOK, CertTypeOK, certVars, ListenerTypeOK
    <2>3. ListenerTypeOK' /\ begun' \in 0..MaxApplies
      BY <1>0, <1>21, <2>1, AppliesAssumption
         DEF WriteFile, TypeOK, ListenerTypeOK, ListenerApply
    <2>4. QED
      BY <2>2, <2>3 DEF TypeOK
  <1>22. ASSUME RestartListeners, UNCHANGED begun PROVE TypeOK'
    BY <1>22, <1>0, Idle, RestartType
       DEF RestartListeners, TypeOK, HostTypeOK, CertTypeOK, ListenerTypeOK,
           hostVars, certVars, To, Done, ListenerApply
  <1>23. ASSUME PersistRows, UNCHANGED begun PROVE TypeOK'
    BY <1>23, <1>0, Idle
       DEF PersistRows, TypeOK, HostTypeOK, CertTypeOK, ListenerTypeOK, hostVars,
           certVars, To, Done, ListenerApply, ReplaceAllListenerSpecs
  <1>24. ASSUME Restore, UNCHANGED begun PROVE TypeOK'
    BY <1>24, <1>0, Idle
       DEF Restore, TypeOK, HostTypeOK, CertTypeOK, ListenerTypeOK, hostVars,
           certVars, To, Done, ListenerApply
  <1>25. ASSUME Compensate, UNCHANGED begun PROVE TypeOK'
    BY <1>25, <1>0, Idle, RestartType
       DEF Compensate, TypeOK, HostTypeOK, CertTypeOK, ListenerTypeOK, hostVars,
           certVars, To, Done, ListenerApply
  <1>26. ASSUME Consume, UNCHANGED begun PROVE TypeOK'
    <2>1. la' \in ListenerApply /\ la.id \in PreviewIds
      BY <1>26, Idle DEF TypeInv, Consume, Done
    <2>2. HostTypeOK' /\ CertTypeOK'
      BY <1>0, <1>26 DEF Consume, HostTypeOK, CertTypeOK, certVars, hostVars
    <2>3. \A q \in DOMAIN previews' :
            /\ q \in PreviewIds
            /\ previews'[q] \in [plan : Plans, consumed : BOOLEAN, expired : BOOLEAN]
      BY <1>0, <1>26, <2>1, HostAssumption DEF Consume, ListenerTypeOK
    <2>4. ListenerTypeOK' /\ begun' \in 0..MaxApplies
      BY <1>0, <1>26, <2>1, <2>3 DEF TypeOK, ListenerTypeOK, ListenerApply
    <2>5. QED
      BY <2>2, <2>4 DEF TypeOK
  <1>27. ASSUME EditElsewhere, UNCHANGED begun PROVE TypeOK'
    BY <1>27, <1>0, HostAssumption, AppliesAssumption
       DEF EditElsewhere, TypeOK, HostTypeOK, CertTypeOK, ListenerTypeOK, certVars,
           listenerVars, Edits
  <1>28. ASSUME Crash PROVE TypeOK'
    <2>1. la' \in ListenerApply /\ NoRequest \in Request
      BY <1>28, Idle DEF Crash, NoRequest, Steps, Links
    <2>2. HostTypeOK' /\ CertTypeOK'
      BY <1>0, <1>28, <2>1 DEF Crash, HostTypeOK, CertTypeOK
    <2>3. ListenerTypeOK' /\ begun' \in 0..MaxApplies
      BY <1>0, <1>28, <2>1 DEF Crash, TypeOK, ListenerTypeOK, ListenerApply
    <2>4. QED
      BY <2>2, <2>3 DEF TypeOK
  <1>29. CASE UNCHANGED vars
    BY <1>29, <1>0
       DEF vars, hostVars, certVars, listenerVars, TypeOK, HostTypeOK, CertTypeOK,
           ListenerTypeOK
  <1>30. QED
    BY <1>1, <1>2, <1>3, <1>4, <1>5, <1>6, <1>7, <1>8, <1>9, <1>10, <1>11,
       <1>12, <1>13, <1>14, <1>15, <1>16, <1>17, <1>18, <1>19, <1>20, <1>21,
       <1>22, <1>23, <1>24, <1>25, <1>26, <1>27, <1>28, <1>29 DEF Next,
       Upload, CertStep, CreateStep, ApplyStep, PreviewStep, ListenerStep,
       Begin

LEMMA StepType == TypeInv /\ [Next]_vars => TypeInv'
  <1> SUFFICES ASSUME TypeInv, [Next]_vars PROVE la'.pc # "idle" => la'.id \in PreviewIds
    BY StepTypeOK DEF TypeInv
  <1>0. la \in ListenerApply
    BY DEF TypeInv, TypeOK, ListenerTypeOK, ListenerApply
  <1>1. CASE la' = la \/ la'.pc = "idle" \/ (la'.id = la.id /\ la.pc # "idle")
    BY <1>1 DEF TypeInv
  <1>2. ASSUME NEW p \in PreviewIds, BeginListenerApply(p, Busy) PROVE la'.id = p
    BY <1>2 DEF BeginListenerApply, NoApply
  <1>3. CASE ListenerStep
    <2>1. la.pc # "idle"
      BY <1>3
         DEF ListenerStep, ResolveMaterial, Snapshot, WriteRead, WriteFile,
             RestartListeners,
                 PersistRows, Restore, Compensate, Consume
    <2>2. la'.pc = "idle" \/ la'.id = la.id
      BY <1>0, <1>3, Idle
         DEF ListenerStep, ResolveMaterial, Snapshot, WriteRead, WriteFile,
                 RestartListeners, PersistRows, Restore, Compensate, Consume, To, Done, ListenerApply
    <2>3. QED
      BY <1>1, <2>1, <2>2
  <1>4. CASE Crash
    BY <1>4, Idle DEF Crash
  <1>5. QED
    <2>1. ASSUME NEW c \in Clients, Upload(c) \/ CertStep(c) PROVE la' = la
      BY <2>1 DEF Upload, CertStep, listenerVars
    <2>2. CASE PreviewStep
      BY <1>1, <2>2 DEF PreviewStep, Preview, Expire, ApplyExpired
    <2>3. CASE Begin
      <3>1. la' = la \/ \E p \in PreviewIds : BeginListenerApply(p, Busy)
        BY <2>3 DEF Begin, listenerVars
      <3>2. QED
        BY <1>1, <1>2, <3>1
    <2>4. CASE EditElsewhere
      BY <1>1, <2>4 DEF EditElsewhere, listenerVars
    <2>5. CASE UNCHANGED vars
      BY <1>1, <2>5 DEF vars, listenerVars
    <2>6. QED
      BY <1>1, <1>3, <1>4, <2>1, <2>2, <2>3, <2>4, <2>5 DEF Next


-----------------------------------------------------------------------------
(* The files behind the rows.                                              *)

LEMMA MaterialFrame ==
    ASSUME MaterialInv, UNCHANGED <<link, material, crows, tmp, req>>
    PROVE  MaterialInv'
  BY DEF MaterialInv, RowsInv, LinksInv, CreateInv, ApplyInv, Recorded, Creating,
     Applying

LEMMA TargetRecorded ==
    ASSUME ApplyInv, NEW c \in Clients, Applying(c)
    PROVE  Target(c) # NoRevision => Recorded(Target(c))
  BY DEF ApplyInv, Target, Recorded

(* A step of an apply: it takes no row away, points the links at recorded  *)
(* revisions only and keeps the revisions of its request.                  *)
LEMMA MaterialApply ==
    ASSUME MaterialInv, NEW c \in Clients, Applying(c), material' = material,
           \A r \in Revisions : crows'[r] = "none" <=> crows[r] = "none",
           link' \in {link, tmp, NoRevision}, tmp' \in {tmp, Target(c), NoRevision},
           \A d \in Clients \ {c} : req'[d] = req[d],
           \/ req'[c].pc = "idle"
           \/ /\ ~Creating(c)' /\ req'[c].rev = req[c].rev /\ req'[c].prev = req[c].prev
              /\ req'[c].pc \in {"unlink", "symlink", "rename"} /\ req'[c].back => req[c].prev # NoRevision
              /\ req'[c].pc = "supersede" => req[c].prev # NoRevision
    PROVE  MaterialInv'
  <1>1. \A r : Recorded(r)' <=> Recorded(r)
    BY DEF Recorded
  <1>2. RowsInv'
    BY DEF MaterialInv, RowsInv
  <1>3. LinksInv'
    <2>1. Target(c) # NoRevision => Recorded(Target(c))
      BY TargetRecorded DEF MaterialInv
    <2>2. link' # NoRevision => Recorded(link')
      BY DEF MaterialInv, LinksInv
    <2>3. tmp' # NoRevision => Recorded(tmp')
      BY <2>1 DEF MaterialInv, LinksInv
    <2>4. QED
      BY <1>1, <2>2, <2>3 DEF LinksInv, Recorded
  <1>4. \A d \in Clients : Creating(d)' => Creating(d) /\ req'[d] = req[d]
    BY DEF Creating
  <1>5. CreateInv'
    BY <1>4 DEF MaterialInv, CreateInv
  <1>6. ApplyInv'
    <2>1. ASSUME NEW d \in Clients, Applying(d)'
          PROVE  /\ Applying(d) /\ req'[d].rev = req[d].rev /\ req'[d].prev = req[d].prev
                 /\ req'[d].pc \in {"unlink", "symlink", "rename"} /\ req'[d].back => req'[d].prev # NoRevision
                 /\ req'[d].pc = "supersede" => req'[d].prev # NoRevision
      BY <2>1 DEF Applying, MaterialInv, ApplyInv
    <2>2. QED
      BY <1>1, <2>1 DEF MaterialInv, ApplyInv, Recorded
  <1>7. QED
    BY <1>2, <1>3, <1>5, <1>6 DEF MaterialInv

LEMMA InitMaterial == Init => MaterialInv
  BY DEF Init, HostInit, CertInit, MaterialInv, RowsInv, LinksInv, CreateInv,
     ApplyInv,
         Creating, Applying, NoRequest

LEMMA StepMaterial == TypeOK /\ MaterialInv /\ [Next]_vars => MaterialInv'
  <1> SUFFICES ASSUME TypeOK, MaterialInv, [Next]_vars PROVE MaterialInv'
    OBVIOUS
  <1>0. CertTypeOK /\ HostTypeOK /\ clean \in BOOLEAN
    BY DEF TypeOK, HostTypeOK
  <1>1. ASSUME NEW c \in Clients, NEW r \in Revisions, SaveRevision(c, r), UNCHANGED <<listenerVars, begun>>
        PROVE  MaterialInv'
    <2>1. /\ material[r] = "none" /\ \A s \in Revisions \ {r} : material'[s] = material[s]
          /\ UNCHANGED <<link, crows, tmp>> /\ crows[r] = "none" /\ r \in Revisions
      BY <1>0, <1>1 DEF SaveRevision, StoreFiles, HostTypeOK, MaterialInv, RowsInv
    <2>2. RowsInv' /\ LinksInv'
      BY <2>1 DEF MaterialInv, RowsInv, LinksInv, Recorded
    <2>3. CASE req' = req
      BY <2>1, <2>2, <2>3
         DEF MaterialInv, CreateInv, ApplyInv, Creating, Applying, Recorded
    <2>4. CASE req' # req
      <3>1. /\ req'[c].pc = "profile" /\ req'[c].rev = r /\ \A d \in Clients \ {c} : req'[d] = req[d]
            /\ material'[r] = "complete"
        <4> DEFINE q == [NoRequest EXCEPT !.pc = "profile", !.rev = r]
        <4>1. q.pc = "profile" /\ q.rev = r
          BY DEF NoRequest
        <4>2. req' = [req EXCEPT ![c] = q] /\ StoreFiles(r, "complete")
          BY <1>1, <2>4 DEF SaveRevision
        <4> HIDE DEF q
        <4>3. QED
          BY <1>0, <4>1, <4>2 DEF StoreFiles, HostTypeOK, CertTypeOK
      <3>2. CreateInv'
        BY <2>1, <3>1 DEF MaterialInv, CreateInv, Creating
      <3>3. ApplyInv'
        BY <2>1, <3>1 DEF MaterialInv, ApplyInv, Applying, Recorded
      <3>4. QED
        BY <2>2, <3>2, <3>3 DEF MaterialInv
    <2>5. QED
      BY <2>3, <2>4
  <1>2. ASSUME NEW c \in Clients, NEW r \in Revisions, BeginApply(c, r, Busy), UNCHANGED listenerVars, begun < MaxApplies, begun' = begun + 1
        PROVE  MaterialInv'
    <2>1. /\ UNCHANGED <<link, material, crows, tmp>> /\ Recorded(r)
          /\ req'[c].pc = "unlink" /\ req'[c].rev = r /\ req'[c].prev = link /\ req'[c].back = FALSE
          /\ \A d \in Clients \ {c} : req'[d] = req[d]
      BY <1>0, <1>2
         DEF BeginApply, LoadRevision, HasRevisionRow, Recorded, CertTypeOK
    <2>2. RowsInv' /\ LinksInv'
      BY <2>1 DEF MaterialInv, RowsInv, LinksInv, Recorded
    <2>3. CreateInv'
      BY <2>1 DEF MaterialInv, CreateInv, Creating
    <2>4. ApplyInv'
      BY <2>1 DEF MaterialInv, LinksInv, ApplyInv, Applying, Recorded
    <2>5. QED
      BY <2>2, <2>3, <2>4 DEF MaterialInv
  <1>3. ASSUME NEW c \in Clients, UpsertProfile(c), UNCHANGED <<listenerVars, begun>>
        PROVE  MaterialInv'
    <2>1. /\ UNCHANGED <<link, crows, tmp>> /\ Creating(c) /\ req[c].rev \in Revisions
          /\ crows[req[c].rev] = "none"
      BY <1>3 DEF UpsertProfile, Creating, MaterialInv, CreateInv
    <2>2. CASE Goto(c, "insert") /\ UNCHANGED material
      <3>1. /\ req'[c].pc = "insert" /\ req'[c].rev = req[c].rev
            /\ \A d \in Clients \ {c} : req'[d] = req[d]
        BY <1>0, <2>2, Moved DEF Steps
      <3>2. RowsInv' /\ LinksInv' /\ CreateInv' /\ ApplyInv'
        BY <2>1, <2>2, <3>1
           DEF MaterialInv, RowsInv, LinksInv, CreateInv, ApplyInv, Creating, Applying, Recorded
      <3>3. QED
        BY <3>2 DEF MaterialInv
    <2>3. CASE DiscardRevision(req[c].rev) /\ Return(c)
      <3>1. /\ req'[c].pc = "idle" /\ \A d \in Clients \ {c} : req'[d] = req[d]
        BY <1>0, <2>3, Returned DEF UpsertProfile
      <3>2. \A s \in Revisions \ {req[c].rev} : material'[s] = material[s]
        BY <1>0, <2>3 DEF DiscardRevision, RemoveRevision, HostTypeOK
      <3>3. RowsInv' /\ LinksInv'
        BY <2>1, <3>2, <2>3 DEF MaterialInv, RowsInv, LinksInv, Recorded
      <3>4. CreateInv'
        BY <2>1, <3>1, <3>2, <2>3 DEF MaterialInv, CreateInv, Creating
      <3>5. ApplyInv'
        BY <2>1, <3>1, <2>3 DEF MaterialInv, ApplyInv, Applying, Recorded
      <3>6. QED
        BY <3>3, <3>4, <3>5 DEF MaterialInv
    <2>4. QED
      BY <1>3, <2>2, <2>3 DEF UpsertProfile
  <1>4. ASSUME NEW c \in Clients, InsertRevision(c), UNCHANGED <<listenerVars, begun>>
        PROVE  MaterialInv'
    <2>1. /\ UNCHANGED <<link, tmp>> /\ Creating(c) /\ req[c].rev \in Revisions
          /\ crows[req[c].rev] = "none" /\ material[req[c].rev] = "complete" /\ Return(c)
      BY <1>4 DEF InsertRevision, Creating, MaterialInv, CreateInv
    <2>2. CASE InsertCertificateRevision(req[c].rev) /\ UNCHANGED material
      <3>1. /\ req'[c].pc = "idle" /\ \A d \in Clients \ {c} : req'[d] = req[d]
        BY <1>0, <2>1, Returned
      <3>2. /\ crows'[req[c].rev] = "pending" /\ \A s \in Revisions \ {req[c].rev} : crows'[s] = crows[s]
        BY <1>0, <2>1, <2>2 DEF InsertCertificateRevision, CertTypeOK
      <3>3. RowsInv'
        BY <2>1, <2>2, <3>2 DEF MaterialInv, RowsInv
      <3>4. LinksInv' /\ ApplyInv'
        BY <2>1, <3>1, <3>2 DEF MaterialInv, LinksInv, ApplyInv, Applying, Recorded
      <3>5. CreateInv'
        BY <2>1, <2>2, <3>1, <3>2 DEF MaterialInv, CreateInv, Creating
      <3>6. QED
        BY <3>3, <3>4, <3>5 DEF MaterialInv
    <2>3. CASE DiscardRevision(req[c].rev) /\ UNCHANGED crows
      <3>1. /\ req'[c].pc = "idle" /\ \A d \in Clients \ {c} : req'[d] = req[d]
        BY <1>0, <2>1, Returned
      <3>2. \A s \in Revisions \ {req[c].rev} : material'[s] = material[s]
        BY <1>0, <2>3 DEF DiscardRevision, RemoveRevision, HostTypeOK
      <3>3. RowsInv' /\ LinksInv'
        BY <2>1, <3>2, <2>3 DEF MaterialInv, RowsInv, LinksInv, Recorded
      <3>4. CreateInv'
        BY <2>1, <3>1, <3>2, <2>3 DEF MaterialInv, CreateInv, Creating
      <3>5. ApplyInv'
        BY <2>1, <3>1, <2>3 DEF MaterialInv, ApplyInv, Applying, Recorded
      <3>6. QED
        BY <3>3, <3>4, <3>5 DEF MaterialInv
    <2>4. QED
      BY <1>4, <2>2, <2>3 DEF InsertRevision
  <1>5. ASSUME NEW c \in Clients, ActivateUnlink(c), UNCHANGED <<listenerVars, begun>>
        PROVE  MaterialInv'
    <2>1. Applying(c) /\ req[c].pc = "unlink"
      BY <1>5 DEF ActivateUnlink, Applying
    <2>2. /\ \A d \in Clients \ {c} : req'[d] = req[d]
          /\ \/ req'[c].pc = "idle"
             \/ /\ ~Creating(c)' /\ req'[c].rev = req[c].rev /\ req'[c].prev = req[c].prev
                /\ req'[c].pc \in {"unlink", "symlink", "rename"} /\ req'[c].back => req[c].prev # NoRevision
                /\ req'[c].pc = "supersede" => req[c].prev # NoRevision
      BY <1>0, <1>5, <2>1, Moved, Failed
         DEF ActivateUnlink, Creating, Steps, MaterialInv, ApplyInv
    <2>3. /\ material' = material /\ \A s \in Revisions : crows'[s] = "none" <=> crows[s] = "none"
          /\ link' \in {link, tmp, NoRevision} /\ tmp' \in {tmp, Target(c), NoRevision}
      BY <1>0, <1>5, <2>1 DEF ActivateUnlink
    <2>4. QED
      BY <2>1, <2>2, <2>3, MaterialApply
  <1>6. ASSUME NEW c \in Clients, ActivateSymlink(c), UNCHANGED <<listenerVars, begun>>
        PROVE  MaterialInv'
    <2>1. Applying(c) /\ req[c].pc = "symlink"
      BY <1>6 DEF ActivateSymlink, Applying
    <2>2. /\ \A d \in Clients \ {c} : req'[d] = req[d]
          /\ \/ req'[c].pc = "idle"
             \/ /\ ~Creating(c)' /\ req'[c].rev = req[c].rev /\ req'[c].prev = req[c].prev
                /\ req'[c].pc \in {"unlink", "symlink", "rename"} /\ req'[c].back => req[c].prev # NoRevision
                /\ req'[c].pc = "supersede" => req[c].prev # NoRevision
      BY <1>0, <1>6, <2>1, Moved, Failed
         DEF ActivateSymlink, Creating, Steps, MaterialInv, ApplyInv
    <2>3. /\ material' = material /\ \A s \in Revisions : crows'[s] = "none" <=> crows[s] = "none"
          /\ link' \in {link, tmp, NoRevision} /\ tmp' \in {tmp, Target(c), NoRevision}
      BY <1>0, <1>6, <2>1 DEF ActivateSymlink
    <2>4. QED
      BY <2>1, <2>2, <2>3, MaterialApply
  <1>7. ASSUME NEW c \in Clients, ActivateRename(c), UNCHANGED <<listenerVars, begun>>
        PROVE  MaterialInv'
    <2>1. Applying(c) /\ req[c].pc = "rename"
      BY <1>7 DEF ActivateRename, Applying
    <2>2. /\ \A d \in Clients \ {c} : req'[d] = req[d]
          /\ \/ req'[c].pc = "idle"
             \/ /\ ~Creating(c)' /\ req'[c].rev = req[c].rev /\ req'[c].prev = req[c].prev
                /\ req'[c].pc \in {"unlink", "symlink", "rename"} /\ req'[c].back => req[c].prev # NoRevision
                /\ req'[c].pc = "supersede" => req[c].prev # NoRevision
      BY <1>0, <1>7, <2>1, Moved, Failed
         DEF ActivateRename, Creating, Steps, MaterialInv, ApplyInv
    <2>3. /\ material' = material /\ \A s \in Revisions : crows'[s] = "none" <=> crows[s] = "none"
          /\ link' \in {link, tmp, NoRevision} /\ tmp' \in {tmp, Target(c), NoRevision}
      BY <1>0, <1>7, <2>1 DEF ActivateRename
    <2>4. QED
      BY <2>1, <2>2, <2>3, MaterialApply
  <1>8. ASSUME NEW c \in Clients, Deactivate(c), UNCHANGED <<listenerVars, begun>>
        PROVE  MaterialInv'
    <2>1. Applying(c) /\ req[c].pc = "deactivate"
      BY <1>8 DEF Deactivate, Applying
    <2>2. /\ \A d \in Clients \ {c} : req'[d] = req[d]
          /\ \/ req'[c].pc = "idle"
             \/ /\ ~Creating(c)' /\ req'[c].rev = req[c].rev /\ req'[c].prev = req[c].prev
                /\ req'[c].pc \in {"unlink", "symlink", "rename"} /\ req'[c].back => req[c].prev # NoRevision
                /\ req'[c].pc = "supersede" => req[c].prev # NoRevision
      BY <1>0, <1>8, <2>1, Moved
         DEF Deactivate, Creating, Steps, MaterialInv, ApplyInv
    <2>3. /\ material' = material /\ \A s \in Revisions : crows'[s] = "none" <=> crows[s] = "none"
          /\ link' \in {link, tmp, NoRevision} /\ tmp' \in {tmp, Target(c), NoRevision}
      BY <1>0, <1>8, <2>1 DEF Deactivate
    <2>4. QED
      BY <2>1, <2>2, <2>3, MaterialApply
  <1>9. ASSUME NEW c \in Clients, RestartBroker(c), UNCHANGED <<listenerVars, begun>>
        PROVE  MaterialInv'
    <2>1. Applying(c) /\ req[c].pc = "restart"
      BY <1>9 DEF RestartBroker, Applying
    <2>2. /\ \A d \in Clients \ {c} : req'[d] = req[d]
          /\ \/ req'[c].pc = "idle"
             \/ /\ ~Creating(c)' /\ req'[c].rev = req[c].rev /\ req'[c].prev = req[c].prev
                /\ req'[c].pc \in {"unlink", "symlink", "rename"} /\ req'[c].back => req[c].prev # NoRevision
                /\ req'[c].pc = "supersede" => req[c].prev # NoRevision
      BY <1>0, <1>9, <2>1, Moved, TurnedBack
         DEF RestartBroker, Creating, Steps, MaterialInv, ApplyInv
    <2>3. /\ material' = material /\ \A s \in Revisions : crows'[s] = "none" <=> crows[s] = "none"
          /\ link' \in {link, tmp, NoRevision} /\ tmp' \in {tmp, Target(c), NoRevision}
      BY <1>0, <1>9, <2>1 DEF RestartBroker
    <2>4. QED
      BY <2>1, <2>2, <2>3, MaterialApply
  <1>10. ASSUME NEW c \in Clients, VerifyProfile(c), UNCHANGED <<listenerVars, begun>>
         PROVE  MaterialInv'
    <2>1. Applying(c) /\ req[c].pc = "verify"
      BY <1>10 DEF VerifyProfile, Applying
    <2>2. /\ \A d \in Clients \ {c} : req'[d] = req[d]
          /\ \/ req'[c].pc = "idle"
             \/ /\ ~Creating(c)' /\ req'[c].rev = req[c].rev /\ req'[c].prev = req[c].prev
                /\ req'[c].pc \in {"unlink", "symlink", "rename"} /\ req'[c].back => req[c].prev # NoRevision
                /\ req'[c].pc = "supersede" => req[c].prev # NoRevision
      BY <1>0, <1>10, <2>1, Moved, TurnedBack
         DEF VerifyProfile, Creating, Steps, MaterialInv, ApplyInv
    <2>3. /\ material' = material /\ \A s \in Revisions : crows'[s] = "none" <=> crows[s] = "none"
          /\ link' \in {link, tmp, NoRevision} /\ tmp' \in {tmp, Target(c), NoRevision}
      BY <1>0, <1>10, <2>1 DEF VerifyProfile, hostVars
    <2>4. QED
      BY <2>1, <2>2, <2>3, MaterialApply
  <1>11. ASSUME NEW c \in Clients, MarkActive(c), UNCHANGED <<listenerVars, begun>>
         PROVE  MaterialInv'
    <2>1. Applying(c) /\ req[c].pc = "mark"
      BY <1>11 DEF MarkActive, Applying
    <2>2. /\ \A d \in Clients \ {c} : req'[d] = req[d]
          /\ \/ req'[c].pc = "idle"
             \/ /\ ~Creating(c)' /\ req'[c].rev = req[c].rev /\ req'[c].prev = req[c].prev
                /\ req'[c].pc \in {"unlink", "symlink", "rename"} /\ req'[c].back => req[c].prev # NoRevision
                /\ req'[c].pc = "supersede" => req[c].prev # NoRevision
      BY <1>0, <1>11, <2>1, Moved, Returned
         DEF MarkActive, Creating, Steps, MaterialInv, ApplyInv
    <2>3. /\ material' = material /\ \A s \in Revisions : crows'[s] = "none" <=> crows[s] = "none"
          /\ link' \in {link, tmp, NoRevision} /\ tmp' \in {tmp, Target(c), NoRevision}
      BY <1>0, <1>11, <2>1
         DEF MarkActive, UpdateCertificateRevisionState, MaterialInv, ApplyInv,
             Recorded, CertTypeOK
    <2>4. QED
      BY <2>1, <2>2, <2>3, MaterialApply
  <1>12. ASSUME NEW c \in Clients, MarkSuperseded(c), UNCHANGED <<listenerVars, begun>>
         PROVE  MaterialInv'
    <2>1. Applying(c) /\ req[c].pc = "supersede"
      BY <1>12 DEF MarkSuperseded, Applying
    <2>2. /\ \A d \in Clients \ {c} : req'[d] = req[d]
          /\ \/ req'[c].pc = "idle"
             \/ /\ ~Creating(c)' /\ req'[c].rev = req[c].rev /\ req'[c].prev = req[c].prev
                /\ req'[c].pc \in {"unlink", "symlink", "rename"} /\ req'[c].back => req[c].prev # NoRevision
                /\ req'[c].pc = "supersede" => req[c].prev # NoRevision
      BY <1>0, <1>12, <2>1, Returned
         DEF MarkSuperseded, Creating, Steps, MaterialInv, ApplyInv
    <2>3. /\ material' = material /\ \A s \in Revisions : crows'[s] = "none" <=> crows[s] = "none"
          /\ link' \in {link, tmp, NoRevision} /\ tmp' \in {tmp, Target(c), NoRevision}
      BY <1>0, <1>12, <2>1
         DEF MarkSuperseded, UpdateCertificateRevisionState, MaterialInv, ApplyInv,
             Recorded, CertTypeOK
    <2>4. QED
      BY <2>1, <2>2, <2>3, MaterialApply
  <1>13. ASSUME NEW c \in Clients, MarkFailed(c), UNCHANGED <<listenerVars, begun>>
         PROVE  MaterialInv'
    <2>1. Applying(c) /\ req[c].pc = "fail"
      BY <1>13 DEF MarkFailed, hostVars, Applying
    <2>2. /\ \A d \in Clients \ {c} : req'[d] = req[d]
          /\ \/ req'[c].pc = "idle"
             \/ /\ ~Creating(c)' /\ req'[c].rev = req[c].rev /\ req'[c].prev = req[c].prev
                /\ req'[c].pc \in {"unlink", "symlink", "rename"} /\ req'[c].back => req[c].prev # NoRevision
                /\ req'[c].pc = "supersede" => req[c].prev # NoRevision
      BY <1>0, <1>13, <2>1, Returned
         DEF MarkFailed, hostVars, Creating, Steps, MaterialInv, ApplyInv
    <2>3. /\ material' = material /\ \A s \in Revisions : crows'[s] = "none" <=> crows[s] = "none"
          /\ link' \in {link, tmp, NoRevision} /\ tmp' \in {tmp, Target(c), NoRevision}
      BY <1>0, <1>13, <2>1
         DEF MarkFailed, hostVars, UpdateCertificateRevisionState, MaterialInv, ApplyInv,
             Recorded, CertTypeOK
    <2>4. QED
      BY <2>1, <2>2, <2>3, MaterialApply
  <1>14. ASSUME NEW p \in PreviewIds, NEW plan \in Plans, Preview(p, plan), UNCHANGED begun
         PROVE  MaterialInv'
    BY <1>14, MaterialFrame DEF Preview, certVars, hostVars
  <1>15. ASSUME NEW p \in PreviewIds, Expire(p), UNCHANGED begun PROVE MaterialInv'
    BY <1>15, MaterialFrame DEF Expire, certVars, hostVars
  <1>16. ASSUME NEW p \in PreviewIds, ApplyExpired(p), UNCHANGED begun
         PROVE  MaterialInv'
    BY <1>16, MaterialFrame DEF ApplyExpired, certVars, hostVars
  <1>17. ASSUME NEW p \in PreviewIds, BeginListenerApply(p, Busy), begun < MaxApplies, begun' = begun + 1
         PROVE  MaterialInv'
    BY <1>17, MaterialFrame DEF BeginListenerApply, certVars
  <1>18. ASSUME ResolveMaterial, UNCHANGED begun PROVE MaterialInv'
    BY <1>18, MaterialFrame DEF ResolveMaterial, certVars, hostVars
  <1>19. ASSUME Snapshot, UNCHANGED begun PROVE MaterialInv'
    BY <1>19, MaterialFrame DEF Snapshot, certVars, hostVars
  <1>20. ASSUME WriteRead, UNCHANGED begun PROVE MaterialInv'
    BY <1>20, MaterialFrame DEF WriteRead, certVars, hostVars
  <1>21. ASSUME WriteFile, UNCHANGED begun PROVE MaterialInv'
    BY <1>21, MaterialFrame DEF WriteFile, certVars
  <1>22. ASSUME RestartListeners, UNCHANGED begun PROVE MaterialInv'
    BY <1>22, MaterialFrame DEF RestartListeners, certVars
  <1>23. ASSUME PersistRows, UNCHANGED begun PROVE MaterialInv'
    BY <1>23, MaterialFrame DEF PersistRows, certVars
  <1>24. ASSUME Restore, UNCHANGED begun PROVE MaterialInv'
    BY <1>24, MaterialFrame DEF Restore, certVars
  <1>25. ASSUME Compensate, UNCHANGED begun PROVE MaterialInv'
    BY <1>25, MaterialFrame DEF Compensate, certVars
  <1>26. ASSUME Consume, UNCHANGED begun PROVE MaterialInv'
    BY <1>26, MaterialFrame DEF Consume, certVars, hostVars
  <1>27. ASSUME EditElsewhere, UNCHANGED begun PROVE MaterialInv'
    BY <1>27, MaterialFrame DEF EditElsewhere, certVars
  <1>28. ASSUME Crash PROVE MaterialInv'
    BY <1>28
       DEF Crash, NoRequest, MaterialInv, RowsInv, LinksInv, CreateInv, ApplyInv,
           Recorded,
           Creating, Applying
  <1>29. CASE UNCHANGED vars
    BY <1>29, MaterialFrame DEF vars, hostVars, certVars
  <1>30. QED
    BY <1>1, <1>2, <1>3, <1>4, <1>5, <1>6, <1>7, <1>8, <1>9, <1>10, <1>11,
       <1>12, <1>13, <1>14, <1>15, <1>16, <1>17, <1>18, <1>19, <1>20, <1>21,
       <1>22, <1>23, <1>24, <1>25, <1>26, <1>27, <1>28, <1>29 DEF Next,
       Upload, CertStep, CreateStep, ApplyStep, PreviewStep, ListenerStep,
       Begin

-----------------------------------------------------------------------------
(* One apply at a time.                                                    *)

(* A history that was not clean stays so.                                  *)
LEMMA CleanOnce ==
    \A c \in Clients : ActivateUnlink(c) \/ ActivateSymlink(c) \/ ActivateRename(c)
        => (clean' => clean)
  <1>1. ASSUME NEW c \in Clients,
               ActivateUnlink(c) \/ ActivateSymlink(c) \/ ActivateRename(c)
        PROVE  clean' => clean
    <2>1. clean' = clean \/ clean' = (clean /\ ~req[c].back)
      BY <1>1, Zenon
         DEF ActivateUnlink, ActivateSymlink, ActivateRename, ActivateFails
    <2>2. QED
      BY <2>1, Zenon
  <1>2. QED
    BY <1>1

LEMMA AloneFrame ==
    ASSUME AloneInv, clean' => clean, la'.pc # "idle" => la.pc # "idle",
           \A d \in Clients : Applying(d)' => Applying(d)
    PROVE  AloneInv'
  BY DEF AloneInv

LEMMA StepAlone == TypeOK /\ AloneInv /\ [Next]_vars => AloneInv'
  <1> SUFFICES ASSUME TypeOK, AloneInv, [Next]_vars PROVE AloneInv'
    OBVIOUS
  <1>0. CertTypeOK /\ clean \in BOOLEAN /\ la \in ListenerApply
    BY DEF TypeOK, HostTypeOK, ListenerTypeOK, ListenerApply
  <1>1. ASSUME NEW c \in Clients, NEW r \in Revisions, SaveRevision(c, r), UNCHANGED <<listenerVars, begun>>
        PROVE  AloneInv'
    <2>1. \A d \in Clients \ {c} : req'[d] = req[d]
      BY <1>0, <1>1 DEF SaveRevision, CertTypeOK, NoRequest
    <2>2. Applying(c)' => Applying(c)
      BY <1>0, <1>1 DEF SaveRevision, CertTypeOK, NoRequest, Applying
    <2>3. \A d \in Clients : Applying(d)' => Applying(d)
      BY <2>1, <2>2 DEF Applying
    <2>4. (clean' => clean) /\ la' = la
      BY <1>1 DEF SaveRevision, listenerVars
    <2>5. QED
      BY <2>3, <2>4, AloneFrame
  <1>2. ASSUME NEW c \in Clients, NEW r \in Revisions, BeginApply(c, r, Busy), UNCHANGED listenerVars, begun < MaxApplies, begun' = begun + 1
        PROVE  AloneInv'
    <2>1. la' = la /\ (clean' => ~Busy) /\ \A d \in Clients \ {c} : req'[d] = req[d]
      BY <1>0, <1>2 DEF BeginApply, listenerVars, CertTypeOK
    <2>2. QED
      BY <2>1 DEF AloneInv, Busy, Applying
  <1>3. ASSUME NEW c \in Clients, UpsertProfile(c), UNCHANGED <<listenerVars, begun>>
        PROVE  AloneInv'
    <2>1. \A d \in Clients \ {c} : req'[d] = req[d]
      BY <1>0, <1>3, Moved, Returned DEF UpsertProfile, Steps
    <2>2. Applying(c)' => Applying(c)
      BY <1>0, <1>3, Moved, Returned DEF UpsertProfile, Steps, Applying
    <2>3. \A d \in Clients : Applying(d)' => Applying(d)
      BY <2>1, <2>2 DEF Applying
    <2>4. (clean' => clean) /\ la' = la
      BY <1>3 DEF UpsertProfile, listenerVars
    <2>5. QED
      BY <2>3, <2>4, AloneFrame
  <1>4. ASSUME NEW c \in Clients, InsertRevision(c), UNCHANGED <<listenerVars, begun>>
        PROVE  AloneInv'
    <2>1. \A d \in Clients \ {c} : req'[d] = req[d]
      BY <1>0, <1>4, Returned DEF InsertRevision, Steps
    <2>2. Applying(c)' => Applying(c)
      BY <1>0, <1>4, Returned DEF InsertRevision, Steps, Applying
    <2>3. \A d \in Clients : Applying(d)' => Applying(d)
      BY <2>1, <2>2 DEF Applying
    <2>4. (clean' => clean) /\ la' = la
      BY <1>4 DEF InsertRevision, listenerVars
    <2>5. QED
      BY <2>3, <2>4, AloneFrame
  <1>5. ASSUME NEW c \in Clients, ActivateUnlink(c), UNCHANGED <<listenerVars, begun>>
        PROVE  AloneInv'
    <2>1. \A d \in Clients \ {c} : req'[d] = req[d]
      BY <1>0, <1>5, Moved, Failed DEF ActivateUnlink, Steps
    <2>2. Applying(c)' => Applying(c)
      BY <1>0, <1>5, Moved, Failed DEF ActivateUnlink, Steps, Applying
    <2>3. \A d \in Clients : Applying(d)' => Applying(d)
      BY <2>1, <2>2 DEF Applying
    <2>4. (clean' => clean) /\ la' = la
      BY <1>5 DEF ActivateUnlink, listenerVars, ActivateFails
    <2>5. QED
      BY <2>3, <2>4, AloneFrame
  <1>6. ASSUME NEW c \in Clients, ActivateSymlink(c), UNCHANGED <<listenerVars, begun>>
        PROVE  AloneInv'
    <2>1. \A d \in Clients \ {c} : req'[d] = req[d]
      BY <1>0, <1>6, Moved, Failed DEF ActivateSymlink, Steps
    <2>2. Applying(c)' => Applying(c)
      BY <1>0, <1>6, Moved, Failed DEF ActivateSymlink, Steps, Applying
    <2>3. \A d \in Clients : Applying(d)' => Applying(d)
      BY <2>1, <2>2 DEF Applying
    <2>4. (clean' => clean) /\ la' = la
      BY CleanOnce, <1>6 DEF ActivateSymlink, listenerVars
    <2>5. QED
      BY <2>3, <2>4, AloneFrame
  <1>7. ASSUME NEW c \in Clients, ActivateRename(c), UNCHANGED <<listenerVars, begun>>
        PROVE  AloneInv'
    <2>1. \A d \in Clients \ {c} : req'[d] = req[d]
      BY <1>0, <1>7, Moved, Failed DEF ActivateRename, Steps
    <2>2. Applying(c)' => Applying(c)
      BY <1>0, <1>7, Moved, Failed DEF ActivateRename, Steps, Applying
    <2>3. \A d \in Clients : Applying(d)' => Applying(d)
      BY <2>1, <2>2 DEF Applying
    <2>4. (clean' => clean) /\ la' = la
      BY <1>7 DEF ActivateRename, listenerVars, ActivateFails
    <2>5. QED
      BY <2>3, <2>4, AloneFrame
  <1>8. ASSUME NEW c \in Clients, Deactivate(c), UNCHANGED <<listenerVars, begun>>
        PROVE  AloneInv'
    <2>1. \A d \in Clients \ {c} : req'[d] = req[d]
      BY <1>0, <1>8, Moved DEF Deactivate, Steps
    <2>2. Applying(c)' => Applying(c)
      BY <1>0, <1>8, Moved DEF Deactivate, Steps, Applying
    <2>3. \A d \in Clients : Applying(d)' => Applying(d)
      BY <2>1, <2>2 DEF Applying
    <2>4. (clean' => clean) /\ la' = la
      BY <1>8 DEF Deactivate, listenerVars
    <2>5. QED
      BY <2>3, <2>4, AloneFrame
  <1>9. ASSUME NEW c \in Clients, RestartBroker(c), UNCHANGED <<listenerVars, begun>>
        PROVE  AloneInv'
    <2>1. \A d \in Clients \ {c} : req'[d] = req[d]
      BY <1>0, <1>9, Moved, TurnedBack DEF RestartBroker, Steps
    <2>2. Applying(c)' => Applying(c)
      BY <1>0, <1>9, Moved, TurnedBack DEF RestartBroker, Steps, Applying
    <2>3. \A d \in Clients : Applying(d)' => Applying(d)
      BY <2>1, <2>2 DEF Applying
    <2>4. (clean' => clean) /\ la' = la
      BY <1>9 DEF RestartBroker, listenerVars
    <2>5. QED
      BY <2>3, <2>4, AloneFrame
  <1>10. ASSUME NEW c \in Clients, VerifyProfile(c), UNCHANGED <<listenerVars, begun>>
         PROVE  AloneInv'
    <2>1. \A d \in Clients \ {c} : req'[d] = req[d]
      BY <1>0, <1>10, Moved, TurnedBack DEF VerifyProfile, Steps
    <2>2. Applying(c)' => Applying(c)
      BY <1>0, <1>10, Moved, TurnedBack DEF VerifyProfile, Steps, Applying
    <2>3. \A d \in Clients : Applying(d)' => Applying(d)
      BY <2>1, <2>2 DEF Applying
    <2>4. (clean' => clean) /\ la' = la
      BY <1>10 DEF VerifyProfile, listenerVars, hostVars
    <2>5. QED
      BY <2>3, <2>4, AloneFrame
  <1>11. ASSUME NEW c \in Clients, MarkActive(c), UNCHANGED <<listenerVars, begun>>
         PROVE  AloneInv'
    <2>1. \A d \in Clients \ {c} : req'[d] = req[d]
      BY <1>0, <1>11, Moved, Returned DEF MarkActive, Steps
    <2>2. Applying(c)' => Applying(c)
      BY <1>0, <1>11, Moved, Returned DEF MarkActive, Steps, Applying
    <2>3. \A d \in Clients : Applying(d)' => Applying(d)
      BY <2>1, <2>2 DEF Applying
    <2>4. (clean' => clean) /\ la' = la
      BY <1>11 DEF MarkActive, listenerVars
    <2>5. QED
      BY <2>3, <2>4, AloneFrame
  <1>12. ASSUME NEW c \in Clients, MarkSuperseded(c), UNCHANGED <<listenerVars, begun>>
         PROVE  AloneInv'
    <2>1. \A d \in Clients \ {c} : req'[d] = req[d]
      BY <1>0, <1>12, Returned DEF MarkSuperseded, Steps
    <2>2. Applying(c)' => Applying(c)
      BY <1>0, <1>12, Returned DEF MarkSuperseded, Steps, Applying
    <2>3. \A d \in Clients : Applying(d)' => Applying(d)
      BY <2>1, <2>2 DEF Applying
    <2>4. (clean' => clean) /\ la' = la
      BY <1>12 DEF MarkSuperseded, listenerVars
    <2>5. QED
      BY <2>3, <2>4, AloneFrame
  <1>13. ASSUME NEW c \in Clients, MarkFailed(c), UNCHANGED <<listenerVars, begun>>
         PROVE  AloneInv'
    <2>1. \A d \in Clients \ {c} : req'[d] = req[d]
      BY <1>0, <1>13, Returned DEF MarkFailed, hostVars, Steps
    <2>2. Applying(c)' => Applying(c)
      BY <1>0, <1>13, Returned DEF MarkFailed, hostVars, Steps, Applying
    <2>3. \A d \in Clients : Applying(d)' => Applying(d)
      BY <2>1, <2>2 DEF Applying
    <2>4. (clean' => clean) /\ la' = la
      BY <1>13 DEF MarkFailed, hostVars, listenerVars
    <2>5. QED
      BY <2>3, <2>4, AloneFrame
  <1>14. ASSUME NEW p \in PreviewIds, NEW plan \in Plans, Preview(p, plan), UNCHANGED begun
         PROVE  AloneInv'
    <2>1. req' = req /\ (clean' => clean) /\ la' = la
      BY <1>14 DEF Preview, certVars, hostVars
    <2>2. QED
      BY <2>1, AloneFrame DEF Applying
  <1>15. ASSUME NEW p \in PreviewIds, Expire(p), UNCHANGED begun PROVE AloneInv'
    <2>1. req' = req /\ (clean' => clean) /\ la' = la
      BY <1>15 DEF Expire, certVars, hostVars
    <2>2. QED
      BY <2>1, AloneFrame DEF Applying
  <1>16. ASSUME NEW p \in PreviewIds, ApplyExpired(p), UNCHANGED begun
         PROVE  AloneInv'
    <2>1. req' = req /\ (clean' => clean) /\ la' = la
      BY <1>16 DEF ApplyExpired, certVars, hostVars
    <2>2. QED
      BY <2>1, AloneFrame DEF Applying
  <1>17. ASSUME NEW p \in PreviewIds, BeginListenerApply(p, Busy), begun < MaxApplies, begun' = begun + 1
         PROVE  AloneInv'
    <2>1. req' = req /\ (clean' => ~Busy)
      BY <1>17 DEF BeginListenerApply, certVars
    <2>2. QED
      BY <2>1 DEF AloneInv, Busy, Applying
  <1>18. ASSUME ResolveMaterial, UNCHANGED begun PROVE AloneInv'
    <2>1. req' = req /\ (clean' => clean) /\ la.pc # "idle"
      BY <1>18 DEF ResolveMaterial, certVars, hostVars
    <2>2. QED
      BY <2>1, AloneFrame DEF Applying
  <1>19. ASSUME Snapshot, UNCHANGED begun PROVE AloneInv'
    <2>1. req' = req /\ (clean' => clean) /\ la.pc # "idle"
      BY <1>19 DEF Snapshot, certVars, hostVars
    <2>2. QED
      BY <2>1, AloneFrame DEF Applying
  <1>20. ASSUME WriteRead, UNCHANGED begun PROVE AloneInv'
    <2>1. req' = req /\ (clean' => clean) /\ la.pc # "idle"
      BY <1>20 DEF WriteRead, certVars, hostVars
    <2>2. QED
      BY <2>1, AloneFrame DEF Applying
  <1>21. ASSUME WriteFile, UNCHANGED begun PROVE AloneInv'
    <2>1. req' = req /\ (clean' => clean) /\ la.pc # "idle"
      BY <1>21 DEF WriteFile, certVars
    <2>2. QED
      BY <2>1, AloneFrame DEF Applying
  <1>22. ASSUME RestartListeners, UNCHANGED begun PROVE AloneInv'
    <2>1. req' = req /\ (clean' => clean) /\ la.pc # "idle"
      BY <1>22 DEF RestartListeners, certVars
    <2>2. QED
      BY <2>1, AloneFrame DEF Applying
  <1>23. ASSUME PersistRows, UNCHANGED begun PROVE AloneInv'
    <2>1. req' = req /\ (clean' => clean) /\ la.pc # "idle"
      BY <1>23 DEF PersistRows, certVars
    <2>2. QED
      BY <2>1, AloneFrame DEF Applying
  <1>24. ASSUME Restore, UNCHANGED begun PROVE AloneInv'
    <2>1. req' = req /\ (clean' => clean) /\ la.pc # "idle"
      BY <1>24 DEF Restore, certVars
    <2>2. QED
      BY <2>1, AloneFrame DEF Applying
  <1>25. ASSUME Compensate, UNCHANGED begun PROVE AloneInv'
    <2>1. req' = req /\ (clean' => clean) /\ la.pc # "idle"
      BY <1>25 DEF Compensate, certVars
    <2>2. QED
      BY <2>1, AloneFrame DEF Applying
  <1>26. ASSUME Consume, UNCHANGED begun PROVE AloneInv'
    <2>1. req' = req /\ (clean' => clean) /\ la.pc # "idle"
      BY <1>26 DEF Consume, certVars, hostVars
    <2>2. QED
      BY <2>1, AloneFrame DEF Applying
  <1>27. ASSUME EditElsewhere, UNCHANGED begun PROVE AloneInv'
    <2>1. req' = req /\ (clean' => clean) /\ la' = la
      BY <1>27 DEF EditElsewhere, certVars, listenerVars
    <2>2. QED
      BY <2>1, AloneFrame DEF Applying
  <1>28. ASSUME Crash PROVE AloneInv'
    BY <1>28 DEF Crash, AloneInv
  <1>29. CASE UNCHANGED vars
    BY <1>29, AloneFrame DEF vars, hostVars, certVars, listenerVars, Applying
  <1>30. QED
    BY <1>1, <1>2, <1>3, <1>4, <1>5, <1>6, <1>7, <1>8, <1>9, <1>10, <1>11,
       <1>12, <1>13, <1>14, <1>15, <1>16, <1>17, <1>18, <1>19, <1>20, <1>21,
       <1>22, <1>23, <1>24, <1>25, <1>26, <1>27, <1>28, <1>29 DEF Next,
       Upload, CertStep, CreateStep, ApplyStep, PreviewStep, ListenerStep,
       Begin

-----------------------------------------------------------------------------
(* The rest of mosquitto.conf.                                             *)

LEMMA HeadFrame ==
    ASSUME HeadInv, clean' => clean, conf'.head = conf.head, UNCHANGED <<edits, la>>
    PROVE  HeadInv'
  BY DEF HeadInv

LEMMA StepHead == TypeOK /\ HeadInv /\ [Next]_vars => HeadInv'
  <1> SUFFICES ASSUME TypeOK, HeadInv, [Next]_vars PROVE HeadInv'
    OBVIOUS
  <1>0. /\ clean \in BOOLEAN /\ la \in ListenerApply /\ conf \in [head : Edits, block : Plans]
    BY DEF TypeOK, HostTypeOK, ListenerTypeOK, ListenerApply
  <1>1. ASSUME NEW c \in Clients, NEW r \in Revisions, SaveRevision(c, r), UNCHANGED <<listenerVars, begun>>
        PROVE  HeadInv'
    BY <1>1, HeadFrame DEF SaveRevision, listenerVars
  <1>2. ASSUME NEW c \in Clients, NEW r \in Revisions, BeginApply(c, r, Busy), UNCHANGED listenerVars, begun < MaxApplies, begun' = begun + 1
        PROVE  HeadInv'
    BY <1>2, HeadFrame DEF BeginApply, listenerVars
  <1>3. ASSUME NEW c \in Clients, UpsertProfile(c), UNCHANGED <<listenerVars, begun>>
        PROVE  HeadInv'
    BY <1>3, HeadFrame DEF UpsertProfile, listenerVars
  <1>4. ASSUME NEW c \in Clients, InsertRevision(c), UNCHANGED <<listenerVars, begun>>
        PROVE  HeadInv'
    BY <1>4, HeadFrame DEF InsertRevision, listenerVars
  <1>5. ASSUME NEW c \in Clients, ActivateUnlink(c), UNCHANGED <<listenerVars, begun>>
        PROVE  HeadInv'
    BY <1>5, HeadFrame DEF ActivateUnlink, listenerVars, ActivateFails
  <1>6. ASSUME NEW c \in Clients, ActivateSymlink(c), UNCHANGED <<listenerVars, begun>>
        PROVE  HeadInv'
    BY <1>6, CleanOnce, HeadFrame DEF ActivateSymlink, listenerVars
  <1>7. ASSUME NEW c \in Clients, ActivateRename(c), UNCHANGED <<listenerVars, begun>>
        PROVE  HeadInv'
    BY <1>7, HeadFrame DEF ActivateRename, listenerVars, ActivateFails
  <1>8. ASSUME NEW c \in Clients, Deactivate(c), UNCHANGED <<listenerVars, begun>>
        PROVE  HeadInv'
    BY <1>8, HeadFrame DEF Deactivate, listenerVars
  <1>9. ASSUME NEW c \in Clients, RestartBroker(c), UNCHANGED <<listenerVars, begun>>
        PROVE  HeadInv'
    BY <1>9, HeadFrame DEF RestartBroker, listenerVars
  <1>10. ASSUME NEW c \in Clients, VerifyProfile(c), UNCHANGED <<listenerVars, begun>>
         PROVE  HeadInv'
    BY <1>10, HeadFrame DEF VerifyProfile, listenerVars, hostVars
  <1>11. ASSUME NEW c \in Clients, MarkActive(c), UNCHANGED <<listenerVars, begun>>
         PROVE  HeadInv'
    BY <1>11, HeadFrame DEF MarkActive, listenerVars
  <1>12. ASSUME NEW c \in Clients, MarkSuperseded(c), UNCHANGED <<listenerVars, begun>>
         PROVE  HeadInv'
    BY <1>12, HeadFrame DEF MarkSuperseded, listenerVars
  <1>13. ASSUME NEW c \in Clients, MarkFailed(c), UNCHANGED <<listenerVars, begun>>
         PROVE  HeadInv'
    BY <1>13, HeadFrame DEF MarkFailed, hostVars, listenerVars
  <1>14. ASSUME NEW p \in PreviewIds, NEW plan \in Plans, Preview(p, plan), UNCHANGED begun
         PROVE  HeadInv'
    BY <1>14, HeadFrame DEF Preview, hostVars
  <1>15. ASSUME NEW p \in PreviewIds, Expire(p), UNCHANGED begun PROVE HeadInv'
    BY <1>15, HeadFrame DEF Expire, hostVars
  <1>16. ASSUME NEW p \in PreviewIds, ApplyExpired(p), UNCHANGED begun
         PROVE  HeadInv'
    BY <1>16, HeadFrame DEF ApplyExpired, hostVars
  <1>17. ASSUME NEW p \in PreviewIds, BeginListenerApply(p, Busy), begun < MaxApplies, begun' = begun + 1
         PROVE  HeadInv'
    <2>1. la'.pc = "resolve" /\ (clean' => clean) /\ UNCHANGED <<conf, edits>>
      BY <1>17 DEF BeginListenerApply, NoApply
    <2>2. QED
      BY <2>1 DEF HeadInv
  <1>18. ASSUME ResolveMaterial, UNCHANGED begun PROVE HeadInv'
    BY <1>0, <1>18, Idle
       DEF ResolveMaterial, HeadInv, To, Done, ListenerApply, hostVars
  <1>19. ASSUME Snapshot, UNCHANGED begun PROVE HeadInv'
    BY <1>0, <1>19, Idle DEF Snapshot, HeadInv, To, Done, ListenerApply, hostVars
  <1>20. ASSUME WriteRead, UNCHANGED begun PROVE HeadInv'
    BY <1>0, <1>20, Idle DEF WriteRead, HeadInv, To, Done, ListenerApply, hostVars
  <1>21. ASSUME WriteFile, UNCHANGED begun PROVE HeadInv'
    <2>1. clean' = clean /\ edits' = edits /\ la.pc = "write"
      BY <1>21 DEF WriteFile
    <2>2. CASE conf' = [head |-> la.head, block |-> la.plan] /\ To("restart")
      BY <1>0, <2>1, <2>2 DEF HeadInv, To, ListenerApply
    <2>3. CASE la' = [la EXCEPT !.pc = "restore", !.cause = "write"] /\ UNCHANGED conf
      BY <1>0, <2>1, <2>3 DEF HeadInv, ListenerApply
    <2>4. QED
      BY <1>21, <2>2, <2>3 DEF WriteFile
  <1>22. ASSUME RestartListeners, UNCHANGED begun PROVE HeadInv'
    BY <1>0, <1>22, Idle DEF RestartListeners, HeadInv, To, Done, ListenerApply
  <1>23. ASSUME PersistRows, UNCHANGED begun PROVE HeadInv'
    BY <1>0, <1>23, Idle DEF PersistRows, HeadInv, To, Done, ListenerApply
  <1>24. ASSUME Restore, UNCHANGED begun PROVE HeadInv'
    BY <1>0, <1>24, Idle DEF Restore, HeadInv, To, Done, ListenerApply
  <1>25. ASSUME Compensate, UNCHANGED begun PROVE HeadInv'
    BY <1>0, <1>25, Idle DEF Compensate, HeadInv, To, Done, ListenerApply
  <1>26. ASSUME Consume, UNCHANGED begun PROVE HeadInv'
    BY <1>0, <1>26, Idle DEF Consume, HeadInv, To, Done, ListenerApply, hostVars
  <1>27. ASSUME EditElsewhere, UNCHANGED begun PROVE HeadInv'
    BY <1>0, <1>27 DEF EditElsewhere, HeadInv, listenerVars
  <1>28. ASSUME Crash PROVE HeadInv'
    BY <1>28 DEF Crash, HeadInv
  <1>29. CASE UNCHANGED vars
    BY <1>29, HeadFrame DEF vars, hostVars, listenerVars
  <1>30. QED
    BY <1>1, <1>2, <1>3, <1>4, <1>5, <1>6, <1>7, <1>8, <1>9, <1>10, <1>11,
       <1>12, <1>13, <1>14, <1>15, <1>16, <1>17, <1>18, <1>19, <1>20, <1>21,
       <1>22, <1>23, <1>24, <1>25, <1>26, <1>27, <1>28, <1>29 DEF Next,
       Upload, CertStep, CreateStep, ApplyStep, PreviewStep, ListenerStep,
       Begin

-----------------------------------------------------------------------------
(* Rows, files and broker.                                                 *)

LEMMA SameActive == crows' = crows => Active' = Active
  BY DEF Active

LEMMA ActiveUpdated ==
    ASSUME CertTypeOK, NEW r \in Revisions, NEW s, UpdateCertificateRevisionState(r, s)
    PROVE  Active' = IF s = "active" THEN Active \union {r} ELSE Active \ {r}
  BY DEF Active, CertTypeOK, UpdateCertificateRevisionState

(* A restart that succeeds makes the broker serve what the files say, if   *)
(* no listener lacks its certificate.                                      *)
LEMMA RestartServes ==
    ASSUME RestartSucceeds, Startable(conf.block, link)
    PROVE  /\ served' = TRUE
           /\ Composed => broker' = [up |-> conf.block \notin RefusedPlans,
                                     block |-> conf.block, cert |-> link]
  <1>1. Loaded = [up |-> conf.block \notin RefusedPlans, block |-> conf.block, cert |-> link]
    BY DEF Loaded, Startable
  <1>2. QED
    BY <1>1 DEF RestartSucceeds

(* A step no apply takes.                                                  *)
LEMMA AgreeFrame ==
    ASSUME AgreeInv, clean' => clean, UNCHANGED <<link, lrows, broker, tmp, la>>,
           UNCHANGED <<marked, served>>, conf'.block = conf.block, Active' = Active,
           \A d \in Clients : req'[d] = req[d] \/ (~Applying(d) /\ ~Applying(d)')
    PROVE  AgreeInv'
  <1> SUFFICES ASSUME clean' PROVE AgreeInv'
    BY DEF AgreeInv
  <1>1. \A d \in Clients : Applying(d)' <=> Applying(d)
    BY DEF Applying
  <1>2. la.pc = "idle" /\ (\A c \in Clients : ~Applying(c)) => Settled'
    BY DEF AgreeInv, Settled, Serving, ActiveIs
  <1>3. ASSUME NEW c \in Clients, Applying(c)' PROVE CertInv(c)'
    <2>1. CertInv(c) /\ req'[c] = req[c]
      BY <1>1, <1>3 DEF AgreeInv
    <2>2. QED
      BY <2>1 DEF CertInv, Serving, Target, ActiveIs
  <1>4. la.pc # "idle" => ListenInv'
    BY DEF AgreeInv, ListenInv, Serving, ActiveIs
  <1>5. QED
    BY <1>1, <1>2, <1>3, <1>4 DEF AgreeInv

(* A step of the one request that applies a certificate.                   *)
LEMMA CertOne ==
    ASSUME NEW c \in Clients,
           clean' => /\ la'.pc = "idle" /\ \A d \in Clients \ {c} : ~Applying(d)'
                     /\ Applying(c)' => CertInv(c)'
                     /\ ~Applying(c)' => Settled'
    PROVE  AgreeInv'
  BY DEF AgreeInv

LEMMA CertAlone ==
    ASSUME AloneInv, AgreeInv, clean, NEW c \in Clients, Applying(c), la' = la,
           \A d \in Clients \ {c} : req'[d] = req[d]
    PROVE  /\ la'.pc = "idle" /\ CertInv(c)
           /\ \A d \in Clients \ {c} : ~Applying(d)'
  BY DEF AloneInv, AgreeInv, Applying

(* A step of the one apply of the listeners.                               *)
LEMMA ListenOne ==
    ASSUME AloneInv, AgreeInv, la.pc # "idle", req' = req, clean' => clean,
           ListenInv /\ clean' => /\ la'.pc # "idle" => ListenInv'
                                  /\ la'.pc = "idle" => Settled'
    PROVE  AgreeInv'
  BY DEF AloneInv, AgreeInv, Applying

LEMMA InitAgree == Init => AgreeInv
  <1> SUFFICES ASSUME Init PROVE AgreeInv
    OBVIOUS
  <1>1. la.pc = "idle" /\ \A c \in Clients : ~Applying(c)
    BY Idle DEF Init, ListenerInit, CertInit, Applying, NoRequest
  <1>2. Active = Only(link)
    BY DEF Init, HostInit, CertInit, Active, Only
  <1>3. Startable(lrows, link) /\ Serving(lrows, link) /\ conf.block = lrows
    BY HostAssumption DEF Init, HostInit, Startable, Serving, Bound
  <1>4. QED
    BY <1>1, <1>2, <1>3 DEF AgreeInv, Settled, ActiveIs

LEMMA StepAgree == TypeOK /\ MaterialInv /\ AloneInv /\ AgreeInv /\ [Next]_vars => AgreeInv'
  <1> SUFFICES ASSUME TypeOK, MaterialInv, AloneInv, AgreeInv, [Next]_vars PROVE AgreeInv'
    OBVIOUS
  <1>0. CertTypeOK /\ HostTypeOK /\ clean \in BOOLEAN /\ la \in ListenerApply
    BY DEF TypeOK, HostTypeOK, ListenerTypeOK, ListenerApply
  <1>1. ASSUME NEW c \in Clients, NEW r \in Revisions, SaveRevision(c, r), UNCHANGED <<listenerVars, begun>>
        PROVE  AgreeInv'
    <2>1. \A d \in Clients : req'[d] = req[d] \/ (~Applying(d) /\ ~Applying(d)')
      BY <1>0, <1>1 DEF SaveRevision, Applying, Steps, CertTypeOK, NoRequest
    <2>2. Active' = Active
      BY <1>1, SameActive DEF SaveRevision
    <2>3. QED
      BY <1>1, <2>1, <2>2, AgreeFrame DEF SaveRevision, listenerVars
  <1>2. ASSUME NEW c \in Clients, NEW r \in Revisions, BeginApply(c, r, Busy), UNCHANGED listenerVars, begun < MaxApplies, begun' = begun + 1
        PROVE  AgreeInv'
    <2>1. /\ UNCHANGED <<link, conf, lrows, broker, marked, served, crows, la>> /\ link # r
          /\ clean' => clean /\ ~Busy
          /\ req'[c].pc = "unlink" /\ req'[c].rev = r /\ req'[c].prev = link /\ req'[c].back = FALSE
          /\ \A d \in Clients \ {c} : req'[d] = req[d]
      BY <1>0, <1>2 DEF BeginApply, CertTypeOK, listenerVars
    <2>2. ASSUME clean'
          PROVE  Settled /\ la.pc = "idle" /\ \A d \in Clients : ~Applying(d)
      BY <2>1, <2>2 DEF AgreeInv, Busy
    <2>3. ASSUME clean' PROVE CertInv(c)'
      BY <2>1, <2>2, <2>3, SameActive DEF Settled, CertInv, Switched, Serving, ActiveIs
    <2>4. Applying(c)' /\ \A d \in Clients \ {c} : Applying(d)' <=> Applying(d)
      BY <2>1 DEF Applying
    <2>5. QED
      BY <2>1, <2>2, <2>3, <2>4, CertOne
  <1>3. ASSUME NEW c \in Clients, UpsertProfile(c), UNCHANGED <<listenerVars, begun>>
        PROVE  AgreeInv'
    <2>1. \A d \in Clients : req'[d] = req[d] \/ (~Applying(d) /\ ~Applying(d)')
      BY <1>0, <1>3, Moved, Returned DEF UpsertProfile, Applying, Steps
    <2>2. Active' = Active
      BY <1>3, SameActive DEF UpsertProfile
    <2>3. QED
      BY <1>3, <2>1, <2>2, AgreeFrame DEF UpsertProfile, listenerVars
  <1>4. ASSUME NEW c \in Clients, InsertRevision(c), UNCHANGED <<listenerVars, begun>>
        PROVE  AgreeInv'
    <2>1. \A d \in Clients : req'[d] = req[d] \/ (~Applying(d) /\ ~Applying(d)')
      BY <1>0, <1>4, Returned DEF InsertRevision, Applying, Steps
    <2>2. Active' = Active
      <3>1. req[c].rev \in Revisions /\ crows[req[c].rev] = "none"
        BY <1>4 DEF InsertRevision, MaterialInv, CreateInv, Creating
      <3>2. CASE InsertCertificateRevision(req[c].rev)
        BY <1>0, <3>1, <3>2 DEF InsertCertificateRevision, Active, CertTypeOK
      <3>3. QED
        BY <1>4, <3>2, SameActive DEF InsertRevision
    <2>3. QED
      BY <1>4, <2>1, <2>2, AgreeFrame DEF InsertRevision, listenerVars
  <1>5. ASSUME NEW c \in Clients, ActivateUnlink(c), UNCHANGED <<listenerVars, begun>>
        PROVE  AgreeInv'
    <2>1. Applying(c) /\ la' = la /\ (clean' => clean)
      BY CleanOnce, <1>5 DEF ActivateUnlink, Applying, listenerVars
    <2>2. \A d \in Clients \ {c} : req'[d] = req[d]
      BY <1>0, <1>5, Moved, Failed DEF ActivateUnlink, Steps
    <2>3. ASSUME CertInv(c), clean'
          PROVE  /\ Applying(c)' => CertInv(c)'
                 /\ ~Applying(c)' => Settled'
      <3>1. /\ UNCHANGED <<conf, lrows, broker, link, marked, served>> /\ Active' = Active /\ req[c].pc = "unlink"
        BY <1>5, SameActive DEF ActivateUnlink
      <3>2. CASE Goto(c, "symlink")
        BY <1>0, <2>3, <3>1, <3>2, Moved
           DEF CertInv, Switched, Target, Serving, ActiveIs, Settled, Applying, Steps
      <3>3. CASE ActivateFails(c)
        BY <1>0, <2>3, <3>1, <3>3, Failed
           DEF CertInv, Switched, Target, Serving, ActiveIs, Settled, Applying
      <3>4. QED
        BY <1>5, <3>2, <3>3 DEF ActivateUnlink
    <2>4. QED
      BY <2>1, <2>2, <2>3, CertAlone, CertOne
  <1>6. ASSUME NEW c \in Clients, ActivateSymlink(c), UNCHANGED <<listenerVars, begun>>
        PROVE  AgreeInv'
    <2>1. Applying(c) /\ la' = la /\ (clean' => clean)
      BY CleanOnce, <1>6 DEF ActivateSymlink, Applying, listenerVars
    <2>2. \A d \in Clients \ {c} : req'[d] = req[d]
      BY <1>0, <1>6, Moved, Failed DEF ActivateSymlink, Steps
    <2>3. ASSUME CertInv(c), clean'
          PROVE  /\ Applying(c)' => CertInv(c)'
                 /\ ~Applying(c)' => Settled'
      <3>1. /\ UNCHANGED <<conf, lrows, broker, link, marked, served>> /\ Active' = Active /\ req[c].pc = "symlink"
        BY <1>6, SameActive DEF ActivateSymlink
      <3>2. CASE tmp' = Target(c) /\ Goto(c, "rename")
        BY <1>0, <2>3, <3>1, <3>2, Moved
           DEF CertInv, Switched, Target, Serving, ActiveIs, Settled, Applying, Steps
      <3>3. CASE ActivateFails(c)
        BY <1>0, <2>3, <3>1, <3>3, Failed
           DEF CertInv, Switched, Target, Serving, ActiveIs, Settled, Applying
      <3>4. QED
        BY <1>6, <3>2, <3>3 DEF ActivateSymlink
    <2>4. QED
      BY <2>1, <2>2, <2>3, CertAlone, CertOne
  <1>7. ASSUME NEW c \in Clients, ActivateRename(c), UNCHANGED <<listenerVars, begun>>
        PROVE  AgreeInv'
    <2>1. Applying(c) /\ la' = la /\ (clean' => clean)
      BY CleanOnce, <1>7 DEF ActivateRename, Applying, listenerVars
    <2>2. \A d \in Clients \ {c} : req'[d] = req[d]
      BY <1>0, <1>7, Moved, Failed DEF ActivateRename, Steps
    <2>3. ASSUME CertInv(c), clean'
          PROVE  /\ Applying(c)' => CertInv(c)'
                 /\ ~Applying(c)' => Settled'
      <3>1. /\ UNCHANGED <<conf, lrows, broker, marked, served>> /\ Active' = Active /\ req[c].pc = "rename"
        BY <1>7, SameActive DEF ActivateRename
      <3>2. CASE link' = tmp /\ Goto(c, "restart")
        BY <1>0, <2>3, <3>1, <3>2, Moved
           DEF CertInv, Switched, Target, Serving, ActiveIs, Settled, Applying, Steps
      <3>3. CASE ActivateFails(c) /\ UNCHANGED link
        BY <1>0, <2>3, <3>1, <3>3, Failed
           DEF CertInv, Switched, Target, Serving, ActiveIs, Settled, Applying
      <3>4. QED
        BY <1>7, <3>2, <3>3 DEF ActivateRename
    <2>4. QED
      BY <2>1, <2>2, <2>3, CertAlone, CertOne
  <1>8. ASSUME NEW c \in Clients, Deactivate(c), UNCHANGED <<listenerVars, begun>>
        PROVE  AgreeInv'
    <2>1. Applying(c) /\ la' = la /\ (clean' => clean)
      BY <1>8 DEF Deactivate, Applying, listenerVars
    <2>2. \A d \in Clients \ {c} : req'[d] = req[d]
      BY <1>0, <1>8, Moved DEF Deactivate, Steps
    <2>3. ASSUME CertInv(c), clean'
          PROVE  /\ Applying(c)' => CertInv(c)'
                 /\ ~Applying(c)' => Settled'
      <3>1. /\ UNCHANGED <<conf, lrows, broker, marked, served>> /\ Active' = Active /\ req[c].pc = "deactivate"
        BY <1>8, SameActive DEF Deactivate
      <3>2. link' = NoRevision /\ Goto(c, "restart")
        BY <1>8, <2>3 DEF Deactivate
      <3>3. QED
        BY <1>0, <2>3, <3>1, <3>2, Moved
           DEF CertInv, Switched, Target, Serving, ActiveIs, Settled, Applying, Steps
    <2>4. QED
      BY <2>1, <2>2, <2>3, CertAlone, CertOne
  <1>9. ASSUME NEW c \in Clients, RestartBroker(c), UNCHANGED <<listenerVars, begun>>
        PROVE  AgreeInv'
    <2>1. Applying(c) /\ la' = la /\ (clean' => clean)
      BY <1>9 DEF RestartBroker, Applying, listenerVars
    <2>2. \A d \in Clients \ {c} : req'[d] = req[d]
      BY <1>0, <1>9, Moved, TurnedBack DEF RestartBroker, Steps
    <2>3. ASSUME CertInv(c), clean'
          PROVE  /\ Applying(c)' => CertInv(c)'
                 /\ ~Applying(c)' => Settled'
      <3>1. /\ UNCHANGED <<conf, lrows, link, marked>> /\ Active' = Active /\ req[c].pc = "restart"
        BY <1>9, SameActive DEF RestartBroker
      <3>2. Startable(conf.block, link) /\ conf.block = lrows
        BY <2>1, <2>3, <3>1, HostAssumption
           DEF CertInv, MaterialInv, ApplyInv, Recorded, Startable
      <3>3. CASE RestartSucceeds /\ Goto(c, IF req[c].back THEN "fail" ELSE "verify")
        <4>1. Composed => broker' = [up |-> lrows \notin RefusedPlans, block |-> lrows, cert |-> link]
          BY <3>2, <3>3, RestartServes
        <4>2. req'[c].pc = IF req[c].back THEN "fail" ELSE "verify"
          BY <1>0, <3>3, Moved DEF Steps
        <4>3. req'[c].rev = req[c].rev /\ req'[c].prev = req[c].prev /\ req'[c].back = req[c].back
          BY <1>0, <3>3, Moved DEF Steps
        <4>4. QED
          BY <2>3, <3>1, <4>1, <4>2, <4>3
             DEF CertInv, Switched, Target, Serving, ActiveIs, Settled, Applying
      <3>4. CASE ~req[c].back /\ BeginRollback(c)
        BY <1>0, <2>3, <3>1, <3>4, TurnedBack
           DEF CertInv, Switched, Target, Serving, ActiveIs, Settled, Applying
      <3>5. CASE req[c].back /\ RestartFails(req[c].back) /\ Goto(c, "fail")
        <4>1. served' = FALSE
          BY <3>5 DEF RestartFails
        <4>2. QED
          BY <1>0, <2>3, <3>1, <3>5, <4>1, Moved
             DEF CertInv, Switched, Target, Serving, ActiveIs, Settled, Applying, Steps
      <3>6. QED
        BY <1>9, <3>3, <3>4, <3>5 DEF RestartBroker
    <2>4. QED
      BY <2>1, <2>2, <2>3, CertAlone, CertOne
  <1>10. ASSUME NEW c \in Clients, VerifyProfile(c), UNCHANGED <<listenerVars, begun>>
         PROVE  AgreeInv'
    <2>1. Applying(c) /\ la' = la /\ (clean' => clean)
      BY <1>10 DEF VerifyProfile, Applying, listenerVars, hostVars
    <2>2. \A d \in Clients \ {c} : req'[d] = req[d]
      BY <1>0, <1>10, Moved, TurnedBack DEF VerifyProfile, Steps
    <2>3. ASSUME CertInv(c), clean'
          PROVE  /\ Applying(c)' => CertInv(c)'
                 /\ ~Applying(c)' => Settled'
      <3>1. /\ UNCHANGED <<conf, lrows, broker, link, marked, served>> /\ Active' = Active /\ req[c].pc = "verify"
        BY <1>10, SameActive DEF VerifyProfile, hostVars
      <3>2. CASE Goto(c, "mark")
        BY <1>0, <2>3, <3>1, <3>2, Moved
           DEF CertInv, Switched, Target, Serving, ActiveIs, Settled, Applying, Steps
      <3>3. CASE BeginRollback(c)
        BY <1>0, <2>3, <3>1, <3>3, TurnedBack
           DEF CertInv, Switched, Target, Serving, ActiveIs, Settled, Applying
      <3>4. QED
        BY <1>10, <3>2, <3>3 DEF VerifyProfile
    <2>4. QED
      BY <2>1, <2>2, <2>3, CertAlone, CertOne
  <1>11. ASSUME NEW c \in Clients, MarkActive(c), UNCHANGED <<listenerVars, begun>>
         PROVE  AgreeInv'
    <2>1. Applying(c) /\ la' = la /\ (clean' => clean)
      BY <1>11 DEF MarkActive, Applying, listenerVars
    <2>2. \A d \in Clients \ {c} : req'[d] = req[d]
      BY <1>0, <1>11, Moved, Returned DEF MarkActive, Steps
    <2>3. ASSUME CertInv(c), clean'
          PROVE  /\ Applying(c)' => CertInv(c)'
                 /\ ~Applying(c)' => Settled'
      <3>0. /\ UNCHANGED <<conf, lrows, broker, link, served>> /\ req[c].pc = "mark"
            /\ req[c].rev \in Revisions /\ req[c].rev # NoRevision
            /\ req[c].prev # NoRevision => req[c].prev \in Revisions
        BY <1>11, <2>1, HostAssumption
           DEF MarkActive, MaterialInv, ApplyInv, Recorded
      <3>1. CASE Return(c) /\ marked' = FALSE
        BY <1>0, <2>3, <3>0, <3>1, Returned
           DEF CertInv, Switched, Serving, ActiveIs, Settled, Applying, Startable
      <3>2. CASE /\ UpdateCertificateRevisionState(req[c].rev, "active") /\ marked' = marked
                 /\ IF req[c].prev # NoRevision THEN Goto(c, "supersede") ELSE Return(c)
        <4>1. Active' = Active \union {req[c].rev}
          BY <1>0, <3>0, <3>2, ActiveUpdated
        <4>2. marked => Active = Only(req[c].prev)
          BY <2>3, <3>0 DEF CertInv, ActiveIs
        <4>3. CASE req[c].prev # NoRevision
          <5>1. marked' => Active' = {req[c].prev, req[c].rev}
            BY <3>2, <4>1, <4>2, <4>3 DEF Only
          <5>2. QED
            BY <1>0, <2>3, <3>0, <3>2, <4>3, <5>1, Moved
               DEF CertInv, Switched, Target, Serving, ActiveIs, Settled, Applying, Steps
        <4>4. CASE req[c].prev = NoRevision
          <5>1. marked' => Active' = Only(req[c].rev)
            BY <3>0, <3>2, <4>1, <4>2, <4>4 DEF Only
          <5>2. QED
            BY <1>0, <2>3, <3>0, <3>2, <4>4, <5>1, Returned
               DEF CertInv, Switched, Target, Serving, ActiveIs, Settled, Applying, Startable
        <4>5. QED
          BY <4>3, <4>4
      <3>3. QED
        BY <1>11, <3>1, <3>2 DEF MarkActive
    <2>4. QED
      BY <2>1, <2>2, <2>3, CertAlone, CertOne
  <1>12. ASSUME NEW c \in Clients, MarkSuperseded(c), UNCHANGED <<listenerVars, begun>>
         PROVE  AgreeInv'
    <2>1. Applying(c) /\ la' = la /\ (clean' => clean)
      BY <1>12 DEF MarkSuperseded, Applying, listenerVars
    <2>2. \A d \in Clients \ {c} : req'[d] = req[d]
      BY <1>0, <1>12, Returned DEF MarkSuperseded, Steps
    <2>3. ASSUME CertInv(c), clean'
          PROVE  /\ Applying(c)' => CertInv(c)'
                 /\ ~Applying(c)' => Settled'
      <3>0. /\ UNCHANGED <<conf, lrows, broker, link, served>> /\ req[c].pc = "supersede"
            /\ req[c].rev \in Revisions /\ req[c].rev # NoRevision
            /\ req[c].prev # NoRevision => req[c].prev \in Revisions
        BY <1>12, <2>1, HostAssumption
           DEF MarkSuperseded, MaterialInv, ApplyInv, Recorded
      <3>1. /\ Return(c)
            /\ \/ marked' = FALSE
               \/ UpdateCertificateRevisionState(req[c].prev, "superseded") /\ marked' = marked
        BY <1>12 DEF MarkSuperseded
      <3>2. marked' => Active' = {req[c].prev, req[c].rev} \ {req[c].prev}
        <4>1. req[c].prev \in Revisions
          BY <2>1, <3>0 DEF MaterialInv, ApplyInv
        <4>2. marked => Active = {req[c].prev, req[c].rev}
          BY <2>3, <3>0 DEF CertInv, ActiveIs
        <4>3. CASE UpdateCertificateRevisionState(req[c].prev, "superseded") /\ marked' = marked
          BY <1>0, <4>1, <4>2, <4>3, ActiveUpdated
        <4>4. QED
          BY <3>1, <4>3
      <3>3. marked' => Active' = Only(req[c].rev)
        BY <2>3, <3>0, <3>2 DEF CertInv, Only
      <3>4. QED
        BY <1>0, <2>3, <3>0, <3>1, <3>3, Returned
           DEF CertInv, Switched, Target, Serving, ActiveIs, Settled, Applying, Startable
    <2>4. QED
      BY <2>1, <2>2, <2>3, CertAlone, CertOne
  <1>13. ASSUME NEW c \in Clients, MarkFailed(c), UNCHANGED <<listenerVars, begun>>
         PROVE  AgreeInv'
    <2>1. Applying(c) /\ la' = la /\ (clean' => clean)
      BY <1>13 DEF MarkFailed, hostVars, Applying, listenerVars
    <2>2. \A d \in Clients \ {c} : req'[d] = req[d]
      BY <1>0, <1>13, Returned DEF MarkFailed, hostVars, Steps
    <2>3. ASSUME CertInv(c), clean'
          PROVE  /\ Applying(c)' => CertInv(c)'
                 /\ ~Applying(c)' => Settled'
      <3>0. /\ UNCHANGED <<conf, lrows, broker, link, marked, served>> /\ req[c].pc = "fail"
            /\ req[c].rev \in Revisions /\ req[c].rev # NoRevision
            /\ req[c].prev # NoRevision => req[c].prev \in Revisions
        BY <1>13, <2>1, HostAssumption
           DEF MarkFailed, hostVars, MaterialInv, ApplyInv, Recorded
      <3>1. /\ Return(c)
            /\ UpdateCertificateRevisionState(req[c].rev, "failed") \/ Active' = Active
        BY <1>13, SameActive DEF MarkFailed
      <3>2. marked => Active = Only(req[c].prev)
        BY <2>3, <3>0 DEF CertInv, ActiveIs
      <3>3. marked' => Active' = Only(req[c].prev)
        <4>1. req[c].rev \notin Only(req[c].prev)
          BY <2>3 DEF CertInv, Only
        <4>2. Active' = Active \ {req[c].rev} \/ Active' = Active
          BY <1>0, <3>0, <3>1, ActiveUpdated
        <4>3. QED
          BY <3>0, <3>2, <4>1, <4>2
      <3>4. QED
        BY <1>0, <2>3, <3>0, <3>1, <3>3, Returned
           DEF CertInv, Switched, Target, Serving, ActiveIs, Settled, Applying
    <2>4. QED
      BY <2>1, <2>2, <2>3, CertAlone, CertOne
  <1>14. ASSUME NEW p \in PreviewIds, NEW plan \in Plans, Preview(p, plan), UNCHANGED begun
         PROVE  AgreeInv'
    BY <1>14, AgreeFrame, SameActive DEF Preview, hostVars, certVars
  <1>15. ASSUME NEW p \in PreviewIds, Expire(p), UNCHANGED begun PROVE AgreeInv'
    BY <1>15, AgreeFrame, SameActive DEF Expire, hostVars, certVars
  <1>16. ASSUME NEW p \in PreviewIds, ApplyExpired(p), UNCHANGED begun
         PROVE  AgreeInv'
    BY <1>16, AgreeFrame, SameActive DEF ApplyExpired, hostVars, certVars
  <1>17. ASSUME NEW p \in PreviewIds, BeginListenerApply(p, Busy), begun < MaxApplies, begun' = begun + 1
         PROVE  AgreeInv'
    <2>1. /\ UNCHANGED <<link, conf, lrows, broker, marked, served, crows, req>> /\ la'.pc = "resolve" /\ la.pc = "idle"
          /\ clean' => clean /\ ~Busy
      BY <1>17 DEF BeginListenerApply, certVars, NoApply
    <2>2. ASSUME clean' PROVE Settled /\ \A d \in Clients : ~Applying(d)'
      BY <2>1, <2>2 DEF AgreeInv, Busy, Applying
    <2>3. ASSUME clean' PROVE ListenInv'
      BY <2>1, <2>2, <2>3, SameActive DEF Settled, ListenInv, Serving, ActiveIs
    <2>4. QED
      BY <2>1, <2>2, <2>3 DEF AgreeInv
  <1>18. ASSUME ResolveMaterial, UNCHANGED begun PROVE AgreeInv'
    <2>1. la.pc = "resolve" /\ req' = req /\ crows' = crows /\ link' = link /\ (clean' => clean)
      BY <1>18 DEF ResolveMaterial, certVars, hostVars
    <2>2. ASSUME ListenInv, clean'
          PROVE  /\ la'.pc # "idle" => ListenInv'
                 /\ la'.pc = "idle" => Settled'
      BY <1>0, <1>18, <2>1, <2>2, SameActive, Idle
         DEF ResolveMaterial, ListenInv, Settled, Serving, ActiveIs, ListenerApply, To, Done,
             hostVars, NoResolveIssue, Resolvable, Startable
    <2>3. QED
      BY <2>1, <2>2, ListenOne
  <1>19. ASSUME Snapshot, UNCHANGED begun PROVE AgreeInv'
    <2>1. la.pc = "snapshot" /\ req' = req /\ crows' = crows /\ link' = link /\ (clean' => clean)
      BY <1>19 DEF Snapshot, certVars, hostVars
    <2>2. ASSUME ListenInv, clean'
          PROVE  /\ la'.pc # "idle" => ListenInv'
                 /\ la'.pc = "idle" => Settled'
      BY <1>0, <1>19, <2>1, <2>2, SameActive, Idle
         DEF Snapshot, ListenInv, Settled, Serving, ActiveIs, ListenerApply, To, Done,
             hostVars
    <2>3. QED
      BY <2>1, <2>2, ListenOne
  <1>20. ASSUME WriteRead, UNCHANGED begun PROVE AgreeInv'
    <2>1. la.pc = "read" /\ req' = req /\ crows' = crows /\ link' = link /\ (clean' => clean)
      BY <1>20 DEF WriteRead, certVars, hostVars
    <2>2. ASSUME ListenInv, clean'
          PROVE  /\ la'.pc # "idle" => ListenInv'
                 /\ la'.pc = "idle" => Settled'
      BY <1>0, <1>20, <2>1, <2>2, SameActive, Idle
         DEF WriteRead, ListenInv, Settled, Serving, ActiveIs, ListenerApply, To, Done,
             hostVars
    <2>3. QED
      BY <2>1, <2>2, ListenOne
  <1>21. ASSUME WriteFile, UNCHANGED begun PROVE AgreeInv'
    <2>1. la.pc = "write" /\ req' = req /\ crows' = crows /\ link' = link /\ (clean' => clean)
      BY <1>21 DEF WriteFile, certVars
    <2>2. ASSUME ListenInv, clean'
          PROVE  /\ la'.pc # "idle" => ListenInv'
                 /\ la'.pc = "idle" => Settled'
      <3>1. UNCHANGED <<lrows, broker, marked, served>> /\ Active' = Active
        BY <1>21, <2>1, SameActive DEF WriteFile
      <3>2. CASE conf' = [head |-> la.head, block |-> la.plan] /\ To("restart")
        BY <1>0, <2>1, <2>2, <3>1, <3>2
           DEF ListenInv, Settled, Serving, ActiveIs, ListenerApply, To, Done
      <3>3. CASE la' = [la EXCEPT !.pc = "restore", !.cause = "write"] /\ UNCHANGED conf
        BY <1>0, <2>1, <2>2, <3>1, <3>3
           DEF ListenInv, Settled, Serving, ActiveIs, ListenerApply, To, Done
      <3>4. QED
        BY <1>21, <3>2, <3>3 DEF WriteFile
    <2>3. QED
      BY <2>1, <2>2, ListenOne
  <1>22. ASSUME RestartListeners, UNCHANGED begun PROVE AgreeInv'
    <2>1. la.pc = "restart" /\ req' = req /\ crows' = crows /\ link' = link /\ (clean' => clean)
      BY <1>22 DEF RestartListeners, certVars
    <2>2. ASSUME ListenInv, clean'
          PROVE  /\ la'.pc # "idle" => ListenInv'
                 /\ la'.pc = "idle" => Settled'
      <3>1. Startable(conf.block, link) /\ UNCHANGED <<conf, lrows, marked>> /\ Active' = Active
        BY <1>22, <2>1, <2>2, SameActive DEF RestartListeners, ListenInv
      <3>2. CASE RestartSucceeds /\ To("persist")
        <4>1. /\ served' = TRUE
              /\ Composed => broker' = [up |-> la.plan \notin RefusedPlans, block |-> la.plan, cert |-> link]
          BY <2>1, <2>2, <3>1, <3>2, RestartServes DEF ListenInv
        <4>2. QED
          BY <1>0, <2>1, <2>2, <3>1, <3>2, <4>1
             DEF ListenInv, Settled, Serving, ActiveIs, ListenerApply, To, Done
      <3>3. CASE la' = [la EXCEPT !.pc = "restore", !.cause = "restart"] /\ RestartFails(FALSE)
        <4>1. served' => served /\ broker' = broker
          BY <3>3, Zenon DEF RestartFails
        <4>2. QED
          BY <1>0, <2>1, <2>2, <3>1, <3>3, <4>1
             DEF ListenInv, Settled, Serving, ActiveIs, ListenerApply, To, Done
      <3>4. QED
        BY <1>22, <3>2, <3>3 DEF RestartListeners
    <2>3. QED
      BY <2>1, <2>2, ListenOne
  <1>23. ASSUME PersistRows, UNCHANGED begun PROVE AgreeInv'
    <2>1. la.pc = "persist" /\ req' = req /\ crows' = crows /\ link' = link /\ (clean' => clean)
      BY <1>23 DEF PersistRows, certVars
    <2>2. ASSUME ListenInv, clean'
          PROVE  /\ la'.pc # "idle" => ListenInv'
                 /\ la'.pc = "idle" => Settled'
      BY <1>0, <1>23, <2>1, <2>2, SameActive, Idle
         DEF PersistRows, ListenInv, Settled, Serving, ActiveIs, ListenerApply, To, Done,
             ReplaceAllListenerSpecs
    <2>3. QED
      BY <2>1, <2>2, ListenOne
  <1>24. ASSUME Restore, UNCHANGED begun PROVE AgreeInv'
    <2>1. la.pc = "restore" /\ req' = req /\ crows' = crows /\ link' = link /\ (clean' => clean)
      BY <1>24 DEF Restore, certVars
    <2>2. ASSUME ListenInv, clean'
          PROVE  /\ la'.pc # "idle" => ListenInv'
                 /\ la'.pc = "idle" => Settled'
      BY <1>0, <1>24, <2>1, <2>2, SameActive, Idle
         DEF Restore, ListenInv, Settled, Serving, ActiveIs, ListenerApply, To, Done
    <2>3. QED
      BY <2>1, <2>2, ListenOne
  <1>25. ASSUME Compensate, UNCHANGED begun PROVE AgreeInv'
    <2>1. la.pc = "compensate" /\ req' = req /\ crows' = crows /\ link' = link /\ (clean' => clean)
      BY <1>25 DEF Compensate, certVars
    <2>2. ASSUME ListenInv, clean'
          PROVE  /\ la'.pc # "idle" => ListenInv'
                 /\ la'.pc = "idle" => Settled'
      <3>1. /\ Startable(conf.block, link) /\ UNCHANGED <<conf, lrows, marked>> /\ Active' = Active
            /\ la'.pc = "idle" /\ conf.block = lrows
        BY <1>25, <2>1, <2>2, SameActive, Idle DEF Compensate, ListenInv, Done
      <3>2. CASE RestartSucceeds
        <4>1. Composed => broker' = [up |-> lrows \notin RefusedPlans, block |-> lrows, cert |-> link]
          BY <3>1, <3>2, RestartServes
        <4>2. QED
          BY <2>1, <2>2, <3>1, <4>1 DEF Settled, ListenInv, Serving, ActiveIs
      <3>3. CASE RestartFails(TRUE)
        <4>1. served' = FALSE
          BY <3>3 DEF RestartFails
        <4>2. QED
          BY <2>1, <2>2, <3>1, <4>1 DEF Settled, ListenInv, Serving, ActiveIs
      <3>4. QED
        BY <1>25, <3>2, <3>3 DEF Compensate
    <2>3. QED
      BY <2>1, <2>2, ListenOne
  <1>26. ASSUME Consume, UNCHANGED begun PROVE AgreeInv'
    <2>1. la.pc = "consume" /\ req' = req /\ crows' = crows /\ link' = link /\ (clean' => clean)
      BY <1>26 DEF Consume, certVars, hostVars
    <2>2. ASSUME ListenInv, clean'
          PROVE  /\ la'.pc # "idle" => ListenInv'
                 /\ la'.pc = "idle" => Settled'
      BY <1>0, <1>26, <2>1, <2>2, SameActive, Idle
         DEF Consume, ListenInv, Settled, Serving, ActiveIs, ListenerApply, To, Done, hostVars
    <2>3. QED
      BY <2>1, <2>2, ListenOne
  <1>27. ASSUME EditElsewhere, UNCHANGED begun PROVE AgreeInv'
    <2>1. conf'.block = conf.block
      BY <1>0, <1>27 DEF EditElsewhere, HostTypeOK
    <2>2. QED
      BY <1>27, <2>1, AgreeFrame, SameActive
         DEF EditElsewhere, certVars, listenerVars
  <1>28. ASSUME Crash PROVE AgreeInv'
    BY <1>28 DEF Crash, AgreeInv
  <1>29. CASE UNCHANGED vars
    BY <1>29, AgreeFrame, SameActive DEF vars, hostVars, certVars, listenerVars
  <1>30. QED
    BY <1>1, <1>2, <1>3, <1>4, <1>5, <1>6, <1>7, <1>8, <1>9, <1>10, <1>11,
       <1>12, <1>13, <1>14, <1>15, <1>16, <1>17, <1>18, <1>19, <1>20, <1>21,
       <1>22, <1>23, <1>24, <1>25, <1>26, <1>27, <1>28, <1>29 DEF Next,
       Upload, CertStep, CreateStep, ApplyStep, PreviewStep, ListenerStep,
       Begin

-----------------------------------------------------------------------------
(* The theorems.                                                           *)

LEMMA Inductive == Spec => []IInv
  <1>1. Init => IInv
    <2> SUFFICES ASSUME Init PROVE IInv
      OBVIOUS
    <2>1. la.pc = "idle" /\ \A c \in Clients : ~Applying(c)
      BY Idle DEF Init, ListenerInit, CertInit, Applying, NoRequest
    <2>2. AloneInv
      BY <2>1 DEF AloneInv
    <2>3. HeadInv
      BY <2>1 DEF HeadInv, Init, HostInit
    <2>4. QED
      BY <2>2, <2>3, InitType, InitMaterial, InitAgree DEF IInv
  <1>2. IInv /\ [Next]_vars => IInv'
    BY StepType, StepMaterial, StepAlone, StepHead, StepAgree DEF IInv, TypeInv
  <1>3. QED
    BY <1>1, <1>2, PTL DEF Spec

(* The types of files, rows, requests and previews hold for any numbers of *)
(* requests, revisions, previews and applies of the two services.          *)
THEOREM TypeCorrect == Spec => []TypeOK
  <1>1. IInv => TypeOK
    BY DEF IInv, TypeInv
  <1>2. QED
    BY <1>1, Inductive, PTL

(* CreateRevision and Apply of the certificate service: a recorded         *)
(* revision has its files and the active link points at a recorded one,    *)
(* however uploads, activations, rollbacks and crashes interleave.         *)
THEOREM RowsHaveMaterial == Spec => []MaterialBehindRows
  <1>1. IInv => MaterialBehindRows
    BY DEF IInv, MaterialInv, RowsInv, LinksInv, Recorded, MaterialBehindRows
  <1>2. QED
    BY <1>1, Inductive, PTL

(* Apply and rollback of both services: in a clean history and between     *)
(* requests mosquitto.conf holds the recorded listeners, the recorded      *)
(* revision is the linked one unless the update of a row failed, and the   *)
(* broker loaded both unless the last restart failed.                      *)
THEOREM BrokerAgrees == Spec => []BrokerRunsRecorded
  <1>1. IInv => BrokerRunsRecorded
    <2> SUFFICES ASSUME IInv, clean, Quiet
                 PROVE  /\ conf.block = lrows
                        /\ marked => ListProfiles.recorded = {ListProfiles.active} \ {NoRevision}
                        /\ Composed /\ served =>
                             broker = [up |-> lrows \notin RefusedPlans, block |-> lrows, cert |-> link]
      BY DEF BrokerRunsRecorded
    <2>1. la.pc = "idle" /\ \A c \in Clients : ~Applying(c)
      BY DEF Quiet, Applying
    <2>2. Settled
      BY <2>1 DEF IInv, AgreeInv
    <2>3. QED
      BY <2>2 DEF Settled, Serving, ActiveIs, ActiveIs, Active, Only, ListProfiles
  <1>2. QED
    BY <1>1, Inductive, PTL

(* Write and Restore of the listener writer: in a clean history the rest   *)
(* of mosquitto.conf is what its last writer left, whatever an apply of    *)
(* the listeners wrote or put back since.                                  *)
THEOREM ForeignEditKept == Spec => []EditKept
  <1>1. IInv => EditKept
    BY DEF IInv, HeadInv, EditKept
  <1>2. QED
    BY <1>1, Inductive, PTL

=============================================================================

----------------------- MODULE StorageAccountsProofs -----------------------
(***************************************************************************)
(* Proofs about StorageAccounts.  The deletion of an account looks once    *)
(* for whoever needs it and commits later.  The inductive invariant says   *)
(* why that is enough: while its row is locked nobody new can come to need *)
(* the account, because a lease, a reference and a switch each wait for    *)
(* the row, and whoever works on an account holds an unreleased lease.     *)
(***************************************************************************)
EXTENDS StorageAccounts, TLAPS

(* An upload that has not begun has left no trace.                         *)
IdleIsClean ==
    \A o \in Uploads : stage[o] = "idle" => o \notin files \cup reference /\ lease[o]
     = "none"

(* Work on an account is done under a lease that is not released.          *)
WorkIsLeased ==
    \A o \in Uploads :
        stage[o] \in {"working", "ending"} => target[o] = Local \/ Unreleased(o)

(* What the deletion has checked stays true while it holds the row.        *)
DeletionStillAllowed ==
    \A a \in Accounts :
        deleting = a => /\ account[a] = "present"
                        /\ ~Blocked(a)
                        /\ FilesOf(a) \subseteq approved

(* What a run of init has read is a target.                                *)
ReadIsTarget == \A l \in Loads : load[l].at = "read" => load[l].found \in Targets

IInv ==
    /\ TypeOK
    /\ NeededAccountStays
    /\ ConfiguredTargetExists
    /\ IdleIsClean
    /\ WorkIsLeased
    /\ DeletionStillAllowed
    /\ ReadIsTarget

-----------------------------------------------------------------------------
(* The invariant holds at the start.                                       *)
LEMMA InitStep == Init => IInv
  BY StorageAssumption
  DEF Init, IInv, TypeOK, NeededAccountStays, ConfiguredTargetExists, IdleIsClean,
      WorkIsLeased, DeletionStillAllowed, ReadIsTarget, NotLoading, NoPreview, Targets,
      Present, Existing, Stages

(* Every step keeps the types.                                             *)
LEMMA TypeStep == TypeOK /\ ReadIsTarget /\ [Next]_vars => (TypeOK /\ ReadIsTarget)'
<1> SUFFICES ASSUME TypeOK, ReadIsTarget, [Next]_vars PROVE (TypeOK /\ ReadIsTarget)'
  OBVIOUS
<1> USE StorageAssumption DEF TypeOK, ReadIsTarget, Targets, Stages
<1>1. ASSUME NEW a \in Accounts, AddAccount(a) PROVE (TypeOK /\ ReadIsTarget)'
  BY <1>1 DEF AddAccount, deleteVars, uploadVars
<1>2. ASSUME NEW l \in Loads, NEW t \in Targets, Switch(l, t)
      PROVE  (TypeOK /\ ReadIsTarget)'
  BY <1>2 DEF Switch, deleteVars, uploadVars
<1>3. ASSUME NEW l \in Loads, BotStart(l) PROVE (TypeOK /\ ReadIsTarget)'
  BY <1>3 DEF BotStart, dbVars, deleteVars, uploadVars
<1>4. ASSUME NEW l \in Loads, ReadAccounts(l) PROVE (TypeOK /\ ReadIsTarget)'
  BY <1>4 DEF ReadAccounts, dbVars, deleteVars, uploadVars, Existing
<1>5. ASSUME NEW l \in Loads, Disagree(l) PROVE (TypeOK /\ ReadIsTarget)'
  BY <1>5 DEF Disagree, dbVars, deleteVars, uploadVars, NotLoading
<1>6. ASSUME NEW l \in Loads, SetTarget(l) PROVE (TypeOK /\ ReadIsTarget)'
  BY <1>6 DEF SetTarget, dbVars, deleteVars, uploadVars, NotLoading
<1>7. ASSUME NEW o \in Uploads, NEW t \in Targets, Capture(o, t)
      PROVE  (TypeOK /\ ReadIsTarget)'
  BY <1>7 DEF Capture, dbVars, memoryVars, deleteVars, Existing
<1>8. ASSUME NEW o \in Uploads, NEW t \in Targets, Admit(o, t)
      PROVE  (TypeOK /\ ReadIsTarget)'
  BY <1>8 DEF Admit, dbVars, memoryVars, deleteVars, Existing
<1>9. ASSUME NEW o \in Uploads, AdmitActive(o) PROVE (TypeOK /\ ReadIsTarget)'
  BY <1>9 DEF AdmitActive, dbVars, memoryVars, deleteVars
<1>10. ASSUME NEW o \in Uploads, NEW ok \in BOOLEAN, Refer(o, ok)
       PROVE  (TypeOK /\ ReadIsTarget)'
  BY <1>10 DEF Refer, dbVars, memoryVars, deleteVars
<1>11. ASSUME NEW o \in Uploads, CancelWaiting(o) PROVE (TypeOK /\ ReadIsTarget)'
  BY <1>11 DEF CancelWaiting, dbVars, memoryVars, deleteVars
<1>12. ASSUME NEW o \in Uploads, Acquire(o) PROVE (TypeOK /\ ReadIsTarget)'
  BY <1>12 DEF Acquire, dbVars, memoryVars, deleteVars
<1>13. ASSUME NEW o \in Uploads, NEW ok \in BOOLEAN, EndAdmission(o, ok)
       PROVE  (TypeOK /\ ReadIsTarget)'
  BY <1>13 DEF EndAdmission, dbVars, memoryVars, deleteVars, Release, Fault
<1>14. ASSUME NEW o \in Uploads, NEW ok \in BOOLEAN, Store(o, ok)
       PROVE  (TypeOK /\ ReadIsTarget)'
  BY <1>14 DEF Store, dbVars, memoryVars, deleteVars
<1>15. ASSUME NEW o \in Uploads, NEW ok \in BOOLEAN, Finish(o, ok)
       PROVE  (TypeOK /\ ReadIsTarget)'
  BY <1>15 DEF Finish, dbVars, memoryVars, deleteVars, Release, Fault
<1>16. ASSUME NEW o \in Uploads, NEW ok \in BOOLEAN, PutBack(o, ok)
       PROVE  (TypeOK /\ ReadIsTarget)'
  BY <1>16 DEF PutBack, dbVars, memoryVars, deleteVars, Release, Fault
<1>17. ASSUME NEW o \in Uploads, DeleteFile(o) PROVE (TypeOK /\ ReadIsTarget)'
  BY <1>17 DEF DeleteFile, dbVars, memoryVars, deleteVars
<1>18. ASSUME NEW o \in Uploads, Lapse(o) PROVE (TypeOK /\ ReadIsTarget)'
  BY <1>18 DEF Lapse, dbVars, memoryVars, deleteVars, Fault
<1>19. ASSUME NEW o \in Uploads, Renew(o) PROVE (TypeOK /\ ReadIsTarget)'
  BY <1>19 DEF Renew, dbVars, memoryVars, deleteVars
<1>20. ASSUME NEW a \in Accounts, Preview(a) PROVE (TypeOK /\ ReadIsTarget)'
  BY <1>20 DEF Preview, dbVars, memoryVars, uploadVars, FilesOf
<1>21. ASSUME NEW a \in Accounts, BeginDelete(a) PROVE (TypeOK /\ ReadIsTarget)'
  BY <1>21 DEF BeginDelete, dbVars, memoryVars, uploadVars, NoPreview
<1>22. ASSUME NEW a \in Accounts, CommitDelete(a) PROVE (TypeOK /\ ReadIsTarget)'
  BY <1>22 DEF CommitDelete, FilesOf
<1>23. CASE Restart
  BY <1>23 DEF Restart, dbVars, Fault, NotLoading, NoPreview, Existing
<1>24. CASE UNCHANGED vars
  BY <1>24 DEF vars, dbVars, memoryVars, deleteVars, uploadVars
<1>25. QED
  BY <1>1, <1>2, <1>3, <1>4, <1>5, <1>6, <1>7, <1>8, <1>9, <1>10, <1>11, <1>12, <1>13,
     <1>14, <1>15, <1>16, <1>17, <1>18, <1>19, <1>20, <1>21, <1>22, <1>23, <1>24
  DEF Next, Choose, Upload, Delete

(* Nobody loses the account it needs.                                      *)
LEMMA NeededStep == IInv /\ [Next]_vars => (NeededAccountStays /\
     ConfiguredTargetExists)'
<1> SUFFICES ASSUME IInv, [Next]_vars
             PROVE  (NeededAccountStays /\ ConfiguredTargetExists)'
  OBVIOUS
<1> USE StorageAssumption DEF IInv, TypeOK, Targets, NeededAccountStays,
     ConfiguredTargetExists, Present, Existing
<1>1. ASSUME NEW a \in Accounts, AddAccount(a)
      PROVE  (NeededAccountStays /\ ConfiguredTargetExists)'
  BY <1>1 DEF AddAccount, deleteVars, uploadVars
<1>2. ASSUME NEW l \in Loads, NEW t \in Targets, Switch(l, t)
      PROVE  (NeededAccountStays /\ ConfiguredTargetExists)'
  BY <1>2 DEF Switch, deleteVars, uploadVars
<1>3. ASSUME NEW l \in Loads, BotStart(l)
      PROVE  (NeededAccountStays /\ ConfiguredTargetExists)'
  BY <1>3 DEF BotStart, dbVars, deleteVars, uploadVars
<1>4. ASSUME NEW l \in Loads, ReadAccounts(l)
      PROVE  (NeededAccountStays /\ ConfiguredTargetExists)'
  BY <1>4 DEF ReadAccounts, dbVars, deleteVars, uploadVars
<1>5. ASSUME NEW l \in Loads, Disagree(l)
      PROVE  (NeededAccountStays /\ ConfiguredTargetExists)'
  BY <1>5 DEF Disagree, dbVars, deleteVars, uploadVars, NotLoading
<1>6. ASSUME NEW l \in Loads, SetTarget(l)
      PROVE  (NeededAccountStays /\ ConfiguredTargetExists)'
  BY <1>6 DEF SetTarget, dbVars, deleteVars, uploadVars, NotLoading
<1>7. ASSUME NEW o \in Uploads, NEW t \in Targets, Capture(o, t)
      PROVE  (NeededAccountStays /\ ConfiguredTargetExists)'
  BY <1>7 DEF Capture, dbVars, memoryVars, deleteVars, IdleIsClean
<1>8. ASSUME NEW o \in Uploads, NEW t \in Targets, Admit(o, t)
      PROVE  (NeededAccountStays /\ ConfiguredTargetExists)'
  BY <1>8 DEF Admit, dbVars, memoryVars, deleteVars, IdleIsClean
<1>9. ASSUME NEW o \in Uploads, AdmitActive(o)
      PROVE  (NeededAccountStays /\ ConfiguredTargetExists)'
  BY <1>9 DEF AdmitActive, dbVars, memoryVars, deleteVars, IdleIsClean
<1>10. ASSUME NEW o \in Uploads, NEW ok \in BOOLEAN, Refer(o, ok)
       PROVE  (NeededAccountStays /\ ConfiguredTargetExists)'
  BY <1>10 DEF Refer, dbVars, memoryVars, deleteVars
<1>11. ASSUME NEW o \in Uploads, CancelWaiting(o)
       PROVE  (NeededAccountStays /\ ConfiguredTargetExists)'
  BY <1>11 DEF CancelWaiting, dbVars, memoryVars, deleteVars
<1>12. ASSUME NEW o \in Uploads, Acquire(o)
       PROVE  (NeededAccountStays /\ ConfiguredTargetExists)'
  BY <1>12 DEF Acquire, dbVars, memoryVars, deleteVars
<1>13. ASSUME NEW o \in Uploads, NEW ok \in BOOLEAN, EndAdmission(o, ok)
       PROVE  (NeededAccountStays /\ ConfiguredTargetExists)'
  BY <1>13 DEF EndAdmission, dbVars, memoryVars, deleteVars, Release, Fault
<1>14. ASSUME NEW o \in Uploads, NEW ok \in BOOLEAN, Store(o, ok)
       PROVE  (NeededAccountStays /\ ConfiguredTargetExists)'
  BY <1>14 DEF Store, dbVars, memoryVars, deleteVars
<1>15. ASSUME NEW o \in Uploads, NEW ok \in BOOLEAN, Finish(o, ok)
       PROVE  (NeededAccountStays /\ ConfiguredTargetExists)'
  BY <1>15 DEF Finish, dbVars, memoryVars, deleteVars, Release, Fault
<1>16. ASSUME NEW o \in Uploads, NEW ok \in BOOLEAN, PutBack(o, ok)
       PROVE  (NeededAccountStays /\ ConfiguredTargetExists)'
  BY <1>16 DEF PutBack, dbVars, memoryVars, deleteVars, Release, Fault
<1>17. ASSUME NEW o \in Uploads, DeleteFile(o)
       PROVE  (NeededAccountStays /\ ConfiguredTargetExists)'
  BY <1>17 DEF DeleteFile, dbVars, memoryVars, deleteVars
<1>18. ASSUME NEW o \in Uploads, Lapse(o)
       PROVE  (NeededAccountStays /\ ConfiguredTargetExists)'
  BY <1>18 DEF Lapse, dbVars, memoryVars, deleteVars, Fault
<1>19. ASSUME NEW o \in Uploads, Renew(o)
       PROVE  (NeededAccountStays /\ ConfiguredTargetExists)'
  BY <1>19 DEF Renew, dbVars, memoryVars, deleteVars
<1>20. ASSUME NEW a \in Accounts, Preview(a)
       PROVE  (NeededAccountStays /\ ConfiguredTargetExists)'
  BY <1>20 DEF Preview, dbVars, memoryVars, uploadVars, FilesOf
<1>21. ASSUME NEW a \in Accounts, BeginDelete(a)
       PROVE  (NeededAccountStays /\ ConfiguredTargetExists)'
  BY <1>21 DEF BeginDelete, dbVars, memoryVars, uploadVars, NoPreview
<1>22. ASSUME NEW a \in Accounts, CommitDelete(a)
       PROVE  (NeededAccountStays /\ ConfiguredTargetExists)'
  BY <1>22 DEF CommitDelete, FilesOf, DeletionStillAllowed, WorkIsLeased, Blocked,
     Unreleased
<1>23. CASE Restart
  BY <1>23 DEF Restart, dbVars, Fault, NotLoading, NoPreview
<1>24. CASE UNCHANGED vars
  BY <1>24 DEF vars, dbVars, memoryVars, deleteVars, uploadVars
<1>25. QED
  BY <1>1, <1>2, <1>3, <1>4, <1>5, <1>6, <1>7, <1>8, <1>9, <1>10, <1>11, <1>12, <1>13,
     <1>14, <1>15, <1>16, <1>17, <1>18, <1>19, <1>20, <1>21, <1>22, <1>23, <1>24
  DEF Next, Choose, Upload, Delete

(* Work goes on under unreleased leases.                                   *)
LEMMA LeaseStep == IInv /\ [Next]_vars => (IdleIsClean /\ WorkIsLeased)'
<1> SUFFICES ASSUME IInv, [Next]_vars PROVE (IdleIsClean /\ WorkIsLeased)'
  OBVIOUS
<1> USE StorageAssumption DEF IInv, TypeOK, Targets, Stages, IdleIsClean,
     WorkIsLeased, Unreleased
<1>1. ASSUME NEW a \in Accounts, AddAccount(a) PROVE (IdleIsClean /\ WorkIsLeased)'
  BY <1>1 DEF AddAccount, deleteVars, uploadVars
<1>2. ASSUME NEW l \in Loads, NEW t \in Targets, Switch(l, t)
      PROVE  (IdleIsClean /\ WorkIsLeased)'
  BY <1>2 DEF Switch, deleteVars, uploadVars
<1>3. ASSUME NEW l \in Loads, BotStart(l) PROVE (IdleIsClean /\ WorkIsLeased)'
  BY <1>3 DEF BotStart, dbVars, deleteVars, uploadVars
<1>4. ASSUME NEW l \in Loads, ReadAccounts(l) PROVE (IdleIsClean /\ WorkIsLeased)'
  BY <1>4 DEF ReadAccounts, dbVars, deleteVars, uploadVars, Existing
<1>5. ASSUME NEW l \in Loads, Disagree(l) PROVE (IdleIsClean /\ WorkIsLeased)'
  BY <1>5 DEF Disagree, dbVars, deleteVars, uploadVars, NotLoading
<1>6. ASSUME NEW l \in Loads, SetTarget(l) PROVE (IdleIsClean /\ WorkIsLeased)'
  BY <1>6 DEF SetTarget, dbVars, deleteVars, uploadVars, NotLoading
<1>7. ASSUME NEW o \in Uploads, NEW t \in Targets, Capture(o, t)
      PROVE  (IdleIsClean /\ WorkIsLeased)'
  BY <1>7 DEF Capture, dbVars, memoryVars, deleteVars, Existing
<1>8. ASSUME NEW o \in Uploads, NEW t \in Targets, Admit(o, t)
      PROVE  (IdleIsClean /\ WorkIsLeased)'
  BY <1>8 DEF Admit, dbVars, memoryVars, deleteVars, Existing
<1>9. ASSUME NEW o \in Uploads, AdmitActive(o) PROVE (IdleIsClean /\ WorkIsLeased)'
  BY <1>9 DEF AdmitActive, dbVars, memoryVars, deleteVars
<1>10. ASSUME NEW o \in Uploads, NEW ok \in BOOLEAN, Refer(o, ok)
       PROVE  (IdleIsClean /\ WorkIsLeased)'
  BY <1>10 DEF Refer, dbVars, memoryVars, deleteVars
<1>11. ASSUME NEW o \in Uploads, CancelWaiting(o) PROVE (IdleIsClean /\ WorkIsLeased)'
  BY <1>11 DEF CancelWaiting, dbVars, memoryVars, deleteVars
<1>12. ASSUME NEW o \in Uploads, Acquire(o) PROVE (IdleIsClean /\ WorkIsLeased)'
  BY <1>12 DEF Acquire, dbVars, memoryVars, deleteVars
<1>13. ASSUME NEW o \in Uploads, NEW ok \in BOOLEAN, EndAdmission(o, ok)
       PROVE  (IdleIsClean /\ WorkIsLeased)'
  BY <1>13 DEF EndAdmission, dbVars, memoryVars, deleteVars, Release, Fault
<1>14. ASSUME NEW o \in Uploads, NEW ok \in BOOLEAN, Store(o, ok)
       PROVE  (IdleIsClean /\ WorkIsLeased)'
  BY <1>14 DEF Store, dbVars, memoryVars, deleteVars
<1>15. ASSUME NEW o \in Uploads, NEW ok \in BOOLEAN, Finish(o, ok)
       PROVE  (IdleIsClean /\ WorkIsLeased)'
  BY <1>15 DEF Finish, dbVars, memoryVars, deleteVars, Release, Fault
<1>16. ASSUME NEW o \in Uploads, NEW ok \in BOOLEAN, PutBack(o, ok)
       PROVE  (IdleIsClean /\ WorkIsLeased)'
  BY <1>16 DEF PutBack, dbVars, memoryVars, deleteVars, Release, Fault
<1>17. ASSUME NEW o \in Uploads, DeleteFile(o) PROVE (IdleIsClean /\ WorkIsLeased)'
  BY <1>17 DEF DeleteFile, dbVars, memoryVars, deleteVars
<1>18. ASSUME NEW o \in Uploads, Lapse(o) PROVE (IdleIsClean /\ WorkIsLeased)'
  BY <1>18 DEF Lapse, dbVars, memoryVars, deleteVars, Fault
<1>19. ASSUME NEW o \in Uploads, Renew(o) PROVE (IdleIsClean /\ WorkIsLeased)'
  BY <1>19 DEF Renew, dbVars, memoryVars, deleteVars
<1>20. ASSUME NEW a \in Accounts, Preview(a) PROVE (IdleIsClean /\ WorkIsLeased)'
  BY <1>20 DEF Preview, dbVars, memoryVars, uploadVars, FilesOf
<1>21. ASSUME NEW a \in Accounts, BeginDelete(a) PROVE (IdleIsClean /\ WorkIsLeased)'
  BY <1>21 DEF BeginDelete, dbVars, memoryVars, uploadVars, NoPreview
<1>22. ASSUME NEW a \in Accounts, CommitDelete(a) PROVE (IdleIsClean /\ WorkIsLeased)'
  BY <1>22 DEF CommitDelete, FilesOf, DeletionStillAllowed, Blocked
<1>23. CASE Restart
  BY <1>23 DEF Restart, dbVars, Fault, NotLoading, NoPreview, Existing
<1>24. CASE UNCHANGED vars
  BY <1>24 DEF vars, dbVars, memoryVars, deleteVars, uploadVars
<1>25. QED
  BY <1>1, <1>2, <1>3, <1>4, <1>5, <1>6, <1>7, <1>8, <1>9, <1>10, <1>11, <1>12, <1>13,
     <1>14, <1>15, <1>16, <1>17, <1>18, <1>19, <1>20, <1>21, <1>22, <1>23, <1>24
  DEF Next, Choose, Upload, Delete

(* What a deletion has checked stays true until it commits.                *)
LEMMA DeletionStep == IInv /\ [Next]_vars => DeletionStillAllowed'
<1> SUFFICES ASSUME IInv, [Next]_vars PROVE DeletionStillAllowed'
  OBVIOUS
<1> USE StorageAssumption DEF IInv, TypeOK, Targets, DeletionStillAllowed, Blocked,
     Unreleased, FilesOf, Unlocked
<1>1. ASSUME NEW a \in Accounts, AddAccount(a) PROVE DeletionStillAllowed'
  BY <1>1 DEF AddAccount, deleteVars, uploadVars
<1>2. ASSUME NEW l \in Loads, NEW t \in Targets, Switch(l, t)
      PROVE  DeletionStillAllowed'
  BY <1>2 DEF Switch, deleteVars, uploadVars
<1>3. ASSUME NEW l \in Loads, BotStart(l) PROVE DeletionStillAllowed'
  BY <1>3 DEF BotStart, dbVars, deleteVars, uploadVars
<1>4. ASSUME NEW l \in Loads, ReadAccounts(l) PROVE DeletionStillAllowed'
  BY <1>4 DEF ReadAccounts, dbVars, deleteVars, uploadVars, Existing
<1>5. ASSUME NEW l \in Loads, Disagree(l) PROVE DeletionStillAllowed'
  BY <1>5 DEF Disagree, dbVars, deleteVars, uploadVars, NotLoading
<1>6. ASSUME NEW l \in Loads, SetTarget(l) PROVE DeletionStillAllowed'
  BY <1>6 DEF SetTarget, dbVars, deleteVars, uploadVars, NotLoading
<1>7. ASSUME NEW o \in Uploads, NEW t \in Targets, Capture(o, t)
      PROVE  DeletionStillAllowed'
  BY <1>7 DEF Capture, dbVars, memoryVars, deleteVars, Existing, IdleIsClean
<1>8. ASSUME NEW o \in Uploads, NEW t \in Targets, Admit(o, t)
      PROVE  DeletionStillAllowed'
  BY <1>8 DEF Admit, dbVars, memoryVars, deleteVars, Existing, IdleIsClean
<1>9. ASSUME NEW o \in Uploads, AdmitActive(o) PROVE DeletionStillAllowed'
  BY <1>9 DEF AdmitActive, dbVars, memoryVars, deleteVars, IdleIsClean
<1>10. ASSUME NEW o \in Uploads, NEW ok \in BOOLEAN, Refer(o, ok)
       PROVE  DeletionStillAllowed'
  BY <1>10 DEF Refer, dbVars, memoryVars, deleteVars
<1>11. ASSUME NEW o \in Uploads, CancelWaiting(o) PROVE DeletionStillAllowed'
  BY <1>11 DEF CancelWaiting, dbVars, memoryVars, deleteVars
<1>12. ASSUME NEW o \in Uploads, Acquire(o) PROVE DeletionStillAllowed'
  BY <1>12 DEF Acquire, dbVars, memoryVars, deleteVars
<1>13. ASSUME NEW o \in Uploads, NEW ok \in BOOLEAN, EndAdmission(o, ok)
       PROVE  DeletionStillAllowed'
  BY <1>13 DEF EndAdmission, dbVars, memoryVars, deleteVars, Release, Fault
<1>14. ASSUME NEW o \in Uploads, NEW ok \in BOOLEAN, Store(o, ok)
       PROVE  DeletionStillAllowed'
  BY <1>14 DEF Store, dbVars, memoryVars, deleteVars, WorkIsLeased
<1>15. ASSUME NEW o \in Uploads, NEW ok \in BOOLEAN, Finish(o, ok)
       PROVE  DeletionStillAllowed'
  BY <1>15 DEF Finish, dbVars, memoryVars, deleteVars, Release, Fault
<1>16. ASSUME NEW o \in Uploads, NEW ok \in BOOLEAN, PutBack(o, ok)
       PROVE  DeletionStillAllowed'
  BY <1>16 DEF PutBack, dbVars, memoryVars, deleteVars, Release, Fault
<1>17. ASSUME NEW o \in Uploads, DeleteFile(o) PROVE DeletionStillAllowed'
  BY <1>17 DEF DeleteFile, dbVars, memoryVars, deleteVars
<1>18. ASSUME NEW o \in Uploads, Lapse(o) PROVE DeletionStillAllowed'
  BY <1>18 DEF Lapse, dbVars, memoryVars, deleteVars, Fault
<1>19. ASSUME NEW o \in Uploads, Renew(o) PROVE DeletionStillAllowed'
  BY <1>19 DEF Renew, dbVars, memoryVars, deleteVars
<1>20. ASSUME NEW a \in Accounts, Preview(a) PROVE DeletionStillAllowed'
  BY <1>20 DEF Preview, dbVars, memoryVars, uploadVars
<1>21. ASSUME NEW a \in Accounts, BeginDelete(a) PROVE DeletionStillAllowed'
  BY <1>21 DEF BeginDelete, dbVars, memoryVars, uploadVars, NoPreview
<1>22. ASSUME NEW a \in Accounts, CommitDelete(a) PROVE DeletionStillAllowed'
  BY <1>22 DEF CommitDelete
<1>23. CASE Restart
  BY <1>23 DEF Restart, dbVars, Fault, NotLoading, NoPreview, Existing
<1>24. CASE UNCHANGED vars
  BY <1>24 DEF vars, dbVars, memoryVars, deleteVars, uploadVars
<1>25. QED
  BY <1>1, <1>2, <1>3, <1>4, <1>5, <1>6, <1>7, <1>8, <1>9, <1>10, <1>11, <1>12, <1>13,
     <1>14, <1>15, <1>16, <1>17, <1>18, <1>19, <1>20, <1>21, <1>22, <1>23, <1>24
  DEF Next, Choose, Upload, Delete

(* Every step keeps the invariant.                                         *)
LEMMA NextStep == IInv /\ [Next]_vars => IInv'
  BY TypeStep, NeededStep, LeaseStep, DeletionStep DEF IInv

(* The inductive invariant holds in every behaviour.                       *)
THEOREM Invariance == Spec => []IInv
  BY InitStep, NextStep, PTL DEF Spec

(* The variables keep their types, for any accounts, uploads and loads.    *)
THEOREM AccountTypes == Spec => []TypeOK
<1>1. IInv => TypeOK
  BY DEF IInv
<1>2. QED
  BY <1>1, Invariance, PTL

(* An account that an upload works on or a live row refers to is never     *)
(* deleted, whatever the interleaving of uploads, lapsing leases, switches, *)
(* restarts and deletions (deleteStorageAccountWithClient).                *)
THEOREM NeededStays == Spec => []NeededAccountStays
<1>1. IInv => NeededAccountStays
  BY DEF IInv
<1>2. QED
  BY <1>1, Invariance, PTL

(* The database never names a deleted account as the default target.       *)
THEOREM ConfiguredExists == Spec => []ConfiguredTargetExists
<1>1. IInv => ConfiguredTargetExists
  BY DEF IInv
<1>2. QED
  BY <1>1, Invariance, PTL

(* A deletion removes no file row that its user has not confirmed.         *)
THEOREM ConfirmedDeletion == Spec => DeletedAsConfirmed
<1>1. ASSUME IInv, [Next]_vars, NEW a \in Accounts,
             account[a] = "present", account'[a] = "deleted"
      PROVE  FilesOf(a) \subseteq approved
  <2>1. ~UNCHANGED account
    BY <1>1
  <2>2. CASE \E b \in Accounts : AddAccount(b)
    BY <1>1, <2>2 DEF AddAccount, IInv, TypeOK
  <2>3. CASE \E b \in Accounts : CommitDelete(b)
    BY <1>1, <2>3 DEF CommitDelete, IInv, TypeOK, DeletionStillAllowed
  <2>4. CASE Next /\ UNCHANGED account
    BY <2>1, <2>4
  <2>5. QED
    BY <1>1, <2>1, <2>2, <2>3, <2>4
    DEF Next, Choose, Upload, Delete, vars, dbVars, Switch, BotStart, ReadAccounts,
        Disagree, SetTarget, Capture, Admit, AdmitActive, Refer, CancelWaiting, Acquire,
        EndAdmission, Store, Finish, PutBack, DeleteFile, Lapse, Renew, Preview,
     BeginDelete, Restart
<1>2. IInv /\ [Next]_vars
        => [\A a \in Accounts : account[a] = "present" /\ account'[a] = "deleted"
              => FilesOf(a) \subseteq approved]_vars
  BY <1>1
<1>3. QED
  BY <1>2, Invariance, PTL DEF Spec, DeletedAsConfirmed
=============================================================================

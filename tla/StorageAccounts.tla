-------------------------- MODULE StorageAccounts --------------------------
(***************************************************************************)
(* Storage accounts while they are in use: storageAccountLifecycle.ts,     *)
(* storageAccountLease.ts, storageAccountOperation.ts, the account routes  *)
(* and the target that StorageManager (storage.ts) keeps in memory.        *)
(*                                                                         *)
(* An upload captures its target when it starts.  It is either stored at   *)
(* once under a lease, or admitted first: a lease covers the moment until  *)
(* a row that refers to the account (a chunk session, a transfer task) is  *)
(* written, and a second lease the work itself.  Deleting an account is    *)
(* one transaction that locks its row and refuses while a lease, a live    *)
(* reference, the configured or the active target needs it.  Each SQL      *)
(* statement or transaction is a step; a foreign key or a share lock on    *)
(* an account waits for the deletion that has locked its row.              *)
(***************************************************************************)
EXTENDS Naturals

CONSTANTS
    Accounts,
    Local,          \* the target that is no account
    Uploads,
    Loads,          \* runs of StorageManager.init
    Nobody,         \* no account is being deleted, no target read
    MaxFaults       \* bound: crashes, failed releases and renewals

ASSUME StorageAssumption ==
    /\ Local \notin Accounts
    /\ Nobody \notin Accounts \cup {Local}
    /\ MaxFaults \in Nat

VARIABLES
    account,        \* of each account: none, present or deleted
    configured,     \* the target the database names
    active,         \* the target in memory
    clients,        \* accounts with a provider object in memory
    load,           \* what each run of init has read
    preview,        \* the files of an account a confirmation token stands for
    deleting,       \* the account whose row a deletion has locked
    approved,       \* the files the deletion was confirmed for
    stage,          \* of each upload
    target,         \* of each upload
    lease,          \* of each upload: none, held, lapsed or released
    reference,      \* uploads with a live row that names their account
    files,          \* uploads with a row in files
    faults

dbVars == <<account, configured>>
memoryVars == <<active, clients, load>>
deleteVars == <<preview, deleting, approved>>
uploadVars == <<stage, target, lease, reference, files>>
vars == <<dbVars, memoryVars, deleteVars, uploadVars, faults>>

-----------------------------------------------------------------------------
Targets == Accounts \cup {Local}

Existing == {a \in Accounts : account[a] = "present"}
Present(t) == t \in Existing \cup {Local}
Unlocked(t) == deleting # t

(* Files whose row names the account.                                      *)
FilesOf(a) == {o \in files : target[o] = a}

Fault(wrong) ==
    /\ wrong => faults < MaxFaults
    /\ faults' = IF wrong THEN faults + 1 ELSE faults

-----------------------------------------------------------------------------
(* Targets.                                                                *)

(* add...Account                                                           *)
AddAccount(a) ==
    /\ account[a] = "none"
    /\ account' = [account EXCEPT ![a] = "present"]
    /\ clients' = clients \cup {a}
    /\ UNCHANGED <<configured, active, load, deleteVars, uploadVars, faults>>

(* switchAccount: a probe through the client, then the transaction, which  *)
(* waits for the row; the request goes on with init.                       *)
Switch(l, t) ==
    /\ load[l].at = "idle"
    /\ t \in clients \cup {Local}
    /\ Present(t) /\ Unlocked(t)
    /\ configured' = t
    /\ load' = [load EXCEPT ![l] = [@ EXCEPT !.at = "start"]]
    /\ UNCHANGED <<account, active, clients, deleteVars, uploadVars, faults>>

(* The bot starts and calls init on its own.                               *)
BotStart(l) ==
    /\ load[l].at = "idle"
    /\ load' = [load EXCEPT ![l] = [@ EXCEPT !.at = "start"]]
    /\ UNCHANGED <<dbVars, active, clients, deleteVars, uploadVars, faults>>

(* No run of init is under way.                                            *)
NotLoading == [at |-> "idle", found |-> Nobody, rows |-> {}]

(* init reads the accounts ...                                             *)
ReadAccounts(l) ==
    /\ load[l].at = "start"
    /\ load' = [load EXCEPT ![l] =
                  [at |-> "read", found |-> configured,
                   rows |-> Existing]]
    /\ UNCHANGED <<dbVars, active, clients, deleteVars, uploadVars, faults>>

(* init reads the setting and the accounts in two queries: when a switch   *)
(* commits in between they disagree, and init throws.                      *)
Disagree(l) ==
    /\ load[l].at = "start"
    /\ load' = [load EXCEPT ![l] = NotLoading]
    /\ UNCHANGED <<dbVars, active, clients, deleteVars, uploadVars, faults>>

(* Mutant of SetTarget: the target is set before it has been read.         *)
SetTargetUnread(l) ==
    /\ load[l].at \in {"start", "read"}
    /\ active' = load[l].found
    /\ clients' = clients \cup load[l].rows
    /\ load' = [load EXCEPT ![l] = NotLoading]
    /\ UNCHANGED <<dbVars, deleteVars, uploadVars, faults>>

(* ... and some queries later it sets what it found.                       *)
SetTarget(l) ==
    /\ load[l].at = "read"
    /\ active' = load[l].found
    /\ clients' = clients \cup load[l].rows
    /\ load' = [load EXCEPT ![l] = NotLoading]
    /\ UNCHANGED <<dbVars, deleteVars, uploadVars, faults>>

-----------------------------------------------------------------------------
(* Uploads.                                                                *)

(* The request names its target, or takes the active one.                  *)
Capture(o, t) ==
    /\ stage[o] = "idle"
    /\ t \in {active} \cup ((Existing \ {deleting}) \cap clients)
    /\ target' = [target EXCEPT ![o] = t]
    /\ stage' = [stage EXCEPT ![o] = "captured"]
    /\ UNCHANGED <<dbVars, memoryVars, deleteVars, lease, reference, files, faults>>

(* lockStorageTargetForUse and acquireStorageAccountLease in one           *)
(* transaction: the account of a named target cannot go before the lease.  *)
Admit(o, t) ==
    /\ stage[o] = "idle"
    /\ t \in Existing /\ Unlocked(t)
    /\ target' = [target EXCEPT ![o] = t]
    /\ lease' = [lease EXCEPT ![o] = "held"]
    /\ stage' = [stage EXCEPT ![o] = "admitting"]
    /\ UNCHANGED <<dbVars, memoryVars, deleteVars, reference, files, faults>>

(* Without a named target the active one is used, without a lease.         *)
AdmitActive(o) ==
    /\ stage[o] = "idle"
    /\ target' = [target EXCEPT ![o] = active]
    /\ stage' = [stage EXCEPT ![o] = "admitting"]
    /\ UNCHANGED <<dbVars, memoryVars, deleteVars, lease, reference, files, faults>>

(* The referring row is written; or it is refused, always when the account *)
(* is gone.                                                                *)
Refer(o, written) ==
    /\ stage[o] = "admitting"
    /\ Unlocked(target[o])
    /\ written => Present(target[o])
    /\ reference' = IF written THEN reference \cup {o} ELSE reference
    /\ stage' = [stage EXCEPT ![o] = "admitted"]
    /\ UNCHANGED <<dbVars, memoryVars, deleteVars, target, lease, files, faults>>

(* release, which keeps the result when the statement fails: nothing else  *)
(* ever marks the lease as released.  (An upload that goes on to a second  *)
(* lease is modelled as having one: the first, if it was not released,     *)
(* would only make a deletion wait longer.)                                *)
Release(o, answered) ==
    /\ lease' = [lease EXCEPT ![o] =
                   IF @ \in {"held", "lapsed"} /\ answered THEN "released" ELSE @]
    /\ Fault(lease[o] \in {"held", "lapsed"} /\ ~answered)

(* The admission ends.                                                     *)
EndAdmission(o, answered) ==
    /\ stage[o] = "admitted"
    /\ Release(o, answered)
    /\ stage' = [stage EXCEPT ![o] = IF o \in reference THEN "waiting" ELSE "done"]
    /\ UNCHANGED <<dbVars, memoryVars, deleteVars, target, reference, files>>

(* The user drops an upload nobody works on.                               *)
CancelWaiting(o) ==
    /\ stage[o] = "waiting"
    /\ reference' = reference \ {o}
    /\ stage' = [stage EXCEPT ![o] = "done"]
    /\ UNCHANGED <<dbVars, memoryVars, deleteVars, target, lease, files, faults>>

(* acquireStorageAccountOperationLease for the work: a lease row needs the *)
(* account, local storage needs no lease.                                  *)
Acquire(o) ==
    /\ stage[o] \in {"captured", "waiting"}
    /\ Unlocked(target[o])
    /\ IF Present(target[o])
       THEN /\ lease' = [lease EXCEPT ![o] = IF target[o] = Local THEN @ ELSE "held"]
            /\ stage' = [stage EXCEPT ![o] = "working"]
       ELSE /\ stage' = [stage EXCEPT ![o] = "done"]
            /\ UNCHANGED lease
    /\ UNCHANGED <<dbVars, memoryVars, deleteVars, target, reference, files, faults>>

(* The object is stored and its row written; or one of them fails.         *)
Store(o, stored) ==
    /\ stage[o] = "working"
    /\ files' = IF stored THEN files \cup {o} ELSE files
    /\ stage' = [stage EXCEPT ![o] = "ending"]
    /\ UNCHANGED <<dbVars, memoryVars, deleteVars, target, lease, reference, faults>>

(* The upload has reached a final state and the lease is released.         *)
Finish(o, answered) ==
    /\ stage[o] = "ending"
    /\ Release(o, answered)
    /\ reference' = reference \ {o}
    /\ stage' = [stage EXCEPT ![o] = "done"]
    /\ UNCHANGED <<dbVars, memoryVars, deleteVars, target, files>>

(* It has failed, and its row waits for another attempt.                   *)
PutBack(o, answered) ==
    /\ stage[o] = "ending"
    /\ o \in reference \ files
    /\ Release(o, answered)
    /\ stage' = [stage EXCEPT ![o] = "waiting"]
    /\ UNCHANGED <<dbVars, memoryVars, deleteVars, target, reference, files>>

(* A stored file is deleted; its row needs no lock on the account.         *)
DeleteFile(o) ==
    /\ o \in files
    /\ files' = files \ {o}
    /\ UNCHANGED <<dbVars, memoryVars, deleteVars, stage, target, lease, reference, faults>>

(* expires_at of a lease passes: the process is gone, its release failed,  *)
(* or the renewals of a working upload fail ...                            *)
Lapse(o) ==
    /\ lease[o] = "held"
    /\ lease' = [lease EXCEPT ![o] = "lapsed"]
    /\ Fault(stage[o] # "done")
    /\ UNCHANGED <<dbVars, memoryVars, deleteVars, stage, target, reference, files>>

(* ... and a later renewal extends it again.                               *)
Renew(o) ==
    /\ lease[o] = "lapsed"
    /\ stage[o] \in {"admitting", "admitted", "working", "ending"}
    /\ lease' = [lease EXCEPT ![o] = "held"]
    /\ UNCHANGED <<dbVars, memoryVars, deleteVars, stage, target, reference, files, faults>>

-----------------------------------------------------------------------------
(* Deleting an account.                                                    *)

NoPreview == [issued |-> FALSE, files |-> {}]

(* The route shows what the deletion would remove, and issues a token.     *)
Preview(a) ==
    /\ account[a] = "present" /\ configured # a
    /\ preview' = [preview EXCEPT ![a] = [issued |-> TRUE, files |-> FilesOf(a)]]
    /\ UNCHANGED <<dbVars, memoryVars, deleting, approved, uploadVars, faults>>

Unreleased(o) == lease[o] \in {"held", "lapsed"}

(* Mutant of Blocked: as the preview counts, only leases in time count.    *)
BlockedInTime(a) ==
    \/ configured = a
    \/ \E o \in Uploads : target[o] = a /\ (lease[o] = "held" \/ o \in reference)

(* Mutant of Blocked: the account may be the configured one.               *)
BlockedByUse(a) ==
    \E o \in Uploads : target[o] = a /\ (Unreleased(o) \/ o \in reference)

(* What deleteStorageAccountWithClient refuses for.                        *)
Blocked(a) ==
    \/ configured = a
    \/ \E o \in Uploads : target[o] = a /\ (Unreleased(o) \/ o \in reference)

(* Mutant of BeginDelete: the token is not compared with the files.        *)
BeginDeleteUnchecked(a) ==
    /\ deleting = Nobody
    /\ account[a] = "present"
    /\ preview[a].issued
    /\ ~Blocked(a)
    /\ deleting' = a
    /\ approved' = preview[a].files
    /\ preview' = [preview EXCEPT ![a] = NoPreview]
    /\ UNCHANGED <<dbVars, memoryVars, uploadVars, faults>>

(* The transaction locks the account's row, compares its files with the    *)
(* confirmation, which is used up, and looks for whoever needs it.         *)
BeginDelete(a) ==
    /\ deleting = Nobody
    /\ account[a] = "present"
    /\ preview[a].issued /\ preview[a].files = FilesOf(a)
    /\ preview' = [preview EXCEPT ![a] = NoPreview]
    /\ IF Blocked(a)
       THEN UNCHANGED <<deleting, approved>>
       ELSE deleting' = a /\ approved' = preview[a].files
    /\ UNCHANGED <<dbVars, memoryVars, uploadVars, faults>>

(* It commits unless the account is the active target; rows of files and   *)
(* leases go with the account, and then its client.                        *)
CommitDelete(a) ==
    /\ deleting = a
    /\ IF active = a
       THEN UNCHANGED <<account, clients, files, lease>>
       ELSE /\ account' = [account EXCEPT ![a] = "deleted"]
            /\ clients' = clients \ {a}
            /\ files' = files \ FilesOf(a)
            /\ lease' = [o \in Uploads |-> IF target[o] = a THEN "none" ELSE lease[o]]
    /\ deleting' = Nobody
    /\ approved' = {}
    /\ UNCHANGED <<configured, active, load, preview, stage, target, reference, faults>>

-----------------------------------------------------------------------------
(* The process dies and starts again: init runs before anything else.      *)
Restart ==
    /\ Fault(TRUE)
    /\ active' = configured
    /\ clients' = Existing
    /\ load' = [l \in Loads |-> NotLoading]
    /\ preview' = [a \in Accounts |-> NoPreview]
    /\ deleting' = Nobody
    /\ approved' = {}
    /\ stage' = [o \in Uploads |->
                   IF stage[o] = "idle" THEN "idle"
                   ELSE IF o \in reference THEN "waiting" ELSE "done"]
    /\ UNCHANGED <<dbVars, target, lease, reference, files>>

Init ==
    /\ account = [a \in Accounts |-> "none"]
    /\ configured = Local
    /\ active = Local
    /\ clients = {}
    /\ load = [l \in Loads |-> NotLoading]
    /\ preview = [a \in Accounts |-> NoPreview]
    /\ deleting = Nobody
    /\ approved = {}
    /\ stage = [o \in Uploads |-> "idle"]
    /\ target = [o \in Uploads |-> Local]
    /\ lease = [o \in Uploads |-> "none"]
    /\ reference = {}
    /\ files = {}
    /\ faults = 0

Choose ==
    \/ \E a \in Accounts : AddAccount(a)
    \/ \E l \in Loads :
          \/ \E t \in Targets : Switch(l, t)
          \/ BotStart(l)
          \/ ReadAccounts(l)
          \/ Disagree(l)
          \/ SetTarget(l)

Upload ==
    \E o \in Uploads :
        \/ \E t \in Targets : Capture(o, t) \/ Admit(o, t)
        \/ AdmitActive(o)
        \/ CancelWaiting(o)
        \/ Acquire(o)
        \/ \E ok \in BOOLEAN :
              \/ Refer(o, ok) \/ EndAdmission(o, ok)
              \/ Store(o, ok) \/ Finish(o, ok) \/ PutBack(o, ok)
        \/ DeleteFile(o)
        \/ Lapse(o)
        \/ Renew(o)

Delete ==
    \E a \in Accounts : Preview(a) \/ BeginDelete(a) \/ CommitDelete(a)

Next == Choose \/ Upload \/ Delete \/ Restart

Spec == Init /\ [][Next]_vars

-----------------------------------------------------------------------------
(* Properties.                                                             *)

Stages == {"idle", "captured", "admitting", "admitted", "waiting", "working",
           "ending", "done"}

(* The variables hold what their comments say.                             *)
TypeOK ==
    /\ account \in [Accounts -> {"none", "present", "deleted"}]
    /\ configured \in Targets /\ active \in Targets
    /\ clients \subseteq Accounts
    /\ load \in [Loads -> [at : {"idle", "start", "read"},
                           found : Targets \cup {Nobody}, rows : SUBSET Accounts]]
    /\ preview \in [Accounts -> [issued : BOOLEAN, files : SUBSET Uploads]]
    /\ deleting \in Accounts \cup {Nobody}
    /\ approved \in SUBSET Uploads
    /\ stage \in [Uploads -> Stages]
    /\ target \in [Uploads -> Targets]
    /\ lease \in [Uploads -> {"none", "held", "lapsed", "released"}]
    /\ reference \in SUBSET Uploads
    /\ files \in SUBSET Uploads
    /\ faults \in 0..MaxFaults

(* An account that an upload works on, or that a live row refers to, is    *)
(* not deleted under it, however the target was chosen, its lease fails to *)
(* be renewed, or the process restarts in between.                         *)
NeededAccountStays ==
    \A o \in Uploads :
        stage[o] \in {"working", "ending"} \/ o \in reference => Present(target[o])

(* The database never names a deleted account as the target.               *)
ConfiguredTargetExists == Present(configured)

(* Deleting an account removes no file row its user has not been shown:    *)
(* none is added between the comparison and the end of the transaction.    *)
DeletedAsConfirmed ==
    [][\A a \in Accounts : account[a] = "present" /\ account'[a] = "deleted"
          => FilesOf(a) \subseteq approved]_vars

(* "The account that is in use cannot be deleted" (                        *)
(* storageAccountLifecycle.ts): the target new uploads get is no deleted   *)
(* account.                                                                *)
ActiveTargetExists == Present(active)
=============================================================================

-------------------------- MODULE ChannelDownloads --------------------------
(***************************************************************************)
(* The download items of a channel job: telegramChannelJobs.ts, the part   *)
(* of telegramUpload.ts that runs one item, rollingDownloadWindow.ts and   *)
(* telegramWriteReconciliation.ts.                                         *)
(*                                                                         *)
(* A run of the job claims pending items under leases, downloads them in a *)
(* rolling window and stores each one: a row of the write journal first,   *)
(* then the object, the row in files, and last one transaction that        *)
(* settles the item and resolves the journal row.  A write that cannot be  *)
(* settled is undone by its worker or, after a crash, by a recovery pass.  *)
(* Meanwhile the user pauses, resumes, cancels and retries, and a spent    *)
(* upload quota puts the job into a cooldown.  A token is an item and the  *)
(* number of its lease; every object has a name of its own, so the token   *)
(* also names the object and the row in files of the write made under it.  *)
(***************************************************************************)
EXTENDS Naturals, FiniteSets

CONSTANTS
    Items,
    Window,         \* items downloaded at once
    Prepares,       \* can a provider name the object before it is stored?
    Faults,         \* the kinds of fault that may happen
    Last,           \* bound: of these, the ones no other trouble follows
    MaxFaults,      \* bound: faults
    MaxControls,    \* bound: controls the user gives
    MaxTroubles,    \* bound: faults and controls together
    MaxClaims       \* bound: leases given for an item

ASSUME ChannelAssumption ==
    /\ IsFiniteSet(Items)
    /\ Window \in Nat \ {0}
    /\ Prepares \subseteq BOOLEAN
    /\ Faults \subseteq {"download", "store", "quota", "statement", "crash"}
    /\ Last \subseteq Faults
    /\ MaxFaults \in Nat /\ MaxControls \in Nat
    /\ MaxTroubles \in Nat /\ MaxClaims \in Nat

VARIABLES
    job,            \* its status; the final ones have finished_at set
    cooling,        \* cooldown_until lies ahead
    quota,          \* the cooldown of the account lies ahead
    item,           \* of each item: status, token of its lease, lapsed
    given,          \* of each item: leases given so far
    journal,        \* of each item: its latest write operation
    objects,        \* tokens whose object is in the storage
    files,          \* tokens whose row is in files
    phase,          \* of the run of the job in this process
    verdict,        \* what the run has read and will write
    exhausted,      \* the window has found nothing more to load
    aborted,        \* the abort signal of the run
    failure,        \* the first failure in the window
    stage,          \* of each token the run holds: where its worker is
    gone,           \* of each token: what its worker has surely removed
    stopping,       \* a cancellation has not reached the run yet
    pass,           \* the recovery pass
    claim,          \* of each item: the journal row the pass works on
    faults,
    controls

jobVars == <<job, cooling, quota>>
itemVars == <<item, given>>
storeVars == <<objects, files>>
loopVars == <<phase, verdict, exhausted, aborted, failure>>
workVars == <<stage, gone>>
passVars == <<pass, claim>>
bounds == <<faults, controls>>
vars == <<jobVars, itemVars, journal, storeVars, loopVars, workVars,
          stopping, passVars, bounds>>

-----------------------------------------------------------------------------
Tokens == Items \X (1..MaxClaims)
Unset == 0

Finished(status) ==
    status \in {"completed", "completed_with_errors", "failed", "cancelled"}

Fault(kind) ==
    /\ kind \in Faults /\ faults < MaxFaults /\ faults + controls < MaxTroubles
    /\ IF kind \in Last
       THEN faults' = MaxFaults /\ controls' = MaxControls
       ELSE faults' = faults + 1 /\ UNCHANGED controls

(* A step that fails for a reason of its own, or because of a fault.       *)
OrFault(reason, kind) == (reason /\ UNCHANGED bounds) \/ Fault(kind)

Control ==
    /\ controls < MaxControls /\ faults + controls < MaxTroubles
    /\ controls' = controls + 1
    /\ UNCHANGED faults

(* ensureJobCanRun.  When the account is in a cooldown the check itself    *)
(* puts the job into it first: see ApplyCooldown.                          *)
JobState ==
    CASE job = "cancelled" -> "cancelled"
      [] job = "paused" -> "paused"
      [] cooling -> "cooldown"
      [] OTHER -> IF quota THEN "unknown" ELSE "run"

Unfinished(i) == item[i].status \in {"pending", "downloading"}

(* The lease of a token is still the item's.                               *)
Owns(t) ==
    item[t[1]].status = "downloading" /\ item[t[1]].token = t[2]

(* A journal row that is not resolved; one for the operator is pending.    *)
Unresolved(i) == journal[i].state \in {"pending", "operator"}

Operation(t) == journal[t[1]].op = t[2] /\ Unresolved(t[1])

Leased(status, token) == [status |-> status, token |-> token, lapsed |-> FALSE]

To(t, s) == stage' = [stage EXCEPT ![t] = s]
First(kind) == IF failure = "none" THEN kind ELSE failure

Working ==
    {t \in Tokens : stage[t] \notin {"none", "claimed", "left"}}
Refs == {t \in Tokens : stage[t] # "none"}
NoRefs == [t \in Tokens |-> "none"]

-----------------------------------------------------------------------------
(* The loop of a run: downloadPendingForJob and finalizeTelegramJob.       *)

Claimable ==
    {i \in Items : /\ job = "running" /\ ~cooling
                   /\ item[i].status = "pending"
                   /\ ~Unresolved(i)
                   /\ given[i] < MaxClaims}

(* claimPendingDownloadRefs: one statement, at most n items.               *)
Claim(n, as) ==
    \E S \in SUBSET Claimable :
        /\ S # {} /\ Cardinality(S) <= n
        /\ Cardinality(S) < n => S = Claimable
        /\ given' = [i \in Items |-> given[i] + IF i \in S THEN 1 ELSE 0]
        /\ item' = [i \in Items |->
               IF i \in S THEN Leased("downloading", given'[i]) ELSE item[i]]
        /\ stage' = [t \in Tokens |->
               IF t[1] \in S /\ t[2] = given'[t[1]] THEN as ELSE stage[t]]

(* waitUntilRunnable                                                       *)
Await ==
    /\ phase = "wait"
    /\ \/ JobState = "run" /\ phase' = "go"
       \/ JobState = "cancelled" /\ phase' = "tally"
    /\ UNCHANGED <<jobVars, itemVars, journal, storeVars, verdict, exhausted,
                   aborted, failure, workVars, stopping, passVars, bounds>>

ClaimBatch ==
    /\ phase = "go"
    /\ \/ Claim(Window, "claimed") /\ phase' = "claimed"
       \/ Claimable = {} /\ phase' = "tally" /\ UNCHANGED <<itemVars, stage>>
    /\ UNCHANGED <<jobVars, journal, storeVars, verdict, exhausted, aborted,
                   failure, gone, stopping, passVars, bounds>>

(* downloadClaimedRefs checks the job once more, in the same statement     *)
(* that sets it running.                                                   *)
OpenWindow ==
    /\ phase = "claimed" /\ JobState = "run" /\ job = "running"
    /\ phase' = "active"
    /\ exhausted' = FALSE /\ aborted' = FALSE /\ failure' = "none"
    /\ UNCHANGED <<jobVars, itemVars, journal, storeVars, verdict, workVars,
                   stopping, passVars, bounds>>

(* Mutant of GivesBack: a pause is taken for a cancellation.               *)
GivesBackSkipped ==
    IF JobState \in {"cancelled", "paused"} THEN "skipped" ELSE "pending"

(* The job must not run: what is left of the claim goes back, as the state *)
(* just read says.                                                         *)
GivesBack == IF JobState = "cancelled" THEN "skipped" ELSE "pending"

RefuseWindow ==
    /\ phase = "claimed" /\ JobState # "unknown"
    /\ JobState # "run" \/ job = "cooling"
    /\ phase' = "restore" /\ verdict' = GivesBack
    /\ UNCHANGED <<jobVars, itemVars, journal, storeVars, exhausted, aborted,
                   failure, workVars, stopping, passVars, bounds>>

Restore ==
    /\ phase = "restore"
    /\ item' = [i \in Items |->
           IF \E t \in Refs : t[1] = i /\ Owns(t)
           THEN Leased(verdict, Unset) ELSE item[i]]
    /\ stage' = NoRefs
    /\ phase' = "wait" /\ verdict' = "none"
    /\ UNCHANGED <<jobVars, given, journal, storeVars, exhausted, aborted,
                   failure, gone, stopping, passVars, bounds>>

(* runRollingDownloadWindow loads items while there is room ...            *)
Load ==
    /\ phase = "active" /\ failure = "none" /\ ~exhausted
    /\ Cardinality(Working) < Window
    /\ \/ /\ OrFault(aborted, "statement")
          /\ failure' = "error"
          /\ UNCHANGED <<itemVars, exhausted, stage>>
       \/ /\ ~aborted /\ JobState = "run"
          /\ \E t \in Refs : stage[t] = "claimed"
          /\ stage' = [t \in Tokens |->
                 IF stage[t] = "claimed" THEN "ready" ELSE stage[t]]
          /\ UNCHANGED <<itemVars, exhausted, failure, bounds>>
       \/ /\ ~aborted /\ JobState = "run"
          /\ \A t \in Refs : stage[t] # "claimed"
          /\ Claim(Window - Cardinality(Working), "ready")
          /\ UNCHANGED <<exhausted, failure, bounds>>
       \/ /\ ~aborted
          /\ \/ JobState \in {"cancelled", "paused", "cooldown"}
             \/ /\ JobState = "run" /\ Claimable = {}
                /\ \A t \in Refs : stage[t] # "claimed"
          /\ exhausted' = TRUE
          /\ UNCHANGED <<itemVars, failure, stage, bounds>>
    /\ UNCHANGED <<jobVars, journal, storeVars, phase, verdict, aborted, gone,
                   stopping, passVars>>

(* ... and ends when its workers have, after a failure or with nothing     *)
(* left to load.                                                           *)
WindowEnds ==
    /\ phase = "active" /\ Working = {}
    /\ failure # "none" \/ exhausted

CloseWindow ==
    /\ WindowEnds /\ failure = "none"
    /\ \/ /\ JobState = "run"
          /\ phase' = "wait" /\ stage' = NoRefs
          /\ UNCHANGED verdict
       \/ /\ JobState \in {"cancelled", "paused", "cooldown"}
          /\ phase' = "restore" /\ verdict' = GivesBack
          /\ UNCHANGED stage
    /\ UNCHANGED <<jobVars, itemVars, journal, storeVars, exhausted, aborted,
                   failure, gone, stopping, passVars, bounds>>

(* runChannelJob: an error of the run fails the job.                       *)
FailJob ==
    job' = IF job \in {"paused", "cooling", "completed", "cancelled"}
           THEN job ELSE "failed"

LeaseLost ==
    /\ WindowEnds /\ failure = "lease"
    /\ FailJob
    /\ phase' = "off" /\ stage' = NoRefs
    /\ UNCHANGED <<cooling, quota, itemVars, journal, storeVars, verdict,
                   exhausted, aborted, failure, gone, stopping, passVars,
                   bounds>>

(* putJobIntoStorageCooldown: the job, unless it is finished, and its      *)
(* downloading items, whose leases stay on the row.  No failed item of the *)
(* model failed for the quota, so the second half of its condition is      *)
(* never met.                                                              *)
CoolDown ==
    /\ job' = IF Finished(job) \/ job = "paused" THEN job ELSE "cooling"
    /\ cooling' = (cooling \/ ~Finished(job))
    /\ item' = [i \in Items |->
           IF item[i].status = "downloading"
           THEN [item[i] EXCEPT !.status = "pending"] ELSE item[i]]

QuotaEnds ==
    /\ WindowEnds /\ failure = "quota"
    /\ CoolDown
    /\ phase' = "wait" /\ stage' = NoRefs
    /\ UNCHANGED <<quota, given, journal, storeVars, verdict, exhausted,
                   aborted, failure, gone, stopping, passVars, bounds>>

(* applyStorageCooldownIfNeeded, within a check of the run.                *)
ApplyCooldown ==
    /\ phase \in {"wait", "claimed", "active"} /\ JobState = "unknown"
    /\ CoolDown
    /\ UNCHANGED <<quota, given, journal, storeVars, loopVars, workVars,
                   stopping, passVars, bounds>>

(* Any other error: each item left is marked failed, one after another, as *)
(* long as the statements succeed; then the job fails.                     *)
MarkFailed(t) ==
    /\ WindowEnds /\ failure = "error" /\ stage[t] # "none"
    /\ \/ /\ UNCHANGED bounds
          /\ To(t, "none")
          /\ item' = IF Owns(t)
                     THEN [item EXCEPT ![t[1]] = Leased("failed", Unset)]
                     ELSE item
          /\ UNCHANGED <<job, phase>>
       \/ /\ Fault("statement")
          /\ FailJob
          /\ stage' = NoRefs /\ phase' = "off"
          /\ UNCHANGED item
    /\ UNCHANGED <<cooling, quota, given, journal, storeVars, verdict,
                   exhausted, aborted, failure, gone, stopping, passVars>>

RunFails ==
    /\ WindowEnds /\ failure = "error" /\ Refs = {}
    /\ FailJob
    /\ phase' = "off"
    /\ UNCHANGED <<cooling, quota, itemVars, journal, storeVars, verdict,
                   exhausted, aborted, failure, workVars, stopping, passVars,
                   bounds>>

(* Mutant of Remaining: items being downloaded are not counted.            *)
PendingRemain == \E i \in Items : item[i].status = "pending"

Remaining == \E i \in Items : Unfinished(i)

(* finalizeTelegramJob reads the job and the statistics of its items ...   *)
Tally ==
    /\ phase = "tally"
    /\ IF job \in {"cancelled", "paused"}
       THEN phase' = "off" /\ verdict' = "none"
       ELSE /\ phase' = "finish"
            /\ verdict' = IF Remaining THEN "running"
                          ELSE IF \E i \in Items : item[i].status = "failed"
                          THEN "completed_with_errors" ELSE "completed"
    /\ UNCHANGED <<jobVars, itemVars, journal, storeVars, exhausted, aborted,
                   failure, workVars, stopping, passVars, bounds>>

(* ... and writes what it has found; a job in a cooldown is not excepted.  *)
Finalize ==
    /\ phase = "finish"
    /\ job' = IF job \in {"cancelled", "paused"} THEN job ELSE verdict
    /\ phase' = "off" /\ verdict' = "none"
    /\ UNCHANGED <<cooling, quota, itemVars, journal, storeVars, exhausted,
                   aborted, failure, workVars, stopping, passVars, bounds>>

-----------------------------------------------------------------------------
(* One item in the window.                                                 *)

(* The job is checked before the file is queued, and read again after it   *)
(* was downloaded, before anything is stored.                              *)
StartItem(t) ==
    /\ phase = "active" /\ stage[t] = "ready"
    /\ \/ JobState = "run" /\ To(t, "download")
       \/ JobState = "cancelled" /\ To(t, "skip")
       \/ JobState \in {"paused", "cooldown"} /\ To(t, "left")
    /\ UNCHANGED <<jobVars, itemVars, journal, storeVars, loopVars, gone,
                   stopping, passVars, bounds>>

Stopped == aborted \/ job = "cancelled"

(* waitForChannelExecutionPermission lets an active worker pass a pause of *)
(* the user, and holds it through a cooldown.                              *)
Permitted == ~aborted /\ JobState \in {"run", "paused"}

Download(t) ==
    /\ phase = "active" /\ stage[t] = "download"
    /\ \/ Permitted /\ To(t, "permitted") /\ UNCHANGED bounds
       \/ To(t, "duplicate") /\ UNCHANGED bounds
       \/ OrFault(Stopped, "download") /\ To(t, "fail")
    /\ UNCHANGED <<jobVars, itemVars, journal, storeVars, loopVars, gone,
                   stopping, passVars>>

(* beginTelegramWriteReconciliation: the lease must hold, and the index    *)
(* allows one pending row for an item.                                     *)
Begin(t) ==
    /\ phase = "active" /\ stage[t] = "permitted"
    /\ \/ /\ Owns(t) /\ ~Unresolved(t[1])
          /\ \E known \in Prepares :
               journal' = [journal EXCEPT ![t[1]] =
                   [state |-> "pending", op |-> t[2], object |-> "unknown",
                    index |-> "unknown", path |-> known, file |-> FALSE,
                    leased |-> FALSE]]
          /\ To(t, "begun")
          /\ UNCHANGED bounds
       \/ /\ OrFault(~Owns(t) \/ Unresolved(t[1]), "statement")
          /\ To(t, "fail")
          /\ UNCHANGED journal
    /\ UNCHANGED <<jobVars, itemVars, storeVars, loopVars, gone, stopping,
                   passVars>>

Removed(t, what) == gone' = [gone EXCEPT ![t] = what]

(* The provider stores the object, or fails, and may have stored it then.  *)
(* A refusal for the quota stores nothing.                                 *)
Save(t) ==
    /\ phase = "active" /\ stage[t] = "begun"
    /\ \/ /\ objects' = objects \cup {t}
          /\ To(t, "saved")
          /\ UNCHANGED <<gone, bounds>>
       \/ /\ OrFault(aborted, "store")
          /\ objects' \in {objects, objects \cup {t}}
          /\ To(t, "note") /\ Removed(t, {"index"})
       \/ /\ Fault("quota")
          /\ To(t, "refused") /\ Removed(t, {"index"})
          /\ UNCHANGED objects
    /\ UNCHANGED <<jobVars, itemVars, journal, files, loopVars, stopping,
                   passVars>>

(* markTelegramWriteObjectPresent                                          *)
MarkObject(t) ==
    /\ phase = "active" /\ stage[t] = "saved"
    /\ \/ /\ Operation(t)
          /\ journal' = [journal EXCEPT ![t[1]] =
                [@ EXCEPT !.object = "present", !.path = TRUE]]
          /\ To(t, "marked")
          /\ UNCHANGED <<gone, bounds>>
       \/ /\ OrFault(~Operation(t), "statement")
          /\ To(t, "undo") /\ Removed(t, {"index"})
          /\ UNCHANGED journal
    /\ UNCHANGED <<jobVars, itemVars, storeVars, loopVars, stopping, passVars>>

InsertRow(t) ==
    /\ phase = "active" /\ stage[t] = "marked"
    /\ \/ /\ files' = files \cup {t}
          /\ To(t, "indexed")
          /\ UNCHANGED <<gone, bounds>>
       \/ /\ Fault("statement")
          /\ To(t, "undo") /\ Removed(t, {"index"})
          /\ UNCHANGED files
    /\ UNCHANGED <<jobVars, itemVars, journal, objects, loopVars, stopping,
                   passVars>>

(* markTelegramWriteIndexPresent                                           *)
MarkIndex(t) ==
    /\ phase = "active" /\ stage[t] = "indexed"
    /\ \/ /\ Operation(t)
          /\ journal' = [journal EXCEPT ![t[1]] =
                [@ EXCEPT !.index = "present", !.file = TRUE]]
          /\ To(t, "written")
          /\ UNCHANGED <<gone, bounds>>
       \/ /\ OrFault(~Operation(t), "statement")
          /\ To(t, "undo") /\ Removed(t, {})
          /\ UNCHANGED journal
    /\ UNCHANGED <<jobVars, itemVars, storeVars, loopVars, stopping, passVars>>

(* validateBeforeSettlement                                                *)
Validate(t) ==
    /\ phase = "active" /\ stage[t] = "written"
    /\ \/ Permitted /\ To(t, "valid")
       \/ Stopped /\ To(t, "drop")
    /\ UNCHANGED <<jobVars, itemVars, journal, storeVars, loopVars, gone,
                   stopping, passVars, bounds>>

Resolve(i, state) ==
    journal' = [journal EXCEPT ![i] =
                  [@ EXCEPT !.state = state, !.leased = FALSE]]

(* Mutant of Settles: the lease of the item is not compared.               *)
SettlesUnowned(t) ==
    /\ Operation(t) /\ ~aborted
    /\ journal[t[1]].object = "present" /\ journal[t[1]].index = "present"

(* withTelegramDownloadRefLease: one transaction locks the item, settles   *)
(* it and resolves the journal row.  It does not look at the time the      *)
(* lease ends, nor at the lease of the journal row.                        *)
Settles(t) ==
    /\ Owns(t) /\ Operation(t) /\ ~aborted
    /\ journal[t[1]].object = "present" /\ journal[t[1]].index = "present"

Commit(t) ==
    /\ phase = "active" /\ stage[t] = "valid"
    /\ \/ /\ Settles(t)
          /\ item' = [item EXCEPT ![t[1]] = Leased("success", Unset)]
          /\ Resolve(t[1], "committed")
          /\ To(t, "none")
          /\ UNCHANGED bounds
       \/ /\ OrFault(~Settles(t), "statement")
          /\ To(t, "drop")
          /\ UNCHANGED <<item, journal>>
    /\ UNCHANGED <<jobVars, given, storeVars, loopVars, gone, stopping,
                   passVars>>

(* After an error within the save: delete what is known to have been       *)
(* stored; what could not be deleted stays unknown.                        *)
Undo(t) ==
    /\ phase = "active" /\ stage[t] = "undo"
    /\ \/ objects' = objects \ {t} /\ Removed(t, gone[t] \cup {"object"})
          /\ UNCHANGED bounds
       \/ Fault("store") /\ objects' \in {objects, objects \ {t}}
          /\ UNCHANGED gone
    /\ To(t, IF "index" \in gone[t] THEN "note" ELSE "unrow")
    /\ UNCHANGED <<jobVars, itemVars, journal, files, loopVars, stopping,
                   passVars>>

UndoRow(t) ==
    /\ phase = "active" /\ stage[t] = "unrow"
    /\ \/ /\ t \in files
          /\ files' = files \ {t} /\ Removed(t, gone[t] \cup {"index"})
          /\ UNCHANGED bounds
       \/ OrFault(t \notin files, "statement") /\ UNCHANGED <<files, gone>>
    /\ To(t, "note")
    /\ UNCHANGED <<jobVars, itemVars, journal, objects, loopVars, stopping,
                   passVars>>

(* After the save: compensateIndexedWriteAfterCancel removes both, or it   *)
(* says of neither that it is removed.                                     *)
Drop(t) ==
    /\ phase = "active" /\ stage[t] = "drop"
    /\ \/ /\ objects' = objects \ {t} /\ To(t, "unindex")
          /\ UNCHANGED <<gone, bounds>>
       \/ /\ Fault("store") /\ objects' \in {objects, objects \ {t}}
          /\ To(t, "note") /\ Removed(t, {})
    /\ UNCHANGED <<jobVars, itemVars, journal, files, loopVars, stopping,
                   passVars>>

DropRow(t) ==
    /\ phase = "active" /\ stage[t] = "unindex"
    /\ \/ /\ t \in files
          /\ files' = files \ {t} /\ Removed(t, {"object", "index"})
          /\ UNCHANGED bounds
       \/ OrFault(t \notin files, "statement") /\ UNCHANGED files
          /\ Removed(t, {})
    /\ To(t, "note")
    /\ UNCHANGED <<jobVars, itemVars, journal, objects, loopVars, stopping,
                   passVars>>

(* updateTelegramWriteAfterCompensation.  Its own failure is only logged,  *)
(* or turned into another error of the item.                               *)
Evidence(part, confirmed) ==
    IF part \in confirmed THEN "deleted" ELSE "unknown"

(* Mutant of Compensated: the object alone decides.                        *)
CompensatedByObject(i, confirmed) ==
    journal' = [journal EXCEPT ![i] =
        [@ EXCEPT !.object = Evidence("object", confirmed),
                  !.index = Evidence("index", confirmed),
                  !.state = IF "object" \in confirmed
                            THEN "undone" ELSE journal[i].state,
                  !.leased = FALSE]]

Compensated(i, confirmed) ==
    journal' = [journal EXCEPT ![i] =
        [@ EXCEPT !.object = Evidence("object", confirmed),
                  !.index = Evidence("index", confirmed),
                  !.state = IF confirmed = {"object", "index"}
                            THEN "undone" ELSE journal[i].state,
                  !.leased = FALSE]]

(* An error of the quota marks the account and ends the window; any other  *)
(* is an ordinary failure of the item.  (A lost lease shows again when the *)
(* failure is settled.)                                                    *)
Note(t) ==
    /\ phase = "active" /\ stage[t] \in {"note", "refused"}
    /\ \/ Operation(t) /\ Compensated(t[1], gone[t]) /\ UNCHANGED bounds
       \/ OrFault(~Operation(t), "statement") /\ UNCHANGED journal
    /\ Removed(t, {})
    /\ IF stage[t] = "refused"
       THEN To(t, "left") /\ quota' = TRUE /\ failure' = First("quota")
       ELSE To(t, "fail") /\ UNCHANGED <<quota, failure>>
    /\ UNCHANGED <<job, cooling, itemVars, storeVars, phase, verdict,
                   exhausted, aborted, stopping, passVars>>

(* settleTelegramDownloadRefWithQuery for a file that was not settled with *)
(* its lease.  A failed item is settled again from the catch block.        *)
Outcome(s) ==
    CASE s = "skip" -> "skipped" [] s = "duplicate" -> "success"
      [] OTHER -> "failed"

Matches(t) ==
    /\ item[t[1]].token = t[2]
    /\ item[t[1]].status \in {"downloading", "success", "failed", "skipped"}

Settle(t) ==
    /\ phase = "active"
    /\ stage[t] \in {"skip", "duplicate", "fail", "again"}
    /\ \/ /\ Matches(t)
          /\ item' = IF Owns(t) THEN [item EXCEPT ![t[1]] =
                                        Leased(Outcome(stage[t]), Unset)]
                     ELSE item
          /\ To(t, "none")
          /\ UNCHANGED <<failure, bounds>>
       \/ /\ ~Matches(t)
          /\ To(t, "left") /\ failure' = First("lease")
          /\ UNCHANGED <<item, bounds>>
       \/ /\ Fault("statement")
          /\ IF stage[t] \in {"duplicate", "fail"}
             THEN To(t, "again") /\ UNCHANGED failure
             ELSE To(t, "left") /\ failure' = First("error")
          /\ UNCHANGED item
    /\ UNCHANGED <<jobVars, given, journal, storeVars, phase, verdict,
                   exhausted, aborted, gone, stopping, passVars>>

(* The heartbeat renews the leases of the refs; when it fails, or finds    *)
(* that one is lost, it aborts the run.                                    *)
Heartbeat ==
    /\ phase = "active"
    /\ \/ /\ item' = [i \in Items |->
                 IF \E t \in Refs : t[1] = i /\ Owns(t)
                 THEN [item[i] EXCEPT !.lapsed = FALSE] ELSE item[i]]
          /\ item' # item
          /\ UNCHANGED <<aborted, bounds>>
       \/ /\ OrFault(\E t \in Refs : ~Owns(t) /\ Unfinished(t[1]), "statement")
          /\ ~aborted /\ aborted' = TRUE
          /\ UNCHANGED item
    /\ UNCHANGED <<jobVars, given, journal, storeVars, phase, verdict,
                   exhausted, failure, workVars, stopping, passVars>>

(* Ten minutes without a heartbeat.  A run that holds a lease renews it    *)
(* every two minutes, and is taken to do so in time.                       *)
Beating(i) ==
    phase \notin {"off", "wait", "go", "tally", "finish"}
        /\ \E t \in Refs : t[1] = i /\ Owns(t)

LeaseLapses(i) ==
    /\ item[i].status = "downloading" /\ ~item[i].lapsed /\ ~Beating(i)
    /\ item' = [item EXCEPT ![i].lapsed = TRUE]
    /\ UNCHANGED <<jobVars, given, journal, storeVars, loopVars, workVars,
                   stopping, passVars, bounds>>

-----------------------------------------------------------------------------
(* recoverInterruptedTelegramJobs: one pass at a time, one statement after *)
(* another.                                                                *)

Idle == [at |-> "idle", object |-> "unknown", index |-> "unknown",
         path |-> FALSE, file |-> FALSE, op |-> Unset, success |-> FALSE]

(* Mutants of InProgress: the lease of the item is not looked at; the time *)
(* it ends is not looked at.                                               *)
NeverInProgress(i) == FALSE

InProgressForEver(i) ==
    item[i].status = "downloading" /\ item[i].token = journal[i].op

(* claimTelegramWriteReconciliations leaves a write alone whose item is    *)
(* still being downloaded under the lease the write was begun with.        *)
InProgress(i) ==
    /\ item[i].status = "downloading" /\ item[i].token = journal[i].op
    /\ ~item[i].lapsed

ClaimWrites ==
    LET S == {i \in Items : /\ journal[i].state = "pending"
                            /\ ~journal[i].leased /\ ~InProgress(i)}
    IN /\ pass = "off"
       /\ pass' = "resolve"
       /\ claim' = [i \in Items |->
              IF i \in S
              THEN [at |-> "claimed", object |-> journal[i].object,
                    index |-> journal[i].index, path |-> journal[i].path,
                    file |-> journal[i].file, op |-> journal[i].op,
                    success |-> item[i].status = "success"]
              ELSE Idle]
       /\ journal' = [i \in Items |->
              IF i \in S THEN [journal[i] EXCEPT !.leased = TRUE]
              ELSE journal[i]]
       /\ UNCHANGED <<jobVars, itemVars, storeVars, loopVars, workVars,
                      stopping, bounds>>

(* The row is still pending and leased to this pass.                       *)
Mine(i) ==
    Unresolved(i) /\ journal[i].op = claim[i].op /\ journal[i].leased

Go(i, s) == claim' = [claim EXCEPT ![i] = [@ EXCEPT !.at = s]]
Leave(i) == claim' = [claim EXCEPT ![i] = Idle]

(* resolveClaimedTelegramWrite decides by the row it has read.             *)
Decide(i) ==
    LET c == claim[i]
        committed == c.success /\ c.file
                     /\ c.object = "present" /\ c.index = "present"
        blind == c.object = "unknown" /\ ~c.path
    IN /\ c.at = "claimed"
       /\ \/ /\ committed /\ Leave(i)
             /\ IF Mine(i) THEN Resolve(i, "committed")
                ELSE UNCHANGED journal
          \/ /\ ~committed /\ blind /\ Leave(i)
             /\ IF Mine(i) THEN Resolve(i, "operator")
                ELSE UNCHANGED journal
          \/ /\ ~committed /\ ~blind
             /\ IF Mine(i) THEN Go(i, "object") ELSE Leave(i)
             /\ UNCHANGED journal
       /\ UNCHANGED <<jobVars, itemVars, storeVars, loopVars, workVars,
                      stopping, pass, bounds>>

Found(i, part, state) ==
    claim' = [claim EXCEPT ![i] =
        IF part = "object"
        THEN [@ EXCEPT !.object = state, !.at = "check"]
        ELSE [@ EXCEPT !.index = state, !.at = "close"]]

DeleteObject(i) ==
    LET t == <<i, claim[i].op>>
        needed == claim[i].path /\ claim[i].object # "deleted"
    IN /\ claim[i].at = "object"
       /\ \/ /\ ~needed /\ Go(i, "check")
             /\ UNCHANGED <<objects, bounds>>
          \/ /\ needed /\ objects' = objects \ {t}
             /\ Found(i, "object", "deleted")
             /\ UNCHANGED bounds
          \/ /\ needed /\ Fault("store")
             /\ objects' \in {objects, objects \ {t}}
             /\ Found(i, "object", "unknown")
       /\ UNCHANGED <<jobVars, itemVars, journal, files, loopVars, workVars,
                      stopping, pass>>

StillMine(i) ==
    /\ claim[i].at = "check"
    /\ IF Mine(i) THEN Go(i, "row") ELSE Leave(i)
    /\ UNCHANGED <<jobVars, itemVars, journal, storeVars, loopVars, workVars,
                   stopping, pass, bounds>>

(* A row whose id was not recorded cannot be removed.                      *)
DeleteRow(i) ==
    LET needed == claim[i].file /\ claim[i].index # "deleted"
    IN /\ claim[i].at = "row"
       /\ \/ ~needed /\ Go(i, "close") /\ UNCHANGED <<files, bounds>>
          \/ /\ needed /\ files' = files \ {<<i, claim[i].op>>}
             /\ Found(i, "index", "deleted")
             /\ UNCHANGED bounds
          \/ /\ needed /\ Fault("statement") /\ Found(i, "index", "unknown")
             /\ UNCHANGED files
       /\ UNCHANGED <<jobVars, itemVars, journal, objects, loopVars, workVars,
                      stopping, pass>>

CloseWrite(i) ==
    /\ claim[i].at = "close"
    /\ Leave(i)
    /\ IF Mine(i)
       THEN Compensated(i, (IF claim[i].object = "deleted" THEN {"object"}
                            ELSE {})
                           \cup (IF claim[i].index = "deleted" THEN {"index"}
                                 ELSE {}))
       ELSE UNCHANGED journal
    /\ UNCHANGED <<jobVars, itemVars, storeVars, loopVars, workVars, stopping,
                   pass, bounds>>

WritesDone ==
    /\ pass = "resolve" /\ \A i \in Items : claim[i].at = "idle"
    /\ pass' = "repair"
    /\ UNCHANGED <<jobVars, itemVars, journal, storeVars, loopVars, workVars,
                   stopping, claim, bounds>>

(* repairTelegramJobInvariants: a final job with pending items runs again, *)
(* and items of it whose lock is thirty minutes old are pending again.     *)
Inconsistent ==
    /\ job \in {"completed", "completed_with_errors", "failed"}
    /\ \E i \in Items : item[i].status = "pending"

Repair ==
    /\ pass = "repair" /\ pass' = "uncool"
    /\ IF Inconsistent
       THEN /\ job' = "running"
            /\ \E old \in SUBSET {i \in Items :
                             /\ item[i].status = "downloading"
                             /\ item[i].lapsed /\ ~Unresolved(i)} :
                  item' = [i \in Items |->
                      IF i \in old THEN [item[i] EXCEPT !.status = "pending"]
                      ELSE item[i]]
       ELSE UNCHANGED <<job, item>>
    /\ UNCHANGED <<cooling, quota, given, journal, storeVars, loopVars,
                   workVars, stopping, claim, bounds>>

Uncool ==
    /\ pass = "uncool" /\ pass' = "release"
    /\ job' = IF job = "cooling" /\ ~cooling THEN "running" ELSE job
    /\ UNCHANGED <<cooling, quota, itemVars, journal, storeVars, loopVars,
                   workVars, stopping, claim, bounds>>

(* Items with a lapsed lease are pending again, unless their job is final  *)
(* or a write of theirs is not resolved.                                   *)
Release ==
    /\ pass = "release" /\ pass' = "start"
    /\ item' = [i \in Items |->
           IF /\ item[i].status = "downloading" /\ item[i].lapsed
              /\ ~Unresolved(i) /\ ~Finished(job)
           THEN Leased("pending", Unset) ELSE item[i]]
    /\ UNCHANGED <<jobVars, given, journal, storeVars, loopVars, workVars,
                   stopping, claim, bounds>>

(* The job is run again if this process does not run it already.           *)
Startable ==
    /\ phase = "off" /\ ~cooling /\ job \in {"running", "cooling"}
    /\ \E i \in Items : item[i].status = "pending"

Start ==
    /\ pass = "start" /\ pass' = "off"
    /\ phase' = IF Startable THEN "wait" ELSE phase
    /\ UNCHANGED <<jobVars, itemVars, journal, storeVars, verdict, exhausted,
                   aborted, failure, workVars, stopping, claim, bounds>>

(* The lease of a journal row whose pass has gone ends after five minutes. *)
JournalLeaseLapses(i) ==
    /\ journal[i].leased /\ claim[i].at = "idle"
    /\ journal' = [journal EXCEPT ![i].leased = FALSE]
    /\ UNCHANGED <<jobVars, itemVars, storeVars, loopVars, workVars, stopping,
                   passVars, bounds>>

(* markStorageAccountCooldown, by an upload of another job.                *)
AccountCools ==
    /\ ~quota /\ Fault("quota")
    /\ quota' = TRUE
    /\ UNCHANGED <<job, cooling, itemVars, journal, storeVars, loopVars,
                   workVars, stopping, passVars>>

CooldownEnds ==
    /\ cooling \/ quota
    /\ cooling' = FALSE /\ quota' = FALSE
    /\ UNCHANGED <<job, itemVars, journal, storeVars, loopVars, workVars,
                   stopping, passVars, bounds>>

-----------------------------------------------------------------------------
(* The user.                                                               *)

Pause ==
    /\ ~Finished(job) /\ job # "paused"
    /\ Control
    /\ job' = "paused"
    /\ UNCHANGED <<cooling, quota, itemVars, journal, storeVars, loopVars,
                   workVars, stopping, passVars>>

(* Mutant of Resume: the job becomes active, which is no status of it.     *)
ResumeActive ==
    /\ job = "paused"
    /\ job' = IF cooling THEN "cooling" ELSE "active"
    /\ UNCHANGED <<cooling, quota, itemVars, journal, storeVars, loopVars,
                   workVars, stopping, passVars, bounds>>

(* A resume needs a pause before it, which is counted: it is not counted.  *)
Resume ==
    /\ job = "paused"
    /\ job' = IF cooling THEN "cooling" ELSE "running"
    /\ UNCHANGED <<cooling, quota, itemVars, journal, storeVars, loopVars,
                   workVars, stopping, passVars, bounds>>

(* cancelTelegramBackgroundJob, or cancelAll, which takes failed jobs too. *)
Cancel ==
    /\ job \notin {"completed", "completed_with_errors", "cancelled"}
    /\ Control
    /\ job' = "cancelled" /\ stopping' = TRUE
    /\ UNCHANGED <<cooling, quota, itemVars, journal, storeVars, loopVars,
                   workVars, passVars>>

(* Then the run is aborted and what is pending now is skipped.             *)
StopRun ==
    /\ stopping /\ stopping' = FALSE
    /\ aborted' = (phase # "off")
    /\ item' = [i \in Items |->
           IF item[i].status = "pending"
           THEN [item[i] EXCEPT !.status = "skipped"] ELSE item[i]]
    /\ UNCHANGED <<jobVars, given, journal, storeVars, phase, verdict,
                   exhausted, failure, workVars, passVars, bounds>>

(* retryTelegramBackgroundJob: failed items without an unresolved write.   *)
Retry ==
    LET again == {i \in Items : item[i].status = "failed" /\ ~Unresolved(i)}
    IN /\ job \in {"failed", "completed_with_errors"} /\ ~cooling
       /\ again # {}
       /\ Control
       /\ job' = "running"
       /\ item' = [i \in Items |->
              IF i \in again THEN [item[i] EXCEPT !.status = "pending"]
              ELSE item[i]]
       /\ UNCHANGED <<cooling, quota, given, journal, storeVars, loopVars,
                      workVars, stopping, passVars>>

(* The process stops; what is in the database and the storage stays.       *)
Crash ==
    /\ Fault("crash")
    /\ phase' = "off" /\ verdict' = "none"
    /\ exhausted' = FALSE /\ aborted' = FALSE /\ failure' = "none"
    /\ stage' = NoRefs /\ gone' = [t \in Tokens |-> {}]
    /\ stopping' = FALSE
    /\ pass' = "off" /\ claim' = [i \in Items |-> Idle]
    /\ UNCHANGED <<jobVars, itemVars, journal, storeVars>>

-----------------------------------------------------------------------------
(* A job whose run is about to start, some of its items stored by an       *)
(* earlier run.                                                            *)
Prepared(stored, spent) ==
    /\ job = "running" /\ cooling = FALSE /\ quota = FALSE
    /\ item = [i \in Items |->
           Leased(IF i \in stored THEN "success" ELSE "pending", Unset)]
    /\ given = [i \in Items |-> IF i \in stored THEN 1 ELSE 0]
    /\ journal = [i \in Items |->
           IF i \in stored
           THEN [state |-> "committed", op |-> 1, object |-> "present",
                 index |-> "present", path |-> TRUE, file |-> TRUE,
                 leased |-> FALSE]
           ELSE [state |-> "none", op |-> Unset, object |-> "unknown",
                 index |-> "unknown", path |-> FALSE, file |-> FALSE,
                 leased |-> FALSE]]
    /\ objects = stored \X {1} /\ files = stored \X {1}
    /\ phase = "wait" /\ verdict = "none" /\ exhausted = FALSE
    /\ aborted = FALSE /\ failure = "none"
    /\ stage = NoRefs /\ gone = [t \in Tokens |-> {}]
    /\ stopping = FALSE
    /\ pass = "off" /\ claim = [i \in Items |-> Idle]
    /\ faults = spent /\ controls = 0

Init == Prepared({}, 0)

Run ==
    \/ Await \/ ClaimBatch \/ OpenWindow \/ RefuseWindow \/ Restore
    \/ Load \/ CloseWindow \/ LeaseLost \/ QuotaEnds \/ ApplyCooldown
    \/ RunFails \/ Tally \/ Finalize

Work(t) ==
    \/ StartItem(t) \/ Download(t) \/ Begin(t) \/ Save(t) \/ MarkObject(t)
    \/ InsertRow(t) \/ MarkIndex(t) \/ Validate(t) \/ Commit(t)
    \/ Undo(t) \/ UndoRow(t) \/ Drop(t) \/ DropRow(t) \/ Note(t) \/ Settle(t)
    \/ MarkFailed(t)

Recover(i) ==
    \/ Decide(i) \/ DeleteObject(i) \/ StillMine(i) \/ DeleteRow(i)
    \/ CloseWrite(i)

RecoverJob == WritesDone \/ Repair \/ Uncool \/ Release \/ Start

User == Pause \/ Resume \/ Cancel \/ Retry

Next ==
    \/ Run
    \/ \E t \in Tokens : Work(t)
    \/ Heartbeat
    \/ \E i \in Items : LeaseLapses(i) \/ JournalLeaseLapses(i)
    \/ AccountCools \/ CooldownEnds
    \/ ClaimWrites \/ RecoverJob
    \/ \E i \in Items : Recover(i)
    \/ User \/ StopRun \/ Crash

Spec == Init /\ [][Next]_vars

(* The run goes on and so do its workers, leases and cooldowns end with    *)
(* the time, and the recovery passes come again and again.  The user owes  *)
(* nothing.  No worker is owed a turn for itself: none works for ever, so  *)
(* that they go on together is enough; the same holds of the rest.         *)
Works == \E t \in Tokens : Work(t)
Recovers == ClaimWrites \/ RecoverJob \/ \E i \in Items : Recover(i)
LeasesLapse == \E i \in Items : LeaseLapses(i) \/ JournalLeaseLapses(i)

Fairness ==
    /\ WF_vars(Run) /\ WF_vars(StopRun) /\ WF_vars(CooldownEnds)
    /\ WF_vars(Works) /\ WF_vars(Recovers) /\ WF_vars(LeasesLapse)

FairSpec == Spec /\ Fairness

-----------------------------------------------------------------------------
(* Properties.                                                             *)

(* Every variable keeps its type: statuses are those of the tables'        *)
(* columns, and a lease number never exceeds the leases given.             *)
TypeOK ==
    /\ job \in {"running", "paused", "cooling", "cancelled", "completed",
                "completed_with_errors", "failed"}
    /\ cooling \in BOOLEAN /\ quota \in BOOLEAN /\ stopping \in BOOLEAN
    /\ given \in [Items -> 0..MaxClaims]
    /\ item \in [Items -> [status : {"pending", "downloading", "success",
                                     "failed", "skipped"},
                           token : 0..MaxClaims, lapsed : BOOLEAN]]
    /\ \A i \in Items : item[i].token <= given[i]
    /\ journal \in [Items ->
          [state : {"none", "pending", "operator", "committed", "undone"},
           op : 0..MaxClaims,
           object : {"unknown", "present", "deleted"},
           index : {"unknown", "present", "deleted"},
           path : BOOLEAN, file : BOOLEAN, leased : BOOLEAN]]
    /\ objects \subseteq Tokens /\ files \subseteq Tokens
    /\ phase \in {"off", "wait", "go", "claimed", "active", "restore", "tally",
                  "finish"}
    /\ verdict \in {"none", "pending", "skipped", "running", "completed",
                    "completed_with_errors"}
    /\ exhausted \in BOOLEAN /\ aborted \in BOOLEAN
    /\ failure \in {"none", "lease", "quota", "error"}
    /\ stage \in [Tokens ->
          {"none", "claimed", "left", "ready", "download", "permitted",
           "begun", "saved", "marked", "indexed", "written", "valid", "undo",
           "unrow", "drop", "unindex", "note", "refused", "skip",
           "duplicate", "fail", "again"}]
    /\ gone \in [Tokens -> SUBSET {"object", "index"}]
    /\ pass \in {"off", "resolve", "repair", "uncool", "release", "start"}
    /\ claim \in [Items ->
          [at : {"idle", "claimed", "object", "check", "row", "close"},
           object : {"unknown", "present", "deleted"},
           index : {"unknown", "present", "deleted"},
           path : BOOLEAN, file : BOOLEAN, op : 0..MaxClaims,
           success : BOOLEAN]]
    /\ faults \in 0..MaxFaults /\ controls \in 0..MaxControls

(* What a committed write stored is there: neither a worker that lost its  *)
(* lease, nor the undoing of an earlier write, nor a recovery pass that    *)
(* read the journal row before it was resolved, removes the object or the  *)
(* row of an item that is settled as stored.                               *)
CommittedStays ==
    \A i \in Items : journal[i].state = "committed" =>
        /\ item[i].status = "success"
        /\ <<i, journal[i].op>> \in objects \cap files

(* Whatever lies in the storage or in files belongs to a committed write,  *)
(* to one a journal row still knows, or to a worker that has not finished  *)
(* with it: no lost lease, failure or crash leaves an object or a row that *)
(* nobody will remove, and so no item is stored twice for good.            *)
Held(t) ==
    stage[t] \in {"saved", "marked", "indexed", "written", "valid", "undo",
                  "unrow", "drop", "unindex"}

NothingLeftBehind ==
    \A t \in objects \cup files :
        \/ Held(t)
        \/ /\ journal[t[1]].op = t[2]
           /\ journal[t[1]].state \in {"pending", "operator", "committed"}

(* A job is completed only when every item has ended, and without errors   *)
(* only when none failed, although the statistics are read before the      *)
(* final status is written.                                                *)
CompletedMeansDone ==
    job \in {"completed", "completed_with_errors"} =>
        \A i \in Items :
            /\ ~Unfinished(i)
            /\ job = "completed" => item[i].status # "failed"

(* The promise of ItemOutcome.  An item is stored as the write that its    *)
(* journal row commits, while its object and its row in files are there,   *)
(* or else as a file that somebody had stored before.                      *)
Elsewhere == <<Unset>>
NoFile == <<>>

OutcomeOf(i) ==
    CASE Unfinished(i) -> "open"
      [] item[i].status = "success" -> "stored"
      [] OTHER -> item[i].status

FileOf(i) ==
    LET t == <<i, journal[i].op>>
    IN IF item[i].status # "success" THEN NoFile
       ELSE IF journal[i].state = "committed" /\ t \in objects \cap files
       THEN t ELSE Elsewhere

Promise == INSTANCE ItemOutcome WITH
    Files <- Tokens \cup {Elsewhere},
    NoFile <- NoFile,
    outcome <- [i \in Items |-> OutcomeOf(i)],
    file <- [i \in Items |-> FileOf(i)],
    withdrawn <- job = "cancelled"

(* Whatever the run, the user, faults and crashes do, the items and what   *)
(* is stored of them keep the promise of ItemOutcome.                      *)
ItemsKeepPromise == Promise!Spec

(* Every item of a job that is neither paused nor cancelled ends, whatever *)
(* the run met, a crash included, but for two cases.  The journal cannot   *)
(* tell what a write of it has left: the name of the object or the id of   *)
(* the row was never recorded.  Or the item is left downloading in a job   *)
(* that failed with nothing pending: repair wants a pending item, release  *)
(* an unfinished job and retry a failed item.                              *)
Untold(i) ==
    /\ Unresolved(i)
    /\ \/ journal[i].state = "operator"
       \/ journal[i].index = "unknown" /\ ~journal[i].file

Stranded(i) ==
    /\ job = "failed" /\ item[i].status = "downloading"
    /\ \A k \in Items : item[k].status # "pending"

ItemsEnd ==
    \A i \in Items :
        []<>(Unfinished(i) =>
                job \in {"paused", "cancelled"} \/ Untold(i) \/ Stranded(i))
=============================================================================

------------------------ MODULE QbittorrentTransfers ------------------------
(* Transfers of torrents from qBittorrent to a storage target              *)
(* (services/qbittorrentTasks.ts).  All tasks are for one torrent, the     *)
(* same hash.  One poll runs at a time and handles one task; a poll and a  *)
(* control of one task exclude each other by an advisory lock, so the row  *)
(* a poll has read stays as it is until the poll changes it.  qBittorrent  *)
(* is outside: a request to it can fail with or without effect, an add     *)
(* whose answer was lost can take effect later, though not after a later   *)
(* add has, and it removes a torrent and its files some time after it was  *)
(* told to.                                                                *)
(* The note of an error in the row succeeds.                               *)
(* Left out: names, sizes, speeds and progress, the check of paths for     *)
(* symbolic links, and a changed connection, which fails a poll or a       *)
(* control like any other error.                                           *)
EXTENDS FiniteSets, Naturals

CONSTANTS
    Tasks,        \* transfer tasks
    Files,        \* files of the torrent
    Nobody,       \* no task
    Stranger,     \* the user of qBittorrent, with the same torrent
    Preserve,     \* tasks that keep the source files, a subset
    MaxFaults,    \* bound: failed calls, crashes, removals by others
    MaxControls   \* bound: requests of users

VARIABLES
    row,       \* transfer_tasks
    library,   \* rows of files, by task and file
    objects,   \* objects on the storage target, by task and file
    torrent,   \* the torrent in qBittorrent
    disk,      \* of each task: finished files in its download directory
    late,      \* tasks with an add that may still take effect
    work,      \* the task being polled, the step, the file it transfers
    aborted,   \* the abort signal of the poll
    asks,      \* controls that wait for the lock of their task
    enabled,   \* the extension is switched on, and the timer runs
    faults, controls

downloader == <<torrent, disk, late>>
stored == <<library, objects>>
bounds == <<faults, controls>>
vars == <<row, stored, downloader, work, aborted, asks, enabled, bounds>>

Idle == [task |-> Nobody, at |-> "idle", file |-> {}]
NoTorrent ==
    [owner |-> Nobody, phase |-> "metadata", want |-> {}, deleting |-> FALSE]

Fault == faults < MaxFaults /\ faults' = faults + 1 /\ UNCHANGED controls
User == controls < MaxControls /\ controls' = controls + 1 /\ UNCHANGED faults

Final(t) == row[t].status \in {"completed", "cancelled"}
Cancelling(t) == row[t].cancel \/ row[t].stage = "cancelling"
Gone == torrent.owner = Nobody

(* Mutant of Owned: the same hash is enough.                               *)
SameHash(t) == ~Gone

(* assertQbOwnedTorrent: the torrent of the hash is in the task's          *)
(* directory.                                                              *)
Owned(t) == torrent.owner = t

(* updateTransferTask                                                      *)
Update(t, r) == row' = [row EXCEPT ![t] = r]

Go(t, step) == work' = [work EXCEPT !.at = step] /\ UNCHANGED aborted
Done == work' = Idle /\ aborted' = FALSE

(* The handler of an error in processTask: an aborted poll says nothing.   *)
FailWith(t, r) ==
    /\ Done
    /\ Update(t, IF aborted THEN r ELSE [r EXCEPT !.status = "failed"])

Fail(t) == FailWith(t, row[t])

-----------------------------------------------------------------------------
(* createQbTask, under the lock of submissions.                            *)
Create(t) ==
    /\ enabled /\ row[t].status = "none"
    /\ \A s \in Tasks : row[s].status = "none" \/ Final(s)
    /\ Gone
    /\ Update(t, [row[t] EXCEPT !.status = "pending", !.stage = "submitting"])
    /\ UNCHANGED <<stored, downloader, work, aborted, asks, enabled, bounds>>

-----------------------------------------------------------------------------
(* One poll of one task.                                                   *)

(* tickQbTasks and the head of processTask: a task with a control waiting  *)
(* is left alone.                                                          *)
Poll(t) ==
    /\ enabled /\ work.at = "idle"
    /\ row[t].status \in {"pending", "running"}
    /\ \A a \in asks : a.task # t
    /\ work' = [task |-> t, at |-> "look", file |-> {}]
    /\ UNCHANGED <<row, stored, downloader, aborted, asks, enabled, bounds>>

(* Any call of a poll that is no step of its own here can fail: reading    *)
(* the torrent or its files, the directory, the account's lease.           *)
Breaks(t) ==
    /\ work.task = t /\ work.at \in {"look", "clean"}
    /\ Fault /\ Fail(t)
    /\ UNCHANGED <<stored, downloader, asks, enabled>>

(* Mutant of CancelSource: what an add without an answer has done is not   *)
(* asked.                                                                  *)
CancelSourceAtOnce(t) ==
    /\ work.task = t /\ work.at = "look" /\ Cancelling(t) /\ Gone
    /\ disk[t] = {}
    /\ Done
    /\ Update(t, [row[t] EXCEPT !.status = "cancelled", !.stage = "cancelled"])
    /\ UNCHANGED <<stored, downloader, asks, enabled, bounds>>

(* cancelTaskSource, when the torrent is not there (any more).             *)
CancelSource(t) ==
    /\ work.task = t /\ work.at = "look" /\ Cancelling(t) /\ Gone
    /\ IF row[t].unconfirmed /\ ~row[t].cleanup THEN Fail(t)
       ELSE IF disk[t] = {}
       THEN Done /\ Update(t, [row[t] EXCEPT !.status = "cancelled",
                                             !.stage = "cancelled"])
       ELSE IF row[t].cleanup /\ row[t].recent THEN Done /\ UNCHANGED row
       ELSE Fail(t)
    /\ UNCHANGED <<stored, downloader, asks, enabled, bounds>>

(* Mutant of CancelTorrent: a deletion that does not come to an end is     *)
(* waited for without limit.                                               *)
CancelPatiently(t) ==
    /\ work.task = t /\ work.at = "look" /\ Cancelling(t) /\ Owned(t)
    /\ IF ~row[t].cleanup
       THEN /\ Go(t, "delete")
            /\ Update(t, [row[t] EXCEPT !.cleanup = TRUE, !.recent = TRUE,
                                        !.unconfirmed = FALSE])
       ELSE Done /\ UNCHANGED row
    /\ UNCHANGED <<stored, downloader, asks, enabled, bounds>>

(* ... and when it is: the intent is recorded before the request.          *)
CancelTorrent(t) ==
    /\ work.task = t /\ work.at = "look" /\ Cancelling(t) /\ Owned(t)
    /\ IF ~row[t].cleanup
       THEN /\ Go(t, "delete")
            /\ Update(t, [row[t] EXCEPT !.cleanup = TRUE, !.recent = TRUE,
                                        !.unconfirmed = FALSE])
       ELSE IF row[t].recent THEN Done /\ UNCHANGED row ELSE Fail(t)
    /\ UNCHANGED <<stored, downloader, asks, enabled, bounds>>

(* A torrent of the same hash in another directory, or an aborted poll.    *)
Refuse(t) ==
    /\ work.task = t /\ work.at = "look"
    /\ \/ torrent.owner \notin {Nobody, t}
       \/ aborted /\ ~Cancelling(t)
    /\ Fail(t)
    /\ UNCHANGED <<stored, downloader, asks, enabled, bounds>>

Looks(t) ==
    /\ work.task = t /\ work.at = "look" /\ ~Cancelling(t) /\ ~aborted
    /\ torrent.owner \in {Nobody, t}

(* Before the torrent is added the row says that it may have been.         *)
Submit(t) ==
    /\ Looks(t) /\ Gone /\ row[t].stage = "submitting"
    /\ Go(t, "add")
    /\ Update(t, [row[t] EXCEPT !.unconfirmed = TRUE])
    /\ UNCHANGED <<stored, downloader, asks, enabled, bounds>>

Fresh(t) ==
    [owner |-> t, phase |-> "metadata", want |-> {}, deleting |-> FALSE]

Add(t) ==
    /\ work.task = t /\ work.at = "add"
    /\ \/ /\ Gone /\ torrent' = Fresh(t) /\ late' = late \ {t} /\ Done
          /\ UNCHANGED <<row, bounds>>
       \/ /\ ~Gone /\ Fail(t) /\ UNCHANGED <<torrent, late, bounds>>
       \/ /\ Fault /\ Fail(t)
          /\ \/ Gone /\ torrent' = Fresh(t) /\ late' = late \ {t}
             \/ UNCHANGED <<torrent, late>>
             \/ Gone /\ late' = late \cup {t} /\ UNCHANGED torrent
    /\ UNCHANGED <<stored, disk, asks, enabled>>

(* The torrent has been removed, and the source files with it; or it is    *)
(* missing although nobody was told to remove it.                          *)
Vanished(t) ==
    /\ Looks(t) /\ Gone /\ row[t].stage # "submitting"
    /\ IF /\ row[t].stage = "cleaning" /\ row[t].cleanup
          /\ disk[t] \cap row[t].saved = {}
       THEN Done /\ Update(t, [row[t] EXCEPT !.status = "completed",
                                             !.stage = "completed"])
       ELSE Fail(t)
    /\ UNCHANGED <<stored, downloader, asks, enabled, bounds>>

Complete(t) ==
    /\ torrent.want # {} /\ torrent.want \subseteq disk[t]
    /\ torrent.phase \in {"active", "paused"}

(* The row as a poll finds it, once the torrent is known to be there.      *)
Seen(t) ==
    IF row[t].stage = "submitting"
    THEN [row[t] EXCEPT !.stage = "metadata", !.unconfirmed = FALSE]
    ELSE row[t]

Watching(t) ==
    /\ Looks(t) /\ Owned(t)
    /\ row[t].stage # "cleaning"

Watch(t) ==
    /\ Watching(t) /\ ~Complete(t)
    /\ IF torrent.phase = "broken" THEN FailWith(t, Seen(t))
       ELSE /\ Done
            /\ Update(t, [Seen(t) EXCEPT
                   !.status = IF torrent.phase = "paused" THEN "paused"
                              ELSE "running",
                   !.stage = IF torrent.phase = "metadata" THEN "metadata"
                             ELSE "downloading",
                   !.total = torrent.want])
    /\ UNCHANGED <<stored, downloader, asks, enabled, bounds>>

Uploading(t) ==
    [Seen(t) EXCEPT !.status = "running", !.stage = "uploading",
                    !.total = torrent.want]

(* One file at a poll.                                                     *)
Pick(t) ==
    /\ Watching(t) /\ Complete(t)
    /\ \E f \in torrent.want \ row[t].saved :
           work' = [work EXCEPT !.at = "save", !.file = {f}]
    /\ Update(t, Uploading(t))
    /\ UNCHANGED <<stored, downloader, aborted, asks, enabled, bounds>>

(* Nothing is left to transfer.                                            *)
Finish(t) ==
    /\ Watching(t) /\ Complete(t) /\ torrent.want \subseteq row[t].saved
    /\ IF t \in Preserve
       THEN Done /\ Update(t, [Uploading(t) EXCEPT !.status = "completed",
                                                   !.stage = "completed"])
       ELSE Go(t, "clean") /\ Update(t, [Uploading(t) EXCEPT
                                  !.stage = "cleaning", !.cleanup = FALSE])
    /\ UNCHANGED <<stored, downloader, asks, enabled, bounds>>

Clean(t) ==
    /\ Looks(t) /\ Owned(t) /\ row[t].stage = "cleaning"
    /\ Go(t, "clean")
    /\ UNCHANGED <<row, stored, downloader, asks, enabled, bounds>>

Item == {<<work.task, f>> : f \in work.file}

(* transferFile up to the save: the lease, the copy, the provider.         *)
Save(t) ==
    /\ work.task = t /\ work.at = "save"
    /\ \/ /\ ~aborted /\ objects' = objects \cup Item
          /\ Go(t, "index") /\ UNCHANGED <<row, bounds>>
       \/ /\ aborted /\ Fail(t) /\ UNCHANGED <<objects, bounds>>
       \/ /\ Fault /\ Fail(t)
          /\ objects' \in {objects, objects \cup Item}
    /\ UNCHANGED <<library, downloader, asks, enabled>>

(* The row of the file and the note of it in the task, in one transaction. *)
Index(t) ==
    /\ work.task = t /\ work.at = "index"
    /\ \/ /\ ~aborted /\ library' = library \cup Item
          /\ Update(t, [row[t] EXCEPT !.saved = @ \cup work.file])
          /\ Done /\ UNCHANGED bounds
       \/ /\ aborted /\ Go(t, "undo") /\ UNCHANGED <<row, library, bounds>>
       \/ Fault /\ Go(t, "undo") /\ UNCHANGED <<row, library>>
    /\ UNCHANGED <<objects, downloader, asks, enabled>>

(* saveAndIndexWithCompensation: the object goes, or only the log knows.   *)
Undo(t) ==
    /\ work.task = t /\ work.at = "undo"
    /\ \/ objects' = objects \ Item /\ UNCHANGED bounds
       \/ Fault /\ UNCHANGED objects
    /\ Fail(t)
    /\ UNCHANGED <<library, downloader, asks, enabled>>

(* The last check before the source is removed: every wanted file is       *)
(* stored and its row is still there.                                      *)
AllStored(t) ==
    /\ torrent.want # {} /\ torrent.want \subseteq row[t].saved
    /\ \A f \in row[t].saved : <<t, f>> \in library

Check(t) ==
    /\ work.task = t /\ work.at = "clean"
    /\ IF Owned(t) /\ AllStored(t) /\ ~aborted
       THEN /\ Go(t, "delete")
            /\ Update(t, [row[t] EXCEPT !.cleanup = TRUE])
       ELSE Fail(t)
    /\ UNCHANGED <<stored, downloader, asks, enabled, bounds>>

(* The request by hash, for a cancellation as for a clean-up.              *)
Delete(t) ==
    /\ work.task = t /\ work.at = "delete"
    /\ \/ /\ torrent' = [torrent EXCEPT !.deleting = ~Gone]
          /\ Done /\ UNCHANGED <<row, bounds>>
       \/ /\ Fault /\ Fail(t)
          /\ torrent' \in {torrent, [torrent EXCEPT !.deleting = ~Gone]}
    /\ UNCHANGED <<stored, disk, late, asks, enabled>>

-----------------------------------------------------------------------------
(* Users.                                                                  *)

(* controlQbTask aborts the poll of the task and then waits for its lock.  *)
Ask(t, action) ==
    /\ enabled /\ row[t].status # "none" /\ User
    /\ asks' = asks \cup {[task |-> t, action |-> action]}
    /\ aborted' = (aborted \/ work.task = t)
    /\ UNCHANGED <<row, stored, downloader, work, enabled>>

Granted(a) == a \in asks /\ work.task # a.task /\ asks' = asks \ {a}

(* Refused: the task has ended or is being cancelled or cleaned.           *)
Stays(a) ==
    \/ Final(a.task)
    \/ a.action = "retry" /\ row[a.task].status # "failed"
    \/ /\ a.action # "retry"
       /\ Cancelling(a.task) \/ row[a.task].stage = "cleaning"

Deny(a) ==
    /\ Granted(a) /\ Stays(a)
    /\ UNCHANGED <<row, stored, downloader, work, aborted, enabled, bounds>>

Retry(a) ==
    /\ Granted(a) /\ ~Stays(a) /\ a.action = "retry"
    /\ LET again == [row[a.task] EXCEPT !.status = "pending"]
       IN Update(a.task, IF ~Cancelling(a.task) THEN again
                         ELSE [again EXCEPT !.stage = "cancelling",
                                   !.cancel = TRUE, !.cleanup = FALSE,
                                   !.recent = FALSE])
    /\ UNCHANGED <<stored, downloader, work, aborted, enabled, bounds>>

Cancel(a) ==
    /\ Granted(a) /\ ~Stays(a) /\ a.action = "cancel"
    /\ Update(a.task, [row[a.task] EXCEPT !.status = "running",
                           !.stage = "cancelling", !.cancel = TRUE,
                           !.cleanup = FALSE, !.recent = FALSE])
    /\ UNCHANGED <<stored, downloader, work, aborted, enabled, bounds>>

(* The downloader is told first; the row follows if that succeeded.        *)
PauseOrResume(a) ==
    /\ Granted(a) /\ ~Stays(a) /\ a.action \in {"pause", "resume"}
    /\ LET t == a.task
           told == IF Owned(t) /\ torrent.phase \in {"active", "paused"}
                   THEN [torrent EXCEPT !.phase =
                            IF a.action = "pause" THEN "paused" ELSE "active"]
                   ELSE torrent
       IN \/ /\ Owned(t) \/ (Gone /\ row[t].stage = "submitting")
             /\ torrent' = told
             /\ Update(t, [row[t] EXCEPT !.status =
                           IF a.action = "pause" THEN "paused" ELSE "pending"])
             /\ UNCHANGED bounds
          \/ /\ ~Owned(t) /\ ~(Gone /\ row[t].stage = "submitting")
             /\ UNCHANGED <<row, torrent, bounds>>
          \/ Fault /\ torrent' \in {torrent, told} /\ UNCHANGED row
    /\ UNCHANGED <<stored, disk, late, work, aborted, enabled>>

(* qbTaskFiles: priorities are set in two requests, the second may fail.   *)
Select(t) ==
    /\ work.task # t /\ Owned(t) /\ torrent.phase # "metadata" /\ User
    /\ ~Cancelling(t) /\ row[t].saved = {}
    /\ row[t].stage \notin {"uploading", "cleaning", "completed", "cancelled"}
    /\ \E S \in SUBSET Files \ {{}} :
           torrent' \in {[torrent EXCEPT !.want = S],
                         [torrent EXCEPT !.want = @ \cap S]}
    /\ UNCHANGED <<row, stored, disk, late, work, aborted, asks, enabled>>

(* A user of the library deletes a transferred file.                       *)
RemoveFromLibrary ==
    /\ User
    /\ \E i \in library : library' = library \ {i} /\ objects' = objects \ {i}
    /\ UNCHANGED <<row, downloader, work, aborted, asks, enabled>>

(* saveQbConfig, with startQbTasks and stopQbTasks, which aborts the poll. *)
Switch ==
    /\ User /\ enabled' = ~enabled
    /\ aborted' = (work.at # "idle" /\ (aborted \/ enabled))
    /\ UNCHANGED <<row, stored, downloader, work, asks>>

-----------------------------------------------------------------------------
(* qBittorrent, time and crashes.                                          *)

Downloads ==
    /\ torrent.owner \in Tasks /\ ~torrent.deleting
    /\ \/ /\ torrent.phase = "metadata"
          /\ torrent' = [torrent EXCEPT !.phase = "active", !.want = Files]
          /\ UNCHANGED disk
       \/ /\ torrent.phase = "active" /\ torrent.want \ disk[torrent.owner] # {}
          /\ disk' = [disk EXCEPT ![torrent.owner] = @ \cup torrent.want]
          /\ UNCHANGED torrent
    /\ UNCHANGED <<row, stored, late, work, aborted, asks, enabled, bounds>>

(* The torrent first, then its files.                                      *)
Removes ==
    /\ torrent.deleting
    /\ \/ torrent.owner \in Tasks /\ disk[torrent.owner] # {}
          /\ disk' = [disk EXCEPT ![torrent.owner] = {}] /\ UNCHANGED torrent
       \/ torrent' = NoTorrent
          /\ disk' \in {disk, [disk EXCEPT ![torrent.owner] = {}]}
    /\ UNCHANGED <<row, stored, late, work, aborted, asks, enabled, bounds>>

RemovesFiles ==
    /\ \E t \in Tasks :
           /\ torrent.owner # t /\ row[t].cleanup /\ disk[t] # {}
           /\ disk' = [disk EXCEPT ![t] = {}]
    /\ UNCHANGED <<row, stored, torrent, late, work, aborted, asks, enabled,
                   bounds>>

LateAdd(t) ==
    /\ t \in late /\ late' = late \ {t}
    /\ torrent' = IF Gone THEN Fresh(t) ELSE torrent
    /\ UNCHANGED <<row, stored, disk, work, aborted, asks, enabled, bounds>>

(* An error of the downloader, or its user removes the torrent or adds it  *)
(* for himself; the latter not in the moment between a check of the owner  *)
(* and the request to delete, which goes by hash.                          *)
Trouble ==
    /\ Fault /\ torrent.owner # Stranger
    /\ \/ ~Gone /\ torrent' = [torrent EXCEPT !.phase = "broken"]
          /\ UNCHANGED disk
       \/ /\ ~Gone /\ torrent' = NoTorrent
          /\ disk' \in {disk, [disk EXCEPT ![torrent.owner] = {}]}
       \/ Gone /\ work.at # "delete" /\ torrent' = Fresh(Stranger) /\ UNCHANGED disk
    /\ UNCHANGED <<row, stored, late, work, aborted, asks, enabled>>

(* Thirty seconds have passed since the deletion was requested.            *)
Lapse(t) ==
    /\ row[t].recent
    /\ Update(t, [row[t] EXCEPT !.recent = FALSE])
    /\ UNCHANGED <<stored, downloader, work, aborted, asks, enabled, bounds>>

Crash ==
    /\ Fault /\ work' = Idle /\ aborted' = FALSE /\ asks' = {}
    /\ UNCHANGED <<row, stored, downloader, enabled>>

-----------------------------------------------------------------------------

Init ==
    /\ row = [t \in Tasks |->
          [status |-> "none", stage |-> "submitting", cancel |-> FALSE,
           cleanup |-> FALSE, recent |-> FALSE, unconfirmed |-> FALSE,
           saved |-> {}, total |-> {}]]
    /\ library = {} /\ objects = {}
    /\ torrent = NoTorrent /\ disk = [t \in Tasks |-> {}] /\ late = {}
    /\ work = Idle /\ aborted = FALSE /\ asks = {} /\ enabled = TRUE
    /\ faults = 0 /\ controls = 0

Step(t) ==
    \/ CancelSource(t) \/ CancelTorrent(t) \/ Refuse(t) \/ Submit(t)
    \/ Add(t) \/ Vanished(t) \/ Watch(t) \/ Pick(t) \/ Finish(t) \/ Clean(t)
    \/ Save(t) \/ Index(t) \/ Undo(t) \/ Check(t) \/ Delete(t)

Control(a) == Deny(a) \/ Retry(a) \/ Cancel(a) \/ PauseOrResume(a)

Controls == {"pause", "resume", "retry", "cancel"}

Controlled == \E a \in [task : Tasks, action : Controls] : Control(a)

Next ==
    \/ \E t \in Tasks :
          \/ Create(t) \/ Poll(t) \/ Step(t) \/ Breaks(t) \/ Select(t)
          \/ LateAdd(t) \/ Lapse(t)
          \/ \E c \in Controls : Ask(t, c)
    \/ Controlled \/ RemoveFromLibrary \/ Switch
    \/ Downloads \/ Removes \/ RemovesFiles \/ Trouble \/ Crash

Spec == Init /\ [][Next]_vars

(* The timer polls again and again, calls come back, the downloader goes   *)
(* on and removes what it was told to, and time passes.                    *)
Fairness ==
    /\ \A t \in Tasks : WF_vars(Poll(t)) /\ WF_vars(Step(t)) /\ WF_vars(Lapse(t))
    /\ WF_vars(Controlled)
    /\ WF_vars(Removes) /\ WF_vars(RemovesFiles)

FairSpec == Spec /\ Fairness

-----------------------------------------------------------------------------
(* Properties.                                                             *)

(* The rows keep the columns' values, and a poll that is under way is of a *)
(* task that exists.                                                       *)
TypeOK ==
    /\ row \in [Tasks ->
          [status : {"none", "pending", "running", "paused", "completed",
                     "failed", "cancelled"},
           stage : {"submitting", "metadata", "downloading", "uploading",
                    "cleaning", "completed", "cancelling", "cancelled"},
           cancel : BOOLEAN, cleanup : BOOLEAN, recent : BOOLEAN,
           unconfirmed : BOOLEAN, saved : SUBSET Files, total : SUBSET Files]]
    /\ library \subseteq Tasks \X Files /\ objects \subseteq Tasks \X Files
    /\ torrent \in [owner : Tasks \cup {Nobody, Stranger},
                    phase : {"metadata", "active", "paused", "broken"},
                    want : SUBSET Files, deleting : BOOLEAN]
    /\ disk \in [Tasks -> SUBSET Files] /\ late \subseteq Tasks
    /\ work.task \in Tasks => row[work.task].status # "none"
    /\ aborted \in BOOLEAN /\ enabled \in BOOLEAN
    /\ asks \subseteq [task : Tasks, action : Controls]

(* The downloader is told to remove a torrent and its files only when it   *)
(* is the torrent of a task that is being cancelled or has stored all that *)
(* was wanted of it.                                                       *)
SourceKept ==
    torrent.deleting =>
        /\ torrent.owner \in Tasks
        /\ LET r == row[torrent.owner] IN
               r.cancel \/ torrent.want \subseteq r.saved

(* A row of the library has its object.  A completed task has stored what  *)
(* it wanted; a cancelled one leaves no torrent and no files, whatever     *)
(* became of its requests, and none under way.                             *)
EndsClean ==
    /\ library \subseteq objects
    /\ \A t \in Tasks :
        /\ row[t].status = "completed" =>
               row[t].total # {} /\ row[t].total \subseteq row[t].saved
        /\ row[t].status = "cancelled" =>
               ~Owned(t) /\ disk[t] = {} /\ t \notin late

(* No abort, retry, failed call or crash removes a source that is not      *)
(* stored or not the archive's own, loses what was stored, or leaves       *)
(* something behind a cancelled task.                                      *)
SourceOrCopy == SourceKept /\ EndsClean

Attended(t) ==
    Cancelling(t) => row[t].status \in {"cancelled", "failed"} \/ ~enabled

(* A cancellation ends, in the cancelled state or in one that shows an     *)
(* error and can be retried, through crashes and lost answers.             *)
CancelEnds == \A t \in Tasks : []<>Attended(t)
=============================================================================

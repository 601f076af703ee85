---------------------------- MODULE FileLibrary ----------------------------
(* The library of files: rows, objects in the upload directory, previews,  *)
(* and what removes them.  Files are written (an upload of any kind),      *)
(* indexed, moved, and deleted after a confirmation (routes/files.ts,      *)
(* routes/folderOperations.ts); thumbnails and previews are made in the    *)
(* background (services/mediaDerivatives.ts) and on demand                 *)
(* (utils/previewCache.ts); a timer removes objects without a row and      *)
(* previews that no row names (services/orphanCleanup.ts,                  *)
(* utils/previewMaintenance.ts).  Every statement and file operation is a  *)
(* step; a check of memory is one with the operation it guards.            *)
(* Left out: listing, ranges and links, names and favourites, thumbnails   *)
(* (they are made and recorded with the preview), sizes.                   *)
EXTENDS FiniteSets, Naturals

CONSTANTS
    Files,
    Media,        \* images and videos: the files derivatives are made for
    Copied,       \* those of them stored elsewhere: made from a temporary copy
    Bare,         \* files that lie in the upload directory while they are written
    Folders,
    RecoverLimit, \* jobs a restart takes up again: 1000 in the code
    MaxFaults,    \* bound: failed calls and crashes
    MaxDeletes,   \* bound: confirmed deletions
    MaxViews      \* bound: previews asked for

VARIABLES
    row,        \* files: the row of each file
    body,       \* where the content of a file is
    old,        \* files on the disk last modified before the protected time
    overdue,    \* files that were that old before a scan could read their row
    copy,       \* temporary copies on the disk
    preview,    \* previews on the disk: absent, fresh, or a day old
    flight,     \* the generation of a preview that is under way
    job,        \* the derivative job of a file, in memory
    view,       \* a request for the preview of a file
    scan,       \* the clean-up
    token,      \* an unused confirmation: the files shown, or none
    doomed,     \* files whose deletion was confirmed
    erase,      \* the deletion under way
    failed,     \* files an operation on which failed, other than by a crash
    faults, deletes, views

media == <<copy, preview, flight, job, view>>
removal == <<token, doomed, erase, deletes>>
age == <<old, overdue>>
errors == <<failed, faults>>
vars == <<row, body, age, media, scan, removal, errors, views>>

NoRow == [there |-> FALSE, folder |-> {}, status |-> "none", preview |-> FALSE]
NoFlight == [at |-> "none", from |-> "none"]
NoScan == [at |-> "idle", known |-> {}, old |-> {}, todo |-> {}]
NoErase == [todo |-> {}, at |-> "idle", named |-> {}]

Trouble == faults < MaxFaults /\ faults' = faults + 1
Fault(f) == Trouble /\ failed' = failed \cup {f}
Put(f, field, value) == row' = [row EXCEPT ![f][field] = value]
Known == {f \in Files : row[f].there}

-----------------------------------------------------------------------------
(* Writing a file.                                                         *)

(* The content is on the disk: in a directory that is not scanned, or      *)
(* under a name that counts as active, or, a file merged from chunks, with *)
(* nothing but its age to protect it.                                      *)
Receive(f) ==
    /\ body[f] = "none"
    /\ body' = [body EXCEPT ![f] = "temporary"]
    /\ copy' = IF f \in Copied THEN copy \cup {f} ELSE copy
    /\ UNCHANGED <<row, age, preview, flight, job, view, scan, removal, errors,
                   views>>

(* LocalStorageProvider.saveFile renames: the file keeps its time.  A file *)
(* for elsewhere is read from its copy; a failure removes the copy.        *)
Save(f) ==
    /\ body[f] = "temporary"
    /\ \/ /\ f \in Copied => f \in copy
          /\ body' = [body EXCEPT ![f] = "unindexed"] /\ UNCHANGED <<copy, errors>>
       \/ /\ body' = [body EXCEPT ![f] = "gone"] /\ copy' = copy \ {f}
          /\ \/ Fault(f)
             \/ f \in Copied \ copy /\ UNCHANGED errors
    /\ UNCHANGED <<row, age, preview, flight, job, view, scan, removal, views>>

Enqueued(f) == IF f \in Media THEN [job EXCEPT ![f] = "queued"] ELSE job

(* The row, and the job in memory; that the object is still there is not   *)
(* asked.  An error removes the object again, or fails to.                 *)
Index(f) ==
    /\ body[f] \in {"unindexed", "taken"}
    /\ \/ /\ body' = [body EXCEPT ![f] = IF @ = "taken" THEN "gone" ELSE "stored"]
          /\ job' = Enqueued(f)
          /\ \E d \in Folders :
                row' = [row EXCEPT ![f] = [there |-> TRUE, folder |-> {d},
                                    status |-> IF f \in Media THEN "queued" ELSE "not_required",
                                    preview |-> FALSE]]
          /\ UNCHANGED <<copy, errors>>
       \/ /\ Fault(f)
          /\ \/ body' = [body EXCEPT ![f] = "gone"]
             \/ body[f] = "unindexed" /\ body' = [body EXCEPT ![f] = "lost"]
          /\ copy' = copy \ {f} /\ UNCHANGED <<row, job>>
    /\ UNCHANGED <<age, preview, flight, view, scan, removal, views>>

(* The row of f has been read by the clean-up under way, if there is one.  *)
Seen(f) == row[f].there /\ (scan.at = "rows" => f \in scan.known)

(* Ten minutes pass, whoever still needs the file.                         *)
Ages(f) ==
    /\ f \notin old
    /\ IF f \in Copied THEN f \in copy
       ELSE body[f] \in {"temporary", "unindexed", "stored", "lost"}
    /\ old' = old \cup {f}
    /\ overdue' = IF Seen(f) THEN overdue ELSE overdue \cup {f}
    /\ UNCHANGED <<row, body, media, scan, removal, errors, views>>

(* Moving a file, and a folder with all its files, changes rows only.  That *)
(* the target is free is read before, so it may be taken at the update.    *)
Move(f) ==
    /\ row[f].there
    /\ \E d \in Folders : {d} # row[f].folder /\ Put(f, "folder", {d})
    /\ UNCHANGED <<body, age, media, scan, removal, errors, views>>

MoveFolder ==
    /\ \E a, b \in Folders :
          /\ a # b /\ \E f \in Known : row[f].folder = {a}
          /\ row' = [f \in Files |-> IF row[f].folder = {a}
                                     THEN [row[f] EXCEPT !.folder = {b}]
                                     ELSE row[f]]
    /\ UNCHANGED <<body, age, media, scan, removal, errors, views>>

-----------------------------------------------------------------------------
(* Derivatives.                                                            *)

Source(f) == IF f \in Copied THEN "copy" ELSE "object"
Readable(f, from) ==
    IF from = "copy" THEN f \in copy ELSE body[f] \in {"stored", "unindexed"}

(* processJob: the claim; one job runs at a time.                          *)
ClaimJob(f) ==
    /\ job[f] = "queued" /\ \A g \in Files : job[g] \in {"none", "queued"}
    /\ IF row[f].there /\ row[f].status = "queued"
       THEN job' = [job EXCEPT ![f] = "thumbnail"] /\ Put(f, "status", "processing")
       ELSE job' = [job EXCEPT ![f] = "none"] /\ UNCHANGED row
    /\ UNCHANGED <<body, age, copy, preview, flight, view, scan, removal,
                   errors, views>>

(* The thumbnail and the dimensions, or an error of either.                *)
Thumbnail(f) ==
    /\ job[f] = "thumbnail"
    /\ \/ Readable(f, Source(f)) /\ job' = [job EXCEPT ![f] = "preview"]
          /\ UNCHANGED errors
       \/ ~Readable(f, Source(f)) /\ job' = [job EXCEPT ![f] = "fail"]
          /\ UNCHANGED errors
       \/ Fault(f) /\ job' = [job EXCEPT ![f] = "fail"]
    /\ UNCHANGED <<row, body, age, copy, preview, flight, view, scan, removal,
                   views>>

(* generateMediaPreview: one flight per file, which later consumers join.  *)
Fly(f, from) ==
    flight' = IF flight[f].at = "none"
              THEN [flight EXCEPT ![f] = [at |-> "look", from |-> from]]
              ELSE flight

AskPreview(f) ==
    /\ job[f] = "preview" /\ job' = [job EXCEPT ![f] = "waits"]
    /\ Fly(f, Source(f))
    /\ UNCHANGED <<row, body, age, copy, preview, view, scan, removal, errors,
                   views>>

(* Mutant of Deadline: the job fails at once.                              *)
DeadlineAtOnce(f) ==
    /\ job[f] = "waits" /\ Fault(f)
    /\ job' = [job EXCEPT ![f] = "fail"]
    /\ UNCHANGED <<row, body, age, copy, preview, flight, view, scan, removal,
                   views>>

(* The deadline of a job: it fails, but only when the flight has settled.  *)
Deadline(f) ==
    /\ job[f] = "waits" /\ Fault(f)
    /\ job' = [job EXCEPT ![f] = "late"]
    /\ UNCHANGED <<row, body, age, copy, preview, flight, view, scan, removal,
                   views>>

(* GET /:id/preview makes a missing preview of a local file.               *)
View(f) ==
    /\ view[f] = "none" /\ views < MaxViews /\ views' = views + 1
    /\ f \in Media \ Copied /\ row[f].there /\ body[f] = "stored"
    /\ (~row[f].preview \/ preview[f] = "none")
    /\ view' = [view EXCEPT ![f] = "waits"] /\ Fly(f, "object")
    /\ UNCHANGED <<row, body, age, copy, preview, job, scan, removal, errors>>

(* Mutant of Landed: only a finished preview is told.                      *)
LandedQuietly(f, made) ==
    /\ flight' = [flight EXCEPT ![f] = NoFlight]
    /\ view' = [view EXCEPT ![f] =
          IF @ # "waits" THEN @ ELSE IF made THEN "record" ELSE "none"]
    /\ job' = [job EXCEPT ![f] =
          IF ~made THEN @ ELSE IF @ = "late" THEN "fail"
          ELSE IF @ = "waits" THEN "record" ELSE @]

(* The flight has ended, with a file or without; whoever joined it goes on.*)
Landed(f, made) ==
    /\ flight' = [flight EXCEPT ![f] = NoFlight]
    /\ view' = [view EXCEPT ![f] =
          IF @ # "waits" THEN @ ELSE IF made THEN "record" ELSE "none"]
    /\ job' = [job EXCEPT ![f] =
          IF @ = "late" THEN "fail"
          ELSE IF @ # "waits" THEN @ ELSE IF made THEN "record" ELSE "fail"]

(* The source must be there.  A preview that is there is taken, and its    *)
(* time renewed; an original the browser can show needs none.              *)
Look(f) ==
    /\ flight[f].at = "look"
    /\ IF ~Readable(f, flight[f].from) THEN Landed(f, FALSE) /\ UNCHANGED preview
       ELSE IF preview[f] # "none"
       THEN Landed(f, TRUE) /\ preview' = [preview EXCEPT ![f] = "fresh"]
       ELSE /\ flight' = [flight EXCEPT ![f].at = "make"]
            /\ UNCHANGED <<preview, job, view>>
    /\ UNCHANGED <<row, body, age, copy, scan, removal, errors, views>>

(* Rename of the finished part, under the path that counts as active.      *)
Make(f) ==
    /\ flight[f].at = "make"
    /\ \/ /\ Readable(f, flight[f].from) /\ Landed(f, TRUE)
          /\ preview' = [preview EXCEPT ![f] = "fresh"] /\ UNCHANGED errors
       \/ /\ ~Readable(f, flight[f].from) /\ Landed(f, FALSE)
          /\ UNCHANGED <<preview, errors>>
       \/ /\ job[f] = "late" /\ view[f] # "waits"
          /\ Landed(f, FALSE) /\ UNCHANGED <<preview, errors>>
       \/ Fault(f) /\ Landed(f, FALSE) /\ UNCHANGED preview
    /\ UNCHANGED <<row, body, age, copy, scan, removal, views>>

Recorded(f) ==
    IF row[f].there THEN [row EXCEPT ![f].preview = TRUE] ELSE row

RecordView(f) ==
    /\ view[f] = "record" /\ view' = [view EXCEPT ![f] = "none"]
    /\ \/ row' = Recorded(f) /\ UNCHANGED errors
       \/ Fault(f) /\ UNCHANGED row
    /\ UNCHANGED <<body, age, copy, preview, flight, job, scan, removal, views>>

(* The last update of a job; the copy is removed whether it succeeded.     *)
RecordJob(f) ==
    /\ job[f] = "record"
    /\ \/ /\ row' = IF row[f].there
                    THEN [row EXCEPT ![f].preview = TRUE, ![f].status = "ready"]
                    ELSE row
          /\ job' = [job EXCEPT ![f] = "none"] /\ copy' = copy \ {f}
          /\ UNCHANGED errors
       \/ Fault(f) /\ job' = [job EXCEPT ![f] = "fail"] /\ UNCHANGED <<row, copy>>
    /\ UNCHANGED <<body, age, preview, flight, view, scan, removal, views>>

FailJob(f) ==
    /\ job[f] = "fail" /\ job' = [job EXCEPT ![f] = "none"]
    /\ copy' = copy \ {f}
    /\ \/ row' = (IF row[f].there THEN [row EXCEPT ![f].status = "failed"] ELSE row)
          /\ UNCHANGED errors
       \/ Fault(f) /\ UNCHANGED row
    /\ UNCHANGED <<body, age, preview, flight, view, scan, removal, views>>

(* A day passes, in which nothing of the file is under way.                *)
PreviewAges(f) ==
    /\ preview[f] = "fresh" /\ flight[f].at = "none"
    /\ job[f] # "record" /\ view[f] # "record" /\ scan.at # "unlink"
    /\ preview' = [preview EXCEPT ![f] = "old"]
    /\ UNCHANGED <<row, body, age, copy, flight, job, view, scan, removal,
                   errors, views>>

-----------------------------------------------------------------------------
(* Deletion.                                                               *)

(* A preview of a deletion shows the files of a folder, or chosen ones.    *)
Confirm ==
    /\ deletes < MaxDeletes /\ token = {}
    /\ token' \in {{f} : f \in Known} \cup
          {{f \in Known : row[f].folder = {d}} : d \in Folders}
    /\ UNCHANGED <<row, body, age, media, scan, doomed, erase, deletes, errors,
                   views>>

Deleting(S) ==
    [todo |-> S, at |-> "next", named |-> {f \in S : row[f].preview}]

(* Mutant of Erase: the folders of the preview are read again.             *)
EraseFolders ==
    /\ token # {} /\ erase = NoErase
    /\ erase' = Deleting({f \in Known : \E g \in token :
                              row[g].folder = row[f].folder})
    /\ doomed' = doomed \cup token /\ token' = {} /\ deletes' = deletes + 1
    /\ UNCHANGED <<row, body, age, media, scan, errors, views>>

(* The token is used up; what is deleted are the files that were shown.    *)
Erase ==
    /\ token # {} /\ erase = NoErase
    /\ erase' = Deleting(token \cap Known)
    /\ doomed' = doomed \cup token /\ token' = {} /\ deletes' = deletes + 1
    /\ UNCHANGED <<row, body, age, media, scan, errors, views>>

Lapse ==
    /\ token # {} /\ token' = {}
    /\ UNCHANGED <<row, body, age, media, scan, doomed, erase, deletes, errors,
                   views>>

Current(f) == f = CHOOSE g \in erase.todo : TRUE
Erased(f) ==
    erase' = [erase EXCEPT !.todo = @ \ {f}, !.at = "next", !.named = @ \ {f}]

(* deleteIndexedFile: the object, and the preview the row named when the   *)
(* request read it; an error keeps the row.                                *)
Unlink(f) ==
    /\ erase.at = "next" /\ erase.todo # {} /\ Current(f)
    /\ \/ /\ body' = [body EXCEPT ![f] = "gone"]
          /\ preview' = [preview EXCEPT ![f] = IF f \in erase.named THEN "none" ELSE @]
          /\ erase' = [erase EXCEPT !.at = "row"] /\ UNCHANGED errors
       \/ /\ Fault(f) /\ Erased(f)
          /\ body' \in {body, [body EXCEPT ![f] = "gone"]} /\ UNCHANGED preview
    /\ UNCHANGED <<row, age, copy, flight, job, view, scan, token, doomed,
                   deletes, views>>

DropRow(f) ==
    /\ erase.at = "row" /\ Current(f) /\ Erased(f)
    /\ \/ row' = [row EXCEPT ![f] = NoRow] /\ UNCHANGED errors
       \/ Fault(f) /\ UNCHANGED row
    /\ UNCHANGED <<body, age, media, scan, token, doomed, deletes, views>>

EndErase ==
    /\ erase.at = "next" /\ erase.todo = {} /\ erase' = NoErase
    /\ UNCHANGED <<row, body, age, media, scan, token, doomed, deletes, errors,
                   views>>

-----------------------------------------------------------------------------
(* Clean-up, one run at a time.                                            *)

(* runCleanup reads the rows of the files of the upload directory, and then *)
(* notes the time it compares with.                                        *)
ReadRows ==
    /\ scan.at = "idle"
    /\ scan' = [NoScan EXCEPT !.at = "rows", !.known = Known \ Copied]
    /\ UNCHANGED <<row, body, age, media, removal, errors, views>>

NoteTime ==
    /\ scan.at = "rows"
    /\ scan' = [scan EXCEPT !.at = "objects", !.old = old, !.todo = Files]
    /\ UNCHANGED <<row, body, age, media, removal, errors, views>>

Judged(f) == scan' = [scan EXCEPT !.todo = @ \ {f}]

(* Mutant of Orphan: no protected time.                                    *)
OrphanAtOnce(f) == f \notin scan.known

Orphan(f) == f \notin scan.known /\ f \in scan.old

(* What is on the disk of f: the object, or, of a file stored elsewhere,   *)
(* the copy, which no row protects.  A writer does not notice at once.     *)
TakeObject(f) ==
    body' = [body EXCEPT ![f] =
        CASE @ = "temporary" -> IF f \in Bare THEN "gone" ELSE @
          [] @ = "unindexed" -> "taken"
          [] @ \in {"stored", "lost"} -> "gone"
          [] OTHER -> @]

ScanObject(f) ==
    /\ scan.at = "objects" /\ f \in scan.todo /\ Judged(f)
    /\ IF ~Orphan(f) THEN UNCHANGED <<body, copy>>
       ELSE IF f \in Copied
       THEN copy' = (IF f \in Bare THEN copy \ {f} ELSE copy) /\ UNCHANGED body
       ELSE TakeObject(f) /\ UNCHANGED copy
    /\ UNCHANGED <<row, age, preview, flight, job, view, removal, errors, views>>

ScanPreviews ==
    /\ scan.at = "objects" /\ scan.todo = {}
    /\ scan' = [scan EXCEPT !.at = "previews", !.todo = Files]
    /\ UNCHANGED <<row, body, age, media, removal, errors, views>>

Active(f) == flight[f].at # "none"
Stale(f) == preview[f] = "old" /\ ~Active(f)

(* cleanupPreviewOrphans: old, not active, not named by a row; the last    *)
(* is asked, and age and activity are looked at again before the unlink.   *)
ScanPreview(f) ==
    /\ scan.at = "previews" /\ f \in scan.todo
    /\ IF Stale(f) /\ ~row[f].preview
       THEN scan' = [scan EXCEPT !.at = "unlink", !.old = {f}]
       ELSE Judged(f)
    /\ UNCHANGED <<row, body, age, media, removal, errors, views>>

UnlinkPreview(f) ==
    /\ scan.at = "unlink" /\ scan.old = {f}
    /\ scan' = [scan EXCEPT !.at = "previews", !.todo = @ \ {f}]
    /\ preview' = [preview EXCEPT ![f] = IF Stale(f) THEN "none" ELSE @]
    /\ UNCHANGED <<row, body, age, copy, flight, job, view, removal, errors,
                   views>>

EndScan ==
    /\ scan.at = "previews" /\ scan.todo = {} /\ scan' = NoScan
    /\ UNCHANGED <<row, body, age, media, removal, errors, views>>

-----------------------------------------------------------------------------
(* A crash, and the start after it: recoverMediaDerivativeJobs.            *)

Crash ==
    /\ Trouble
    /\ body' = [f \in Files |-> IF body[f] \in {"temporary", "unindexed"} THEN "lost"
                                ELSE IF body[f] = "taken" THEN "gone" ELSE body[f]]
    /\ row' = [f \in Files |-> IF row[f].status = "processing"
                  THEN [row[f] EXCEPT !.status = "queued"] ELSE row[f]]
    /\ flight' = [f \in Files |-> NoFlight]
    /\ view' = [f \in Files |-> "none"]
    /\ \E S \in SUBSET {f \in Files : row'[f].status = "queued"} :
          /\ Cardinality(S) <= RecoverLimit
          /\ \A f \in Files : row'[f].status = "queued" /\ f \notin S =>
                                  Cardinality(S) = RecoverLimit
          /\ job' = [f \in Files |-> IF f \in S THEN "queued" ELSE "none"]
    /\ scan' = NoScan /\ token' = {} /\ erase' = NoErase
    /\ UNCHANGED <<age, copy, preview, doomed, failed, deletes, views>>

Init ==
    /\ row = [f \in Files |-> NoRow] /\ body = [f \in Files |-> "none"]
    /\ old = {} /\ overdue = {} /\ copy = {} /\ preview = [f \in Files |-> "none"]
    /\ flight = [f \in Files |-> NoFlight]
    /\ job = [f \in Files |-> "none"] /\ view = [f \in Files |-> "none"]
    /\ scan = NoScan /\ token = {} /\ doomed = {} /\ erase = NoErase
    /\ failed = {} /\ faults = 0 /\ deletes = 0 /\ views = 0

Derive(f) ==
    \/ ClaimJob(f) \/ Thumbnail(f) \/ AskPreview(f) \/ Look(f) \/ Make(f)
    \/ RecordView(f) \/ RecordJob(f) \/ FailJob(f)

Next ==
    \/ \E f \in Files :
          \/ Receive(f) \/ Save(f) \/ Index(f) \/ Ages(f) \/ Move(f)
          \/ Derive(f) \/ Deadline(f) \/ View(f) \/ PreviewAges(f)
          \/ Unlink(f) \/ DropRow(f)
          \/ ScanObject(f) \/ ScanPreview(f) \/ UnlinkPreview(f)
    \/ MoveFolder \/ Confirm \/ Erase \/ Lapse \/ EndErase
    \/ ReadRows \/ NoteTime \/ ScanPreviews \/ EndScan \/ Crash

Spec == Init /\ [][Next]_vars

(* Jobs and flights go on.                                                 *)
Fairness == \A f \in Files : WF_vars(Derive(f))

-----------------------------------------------------------------------------
(* Properties.                                                             *)

TypeOK ==
    /\ row \in [Files -> [there : BOOLEAN, folder : SUBSET Folders,
          status : {"none", "queued", "processing", "ready", "failed",
                    "not_required"},
          preview : BOOLEAN]]
    /\ \A f \in Files : row[f].there \/ row[f] = NoRow
    /\ body \in [Files -> {"none", "temporary", "unindexed", "taken", "stored",
                       "lost", "gone"}]
    /\ preview \in [Files -> {"none", "fresh", "old"}]
    /\ old \subseteq Files /\ overdue \subseteq Files /\ copy \subseteq Copied
    /\ token \subseteq Files /\ doomed \subseteq Files
    /\ failed \subseteq Files

(* What a clean-up may take while it is needed: an object of the upload    *)
(* directory that was older than the protected time before its row could   *)
(* be read, and a copy of that age that lies in that directory.            *)
Exposed(f) == IF f \in Copied THEN f \in Bare \cap old ELSE f \in overdue

(* A row has its object, unless a deletion of the file was confirmed, or   *)
(* its writing took longer than the protected time.                        *)
RowsHaveObjects ==
    \A f \in Known :
        \/ body[f] = "stored"
        \/ f \in doomed
        \/ f \notin Copied /\ Exposed(f)

(* The preview a row names is on the disk, unless a deletion was confirmed.*)
PreviewsUsable ==
    \A f \in Known : row[f].preview => preview[f] # "none" \/ f \in doomed

(* A flight that reads the copy of a file still has it, however often the  *)
(* job was taken up again, unless the copy lies in the upload directory    *)
(* and grew old.                                                           *)
SourceOutlivesReaders ==
    \A f \in Files :
        flight[f].at = "make" /\ flight[f].from = "copy" => f \in copy \/ Exposed(f)

(* The derivatives of a file fail only when an operation on it failed, its *)
(* deletion was confirmed, or a clean-up could take what they are made     *)
(* from: a restart alone makes none fail.                                  *)
FailuresHaveCauses ==
    \A f \in Files :
        row[f].status = "failed" => f \in failed \/ f \in doomed \/ Exposed(f)

(* Files and previews are removed only when nobody needs them: neither a   *)
(* clean-up, nor a crash, nor a deletion that showed other files, takes    *)
(* the object or the preview of a row or what a derivative is made from,   *)
(* but for what a file's age exposes.                                      *)
NothingNeededGoes ==
    RowsHaveObjects /\ PreviewsUsable /\ SourceOutlivesReaders /\ FailuresHaveCauses

(* Every queued job ends, through deadlines, failures, restarts and the    *)
(* loss of its source.                                                     *)
DerivativesEnd ==
    \A f \in Files : []<>(job[f] = "none")
=============================================================================

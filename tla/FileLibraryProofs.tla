------------------------- MODULE FileLibraryProofs -------------------------
(***************************************************************************)
(* Proofs about FileLibrary.  Objects, previews and copies are removed by  *)
(* a clean-up that read the rows some time before, by deletions that read  *)
(* them before, and by jobs.  The inductive invariant says why nothing     *)
(* needed goes: what the clean-up takes for an orphan is over for good or  *)
(* grew old before its row could be read, a preview about to be recorded   *)
(* is fresh, and the copy of a file lasts until the flight that reads it   *)
(* has landed, or else is old and lies where the clean-up looks.           *)
(*                                                                         *)
(* The second part is about OrdinaryTransfers, the files that are sent to  *)
(* the bot.  It has nothing to do with FileLibrary but its set of files.   *)
(* Handlers, workers and the recovery hold a file in turn: the inductive   *)
(* invariant says who holds it, and what may be in the storage of a file   *)
(* that nobody holds.                                                      *)
(***************************************************************************)
EXTENDS FileLibrary, Sequences, FiniteSetTheorems, SequenceTheorems, TLAPS

CONSTANTS Album, Prepared, MaxArrivals, MaxTasks, MaxControls, MaxTroubles

(* transfer is the row of the task, added counts the tasks.                *)
VARIABLES
    transfer, ref, path, objects, hand, queues, current, timer, batch, group,
    tasks, failures, news, pass, late, twice, torn,
    arrivals, added, controls, troubles

Sent == INSTANCE OrdinaryTransfers WITH row <- transfer, made <- added

-----------------------------------------------------------------------------
(* The parts of the invariant.                                             *)

Flights == [at : {"none", "look", "make"}, from : {"none", "copy", "object"}]
Scans ==
    [at : {"idle", "rows", "objects", "previews", "unlink"}, known : SUBSET Files,
     old : SUBSET Files, todo : SUBSET Files]
Erasures ==
    [todo : SUBSET Files, at : {"idle", "next", "row"}, named : SUBSET Files]

(* The program's own variables.                                            *)
MemoryTyped ==
    /\ flight \in [Files -> Flights]
    /\ job \in [Files -> {"none", "queued", "thumbnail", "preview", "waits", "late",
                         "record", "fail"}]
    /\ view \in [Files -> {"none", "waits", "record"}]
    /\ scan \in Scans /\ erase \in Erasures

(* A file before its row has neither row nor job; one that is stored has   *)
(* its row.                                                                *)
Writing == {"temporary", "unindexed"}
Early == Writing \cup {"none", "taken"}
Over == {"lost", "gone"}

RowsFollowObjects ==
    \A f \in Files :
        /\ body[f] \in Early => ~row[f].there /\ job[f] = "none"
        /\ body[f] = "stored" => row[f].there

(* What is deleted was confirmed, and the row goes after the object.       *)
ErasesConfirmed ==
    /\ erase.todo \subseteq doomed
    /\ erase.at = "row" =>
           /\ erase.todo # {}
           /\ \A f \in Files : Current(f) => body[f] = "gone"

(* An object taken from its writer was overdue.                            *)
TakenIsOverdue ==
    \A f \in Files : body[f] = "taken" => f \in overdue /\ f \notin Copied

(* A file grew old with its row, or without one and is overdue.            *)
OldIsSettled ==
    \A f \in old : f \in Copied \/ body[f] \in Over \cup {"stored"} \/ f \in overdue

(* Of an object the clean-up takes for an orphan nothing is needed any     *)
(* more, or it is overdue.                                                 *)
Spare(f) == f \in Copied \/ body[f] \in Over \/ f \in overdue

OrphansAreOver ==
    /\ scan.at = "rows" => \A f \in old : f \notin scan.known => Spare(f)
    /\ scan.at = "objects" =>
           /\ scan.old \subseteq old
           /\ \A f \in scan.old : f \notin scan.known => Spare(f)

(* A preview about to be recorded is fresh, and one the clean-up is about  *)
(* to remove is in no row.                                                 *)
RecordedIsFresh ==
    \A f \in Files : job[f] = "record" \/ view[f] = "record" =>
        preview[f] = "fresh" \/ f \in doomed

UnlinkedIsUnnamed ==
    scan.at = "unlink" =>
        \A f \in scan.old : preview[f] = "old" => ~row[f].preview \/ f \in doomed

(* Why the derivatives of a file may fail.                                 *)
Excused(f) == f \in failed \/ f \in doomed \/ Exposed(f)
Waiting == {"queued", "processing"}

(* A job has a row, and, from the thumbnail to the end of the flight that  *)
(* reads it, the copy; a flight reads what the job of its file would, and  *)
(* only a job reads a copy.                                                *)
JobsKeepCopies ==
    \A f \in Files :
        /\ job[f] # "none" => row[f].there \/ f \in doomed
        /\ job[f] \in {"preview", "waits", "late"} /\ f \in Copied =>
               f \in copy \/ Exposed(f)
        /\ flight[f].at # "none" => flight[f].from = Source(f)
        /\ flight[f].at # "none" /\ flight[f].from = "copy" =>
               job[f] \in {"waits", "late"}

(* A copy is there from the first byte written to the end of its job.      *)
CopiesWait ==
    \A f \in Copied \cap Files :
        /\ body[f] \in Writing => f \in copy \/ Exposed(f)
        /\ row[f].status \in Waiting \/ job[f] = "thumbnail" => f \in copy \/ Excused(f)

(* A job that is about to fail is excused.                                 *)
FailuresExcused ==
    \A f \in Files : /\ job[f] = "late" => f \in failed
                     /\ job[f] = "fail" => Excused(f)

IInv ==
    /\ TypeOK /\ MemoryTyped /\ NothingNeededGoes /\ RowsFollowObjects
    /\ ErasesConfirmed /\ TakenIsOverdue /\ OldIsSettled /\ OrphansAreOver
    /\ RecordedIsFresh /\ UnlinkedIsUnnamed /\ JobsKeepCopies /\ CopiesWait
    /\ FailuresExcused

-----------------------------------------------------------------------------
(* Types.                                                                  *)

Bodies == {"none", "temporary", "unindexed", "taken", "stored", "lost", "gone"}
Jobs == {"none", "queued", "thumbnail", "preview", "waits", "late", "record", "fail"}
Rows ==
    [there : BOOLEAN, folder : SUBSET Folders,
     status : {"none", "queued", "processing", "ready", "failed", "not_required"},
     preview : BOOLEAN]

(* Rows of the table, and the row that is not there.                       *)
RowTyped == {r \in Rows : r.there \/ r = NoRow}

LEMMA Typed ==
    TypeOK <=> /\ row \in [Files -> RowTyped] /\ body \in [Files -> Bodies]
               /\ preview \in [Files -> {"none", "fresh", "old"}]
               /\ old \subseteq Files /\ overdue \subseteq Files
               /\ copy \subseteq Copied /\ token \subseteq Files
               /\ doomed \subseteq Files /\ failed \subseteq Files
  BY DEF TypeOK, RowTyped, Rows, Bodies

LEMMA RowTypes ==
    ASSUME TypeOK, [Next]_vars
    PROVE  row' \in [Files -> RowTyped]
<1>1. row \in [Files -> RowTyped]
  BY Typed
<1>2. \A r \in RowTyped : r.there =>
          /\ \A d \in Folders : [r EXCEPT !.folder = {d}] \in RowTyped
          /\ \A s \in {"queued", "processing", "ready", "failed"} :
                 [r EXCEPT !.status = s] \in RowTyped
          /\ [r EXCEPT !.preview = TRUE] \in RowTyped
          /\ [r EXCEPT !.preview = TRUE, !.status = "ready"] \in RowTyped
  BY DEF RowTyped, Rows
<1>3. NoRow \in RowTyped
  BY DEF RowTyped, Rows, NoRow
<1>4. ASSUME NEW f \in Files, NEW r \in RowTyped, row' = [row EXCEPT ![f] = r]
      PROVE  row' \in [Files -> RowTyped]
  BY <1>1, <1>4
<1>5. CASE UNCHANGED row
  BY <1>1, <1>5
<1>6. ASSUME NEW f \in Files, Index(f) PROVE row' \in [Files -> RowTyped]
  BY <1>4, <1>5, <1>6 DEF RowTyped, Rows, Index
<1>7. ASSUME NEW f \in Files, Move(f) PROVE row' \in [Files -> RowTyped]
  BY <1>7, <1>1, <1>2, <1>4 DEF Move, Put
<1>8. ASSUME NEW f \in Files, ClaimJob(f) PROVE row' \in [Files -> RowTyped]
  BY <1>1, <1>2, <1>4, <1>5, <1>8 DEF ClaimJob, Put
<1>9. ASSUME NEW f \in Files, RecordView(f) \/ RecordJob(f) \/ FailJob(f)
      PROVE  row' \in [Files -> RowTyped]
  <2>1. row[f].there =>
            /\ [row[f] EXCEPT !.preview = TRUE] \in RowTyped
            /\ [row[f] EXCEPT !.preview = TRUE, !.status = "ready"] \in RowTyped
            /\ [row[f] EXCEPT !.status = "failed"] \in RowTyped
    BY <1>1, <1>2
  <2>2. CASE RecordView(f) \/ FailJob(f)
    BY <1>4, <1>5, <2>1, <2>2 DEF RecordView, FailJob, Recorded
  <2>3. CASE RecordJob(f)
    BY <1>1, <2>3, <1>4, <1>5, <2>1 DEF RecordJob
  <2>4. QED
    BY <1>9, <2>2, <2>3
<1>10. ASSUME NEW f \in Files, DropRow(f) PROVE row' \in [Files -> RowTyped]
  BY <1>3, <1>4, <1>5, <1>10 DEF DropRow
<1>11. CASE MoveFolder
  <2>1. PICK a \in Folders, b \in Folders :
            row' = [f \in Files |-> IF row[f].folder = {a}
                                    THEN [row[f] EXCEPT !.folder = {b}]
                                    ELSE row[f]]
    BY <1>11 DEF MoveFolder
  <2>2. ASSUME NEW f \in Files, row[f].folder = {a}
        PROVE  [row[f] EXCEPT !.folder = {b}] \in RowTyped
    <3>1. row[f] \in RowTyped /\ row[f] # NoRow
      BY <1>1, <2>2 DEF NoRow
    <3>2. QED
      BY <1>2, <3>1 DEF RowTyped
  <2>3. QED
    BY <1>1, <2>1, <2>2
<1>12. CASE Crash
  <2>1. ASSUME NEW f \in Files, row[f].status = "processing"
        PROVE  [row[f] EXCEPT !.status = "queued"] \in RowTyped
    <3>1. row[f] \in RowTyped /\ row[f] # NoRow
      BY <1>1, <2>1 DEF NoRow
    <3>2. QED
      BY <1>2, <3>1 DEF RowTyped
  <2>2. QED
    BY <1>1, <1>12, <2>1 DEF Crash
<1>13. ASSUME NEW f \in Files,
              \/ Receive(f) \/ Save(f) \/ Ages(f) \/ Thumbnail(f) \/ AskPreview(f)
              \/ Look(f) \/ Make(f) \/ Deadline(f) \/ View(f) \/ PreviewAges(f)
              \/ Unlink(f) \/ ScanObject(f) \/ ScanPreview(f) \/ UnlinkPreview(f)
       PROVE  row' \in [Files -> RowTyped]
  BY <1>5, <1>13
  DEF Receive, Save, Ages, Thumbnail, AskPreview, Look, Make, Deadline, View,
      PreviewAges, Unlink, ScanObject, ScanPreview, UnlinkPreview
<1>14. CASE \/ Confirm \/ Erase \/ Lapse \/ EndErase \/ ReadRows \/ NoteTime \/ ScanPreviews
            \/ EndScan \/ UNCHANGED vars
  BY <1>5, <1>14
  DEF Confirm, Erase, Lapse, EndErase, ReadRows, NoteTime, ScanPreviews, EndScan, vars
<1>15. QED
  BY <1>6, <1>7, <1>8, <1>9, <1>10, <1>11, <1>12, <1>13, <1>14 DEF Next, Derive

LEMMA ObjectTypes ==
    ASSUME TypeOK, [Next]_vars
    PROVE  /\ body' \in [Files -> Bodies]
           /\ preview' \in [Files -> {"none", "fresh", "old"}]
           /\ old' \subseteq Files /\ overdue' \subseteq Files
           /\ failed' \subseteq Files /\ copy' \subseteq Copied
<1> DEFINE Goal == /\ body' \in [Files -> Bodies]
                   /\ preview' \in [Files -> {"none", "fresh", "old"}]
                   /\ old' \subseteq Files /\ overdue' \subseteq Files
                   /\ failed' \subseteq Files /\ copy' \subseteq Copied
<1>1. /\ body \in [Files -> Bodies] /\ preview \in [Files -> {"none", "fresh", "old"}]
      /\ old \subseteq Files /\ overdue \subseteq Files /\ failed \subseteq Files
      /\ copy \subseteq Copied
  BY Typed
<1>2. ASSUME NEW f \in Files, Receive(f) \/ Save(f) \/ Ages(f) PROVE Goal
  BY <1>1, <1>2 DEF Receive, Save, Ages, media, age, errors, Fault, Bodies
<1>3. ASSUME NEW f \in Files, Index(f) PROVE Goal
  BY <1>1, <1>3 DEF Index, age, errors, Fault, Bodies
<1>4. ASSUME NEW f \in Files, Look(f) \/ Make(f) PROVE Goal
  BY <1>1, <1>4 DEF Look, Make, age, errors, Fault
<1>5. ASSUME NEW f \in Files,
             RecordJob(f) \/ FailJob(f) \/ PreviewAges(f) \/ Unlink(f)
      PROVE  Goal
  BY <1>1, <1>5 DEF RecordJob, FailJob, PreviewAges, Unlink, age, errors, Fault, Bodies
<1>6. ASSUME NEW f \in Files, ScanObject(f) \/ UnlinkPreview(f) PROVE Goal
  BY <1>1, <1>6 DEF ScanObject, TakeObject, UnlinkPreview, age, errors, Bodies
<1>7. CASE Crash
  BY <1>1, <1>7 DEF Crash, age, Bodies
<1>8. CASE /\ UNCHANGED <<body, preview, age, copy>>
           /\ failed' = failed \/ \E f \in Files : failed' = failed \cup {f}
  BY <1>1, <1>8 DEF age
<1>9. ASSUME NEW f \in Files,
             \/ Move(f) \/ ClaimJob(f) \/ Thumbnail(f) \/ AskPreview(f) \/ RecordView(f)
             \/ Deadline(f) \/ View(f) \/ DropRow(f) \/ ScanPreview(f)
      PROVE  Goal
  BY <1>8, <1>9
  DEF Move, ClaimJob, Thumbnail, AskPreview, RecordView, Deadline, View, DropRow,
      ScanPreview, media, errors, Fault
<1>10. CASE \/ MoveFolder \/ Confirm \/ Erase \/ Lapse \/ EndErase \/ ReadRows
            \/ NoteTime \/ ScanPreviews \/ EndScan \/ UNCHANGED vars
  BY <1>8, <1>10
  DEF MoveFolder, Confirm, Erase, Lapse, EndErase, ReadRows, NoteTime, ScanPreviews, EndScan,
      vars, media, errors
<1>11. QED
  BY <1>2, <1>3, <1>4, <1>5, <1>6, <1>7, <1>9, <1>10 DEF Next, Derive

LEMMA MemoryTypes ==
    ASSUME TypeOK, MemoryTyped, [Next]_vars
    PROVE  MemoryTyped'
<1>1. /\ flight \in [Files -> Flights] /\ job \in [Files -> Jobs]
      /\ view \in [Files -> {"none", "waits", "record"}]
      /\ scan \in Scans /\ erase \in Erasures
      /\ token \subseteq Files /\ old \subseteq Files
  BY Typed DEF MemoryTyped, Jobs
<1>2. CASE UNCHANGED <<flight, job, view, scan, erase>>
  BY <1>1, <1>2 DEF MemoryTyped, Jobs
<1>3. ASSUME NEW f \in Files, Index(f) \/ ClaimJob(f) \/ Thumbnail(f) \/ Deadline(f)
      PROVE  MemoryTyped'
  BY <1>1, <1>3
  DEF Index, ClaimJob, Thumbnail, Deadline, Enqueued, removal, MemoryTyped, Jobs
<1>4. ASSUME NEW f \in Files, NEW from \in {"copy", "object"}, Fly(f, from)
      PROVE  flight' \in [Files -> Flights]
  BY <1>1, <1>4 DEF Flights, Fly
<1>5. ASSUME NEW f \in Files, AskPreview(f) \/ View(f) PROVE MemoryTyped'
  BY <1>1, <1>4, <1>5 DEF AskPreview, View, Source, removal, MemoryTyped, Jobs
<1>6. ASSUME NEW f \in Files, NEW made \in BOOLEAN, Landed(f, made)
      PROVE  /\ flight' \in [Files -> Flights] /\ job' \in [Files -> Jobs]
             /\ view' \in [Files -> {"none", "waits", "record"}]
  BY <1>1, <1>6 DEF NoFlight, Flights, Landed, Jobs
<1>7. ASSUME NEW f \in Files, Look(f) \/ Make(f) PROVE MemoryTyped'
  BY <1>1, <1>7, <1>6 DEF Flights, Look, Make, removal, MemoryTyped, Jobs
<1>8. ASSUME NEW f \in Files, RecordView(f) \/ RecordJob(f) \/ FailJob(f)
      PROVE  MemoryTyped'
  BY <1>1, <1>8 DEF RecordView, RecordJob, FailJob, removal, MemoryTyped, Jobs
<1>9. ASSUME NEW f \in Files, Unlink(f) \/ DropRow(f) PROVE MemoryTyped'
  <2>1. /\ \A a \in {"next", "row"} : [erase EXCEPT !.at = a] \in Erasures
        /\ [erase EXCEPT !.todo = @ \ {f}, !.at = "next", !.named = @ \ {f}]
               \in Erasures
    BY <1>1 DEF Erasures
  <2>2. erase' \in Erasures /\ UNCHANGED <<flight, job, view, scan>>
    BY <1>9, <2>1 DEF Unlink, DropRow, Erased, media
  <2>3. QED
    BY <1>1, <2>2 DEF MemoryTyped, Jobs
<1>10. ASSUME NEW f \in Files, ScanObject(f) \/ ScanPreview(f) \/ UnlinkPreview(f)
       PROVE  MemoryTyped'
  <2>1. /\ [scan EXCEPT !.todo = @ \ {f}] \in Scans
        /\ [scan EXCEPT !.at = "unlink", !.old = {f}] \in Scans
        /\ [scan EXCEPT !.at = "previews", !.todo = @ \ {f}] \in Scans
    BY <1>1 DEF Scans
  <2>2. scan' \in Scans /\ UNCHANGED <<flight, job, view, erase>>
    BY <1>10, <2>1 DEF ScanObject, ScanPreview, UnlinkPreview, Judged, media, removal
  <2>3. QED
    BY <1>1, <2>2 DEF MemoryTyped, Jobs
<1>11. CASE Erase
  BY <1>1, <1>11 DEF Erase, Deleting, Known, Erasures, media, MemoryTyped, Jobs
<1>12. CASE EndErase
  BY <1>1, <1>12 DEF EndErase, NoErase, Erasures, media, MemoryTyped, Jobs
<1>13. CASE ReadRows \/ NoteTime \/ ScanPreviews \/ EndScan
  <2>1. /\ NoScan \in Scans /\ [scan EXCEPT !.at = "previews", !.todo = Files] \in Scans
        /\ [NoScan EXCEPT !.at = "rows", !.known = Known \ Copied] \in Scans
        /\ [scan EXCEPT !.at = "objects", !.old = old, !.todo = Files] \in Scans
    BY <1>1 DEF Scans, NoScan, Known
  <2>2. scan' \in Scans /\ UNCHANGED <<flight, job, view, erase>>
    BY <1>13, <2>1 DEF ReadRows, NoteTime, ScanPreviews, EndScan, media, removal
  <2>3. QED
    BY <1>1, <2>2 DEF MemoryTyped, Jobs
<1>14. CASE Crash
  BY <1>14 DEF NoFlight, NoScan, NoErase, Flights, Scans, Erasures, Crash, MemoryTyped
<1>15. ASSUME NEW f \in Files,
              Receive(f) \/ Save(f) \/ Ages(f) \/ Move(f) \/ PreviewAges(f)
       PROVE  MemoryTyped'
  BY <1>2, <1>15 DEF Receive, Save, Ages, Move, PreviewAges, media, removal
<1>16. CASE MoveFolder \/ Confirm \/ Lapse \/ UNCHANGED vars
  BY <1>2, <1>16 DEF MoveFolder, Confirm, Lapse, vars, media, removal
<1>17. QED
  BY <1>3, <1>5, <1>7, <1>8, <1>9, <1>10, <1>11, <1>12, <1>13, <1>14, <1>15, <1>16
  DEF Next, Derive

-----------------------------------------------------------------------------
(* What a step may do, file by file.                                       *)

BodyMove ==
    \A f \in Files :
        \/ body'[f] = body[f]
        \/ body[f] = "none" /\ body'[f] = "temporary" /\ (f \in Copied => f \in copy')
        \/ body[f] = "temporary" /\ body'[f] = "unindexed"
        \/ body[f] = "unindexed" /\ body'[f] = "stored" /\ row'[f].there
        \/ body[f] = "unindexed" /\ body'[f] = "taken" /\ f \in overdue \ Copied
        \/ body[f] \in Writing \cup {"taken"} /\ body'[f] \in Over
        \/ body'[f] = "gone" /\ (f \in doomed \/ body[f] \in Over \/ f \in overdue \ Copied)

RowMove ==
    \A f \in Files :
        /\ row'[f].there =>
               \/ row[f].there
               \/ /\ ~row'[f].preview
                  /\ \/ body[f] = "unindexed" /\ body'[f] = "stored"
                     \/ body[f] = "taken" /\ body'[f] = "gone"
        /\ row[f].there => row'[f].there \/ (body[f] = "gone" /\ f \in doomed)
        /\ row'[f].preview => \/ row[f].preview
                              \/ job[f] = "record" \/ view[f] = "record"

(* The status of a row that appears, is taken up again, or fails.          *)
StatusMove ==
    \A f \in Files :
        /\ row'[f].status \in Waiting =>
               \/ row[f].status \in Waiting
               \/ body[f] \in {"unindexed", "taken"} /\ UNCHANGED copy
        /\ row'[f].status = "failed" => row[f].status = "failed" \/ job[f] = "fail"

JobMove ==
    \A f \in Files :
        /\ job'[f] # "none" =>
               job[f] # "none" \/ (row'[f].there /\ body'[f] \notin Early)
        /\ job'[f] \in {"preview", "waits", "late"} =>
               \/ job[f] \in {"preview", "waits", "late"}
               \/ f \in Copied => f \in copy'
        /\ job'[f] = "record" => job[f] = "record" \/ preview'[f] = "fresh"
        /\ job[f] \in {"waits", "late"} =>
               job'[f] \in {"waits", "late"} \/ flight'[f].at = "none"
        /\ job'[f] = "thumbnail" => job[f] = "thumbnail" \/ row[f].status \in Waiting
        /\ job'[f] = "late" => job[f] = "late" \/ f \in failed'
        /\ job'[f] = "fail" =>
               \/ job[f] \in {"fail", "late"} \/ f \in failed'
               \/ job[f] \in {"thumbnail", "waits"} /\ ~Readable(f, Source(f))

ViewMove ==
    \A f \in Files : view'[f] = "record" => view[f] = "record" \/ preview'[f] = "fresh"

CopyMove ==
    \A f \in copy : \/ f \in copy'
                    \/ body'[f] \in Over /\ body[f] \in Writing \cup {"taken"}
                    \/ job[f] = "fail" /\ job'[f] = "none"
                    \/ /\ job[f] = "record" /\ job'[f] = "none"
                       /\ row'[f].status \notin Waiting
                    \/ Exposed(f)

FlightMove ==
    \A f \in Files :
        \/ flight'[f] = flight[f]
        \/ flight'[f].at = "none"
        \/ flight[f].at = "look" /\ flight'[f].from = flight[f].from
        \/ /\ flight'[f].from = Source(f)
           /\ flight'[f].from = "copy" => job'[f] = "waits"

PreviewMove ==
    \A f \in Files :
        \/ preview'[f] \in {preview[f], "fresh"}
        \/ /\ preview'[f] = "old"
           /\ job'[f] # "record" /\ view'[f] # "record" /\ scan'.at # "unlink"
        \/ /\ preview'[f] = "none"
           /\ \/ f \in doomed
              \/ preview[f] = "old" /\ scan.at = "unlink" /\ f \in scan.old

ScanMove ==
    /\ scan'.at = "rows" =>
           \/ scan.at = "rows" /\ scan'.known = scan.known
           \/ scan'.known = Known \ Copied /\ UNCHANGED <<body, age>>
    /\ scan'.at = "objects" =>
           \/ scan.at = "objects" /\ scan'.old = scan.old /\ scan'.known = scan.known
           \/ scan.at = "rows" /\ scan'.old = old /\ scan'.known = scan.known
    /\ scan'.at = "unlink" =>
           \/ scan.at = "unlink" /\ scan'.old = scan.old
           \/ UNCHANGED row /\ \A f \in scan'.old : ~row[f].preview

(* Nothing gets younger, and what gets old has its row read or is overdue. *)
OldMove ==
    /\ old \subseteq old' /\ overdue \subseteq overdue' /\ failed \subseteq failed'
    /\ UNCHANGED old \/ UNCHANGED <<row, body, scan>>
    /\ \A f \in old' : f \in old \/ f \in overdue' \/ Seen(f)

EraseMove ==
    \/ UNCHANGED erase
    \/ erase'.todo \subseteq doomed' /\ erase'.at # "row"
    \/ /\ erase'.todo = erase.todo /\ erase.todo # {}
       /\ \A f \in Files : Current(f) => body'[f] = "gone"

DoomedMove == doomed \subseteq doomed' /\ doomed' \subseteq Files /\ token' \subseteq Files

LEMMA CurrentDoomed ==
    ASSUME ErasesConfirmed, NEW f \in Files, Current(f), erase.at = "row"
    PROVE  f \in doomed /\ body[f] = "gone"
    BY DEF ErasesConfirmed, Current

LEMMA BodyMoves ==
    ASSUME IInv, [Next]_vars
    PROVE  BodyMove
<1> USE DEF IInv
<1>1. body \in [Files -> Bodies] /\ row \in [Files -> RowTyped] /\ scan \in Scans
  BY Typed DEF MemoryTyped
<1>2. CASE UNCHANGED body
  BY <1>2 DEF BodyMove
<1>3. ASSUME NEW f \in Files, Receive(f) \/ Save(f) PROVE BodyMove
  BY <1>1, <1>3 DEF Receive, Save, BodyMove, Over, Writing
<1>4. ASSUME NEW f \in Files, Index(f) PROVE BodyMove
  BY <1>1, <1>4 DEF Index, BodyMove, Over, Writing
<1>5. ASSUME NEW f \in Files, Unlink(f) PROVE BodyMove
  BY <1>5, <1>1 DEF Unlink, Current, ErasesConfirmed, BodyMove
<1>6. ASSUME NEW f \in Files, ScanObject(f) PROVE BodyMove
  BY <1>2, <1>6, <1>1 DEF ScanObject, Orphan, OrphansAreOver, Spare, TakeObject, BodyMove, Over,
      Writing
<1>7. CASE Crash
  BY <1>1, <1>7 DEF Crash, BodyMove, Over, Writing
<1>8. ASSUME NEW f \in Files,
             \/ Ages(f) \/ Move(f) \/ Derive(f) \/ Deadline(f) \/ View(f)
             \/ PreviewAges(f) \/ DropRow(f) \/ ScanPreview(f) \/ UnlinkPreview(f)
      PROVE  UNCHANGED body
  BY <1>8
  DEF Ages, Move, Derive, ClaimJob, Thumbnail, AskPreview, Look, Make, RecordView,
      RecordJob, FailJob, Deadline, View, PreviewAges, DropRow, ScanPreview,
      UnlinkPreview
<1>9. CASE \/ MoveFolder \/ Confirm \/ Erase \/ Lapse \/ EndErase \/ ReadRows
           \/ NoteTime \/ ScanPreviews \/ EndScan \/ UNCHANGED vars
  BY <1>2, <1>9
  DEF MoveFolder, Confirm, Erase, Lapse, EndErase, ReadRows, NoteTime, ScanPreviews, EndScan,
      vars
<1>10. QED
  BY <1>2, <1>3, <1>4, <1>5, <1>6, <1>7, <1>8, <1>9 DEF Next

LEMMA RowMoves ==
    ASSUME IInv, [Next]_vars
    PROVE  RowMove
<1> USE DEF IInv
<1>1. /\ row \in [Files -> RowTyped]
      /\ \A f \in Files : row[f] \in RowTyped
      /\ \A r \in RowTyped : r \in Rows /\ (r.there \/ r = NoRow)
      /\ body \in [Files -> Bodies]
  BY Typed DEF RowTyped
<1>2. CASE UNCHANGED row
  BY <1>2 DEF RowMove
<1>3. ASSUME NEW f \in Files, Index(f) PROVE RowMove
  BY <1>2, <1>1, <1>3 DEF Index, RowMove
<1>4. ASSUME NEW f \in Files, Move(f) \/ ClaimJob(f) PROVE RowMove
  BY <1>1, <1>4 DEF Move, ClaimJob, Put, RowMove, Rows
<1>5. ASSUME NEW f \in Files, RecordView(f) \/ RecordJob(f) \/ FailJob(f) PROVE RowMove
  BY <1>1, <1>5 DEF RecordView, RecordJob, FailJob, Recorded, RowMove, Rows
<1>6. ASSUME NEW f \in Files, DropRow(f) PROVE RowMove
  BY <1>6, CurrentDoomed, <1>1 DEF DropRow, RowMove, NoRow
<1>7. CASE MoveFolder
  BY <1>1, <1>7 DEF MoveFolder, RowMove, Rows
<1>8. CASE Crash
  BY <1>1, <1>8 DEF Crash, RowMove, Rows
<1>9. ASSUME NEW f \in Files,
             \/ Receive(f) \/ Save(f) \/ Ages(f) \/ Thumbnail(f) \/ AskPreview(f)
             \/ Look(f) \/ Make(f) \/ Deadline(f) \/ View(f) \/ PreviewAges(f)
             \/ Unlink(f) \/ ScanObject(f) \/ ScanPreview(f) \/ UnlinkPreview(f)
      PROVE  RowMove
  BY <1>2, <1>9
  DEF Receive, Save, Ages, Thumbnail, AskPreview, Look, Make, Deadline, View,
      PreviewAges, Unlink, ScanObject, ScanPreview, UnlinkPreview
<1>10. CASE \/ Confirm \/ Erase \/ Lapse \/ EndErase \/ ReadRows \/ NoteTime \/ ScanPreviews
            \/ EndScan \/ UNCHANGED vars
  BY <1>2, <1>10
  DEF Confirm, Erase, Lapse, EndErase, ReadRows, NoteTime, ScanPreviews, EndScan, vars
<1>11. QED
  BY <1>3, <1>4, <1>5, <1>6, <1>7, <1>8, <1>9, <1>10 DEF Next, Derive

LEMMA StatusMoves ==
    ASSUME IInv, [Next]_vars
    PROVE  StatusMove
<1> USE DEF IInv
<1>1. /\ row \in [Files -> RowTyped]
      /\ \A f \in Files : row[f] \in Rows
  BY Typed DEF RowTyped
<1>2. CASE UNCHANGED row
  BY <1>2 DEF StatusMove
<1>3. ASSUME NEW f \in Files, Index(f) PROVE StatusMove
  BY <1>2, <1>1, <1>3 DEF Index, StatusMove
<1>4. ASSUME NEW f \in Files, Move(f) \/ ClaimJob(f) \/ DropRow(f) PROVE StatusMove
  BY <1>1, <1>4 DEF Move, ClaimJob, DropRow, NoRow, Put, StatusMove, Rows, Waiting
<1>5. ASSUME NEW f \in Files, RecordView(f) \/ RecordJob(f) \/ FailJob(f) PROVE StatusMove
  BY <1>1, <1>5 DEF RecordView, RecordJob, FailJob, Recorded, StatusMove, Rows, Waiting
<1>6. CASE MoveFolder
  BY <1>1, <1>6 DEF MoveFolder, StatusMove, Rows
<1>7. CASE Crash
  BY <1>1, <1>7 DEF Crash, StatusMove, Rows, Waiting
<1>8. ASSUME NEW f \in Files,
             \/ Receive(f) \/ Save(f) \/ Ages(f) \/ Thumbnail(f) \/ AskPreview(f)
             \/ Look(f) \/ Make(f) \/ Deadline(f) \/ View(f) \/ PreviewAges(f)
             \/ Unlink(f) \/ ScanObject(f) \/ ScanPreview(f) \/ UnlinkPreview(f)
      PROVE  StatusMove
  BY <1>2, <1>8
  DEF Receive, Save, Ages, Thumbnail, AskPreview, Look, Make, Deadline, View,
      PreviewAges, Unlink, ScanObject, ScanPreview, UnlinkPreview
<1>9. CASE \/ Confirm \/ Erase \/ Lapse \/ EndErase \/ ReadRows \/ NoteTime
           \/ ScanPreviews \/ EndScan \/ UNCHANGED vars
  BY <1>2, <1>9
  DEF Confirm, Erase, Lapse, EndErase, ReadRows, NoteTime, ScanPreviews, EndScan, vars
<1>10. QED
  BY <1>3, <1>4, <1>5, <1>6, <1>7, <1>8, <1>9 DEF Next, Derive

(* What becomes of a job or a view when the flight has landed.             *)
LEMMA LandedMoves ==
    ASSUME MemoryTyped, NEW f \in Files, NEW made \in BOOLEAN, Landed(f, made),
           made => preview'[f] = "fresh",
           made \/ job[f] # "waits" \/ f \in failed' \/ ~Readable(f, Source(f))
    PROVE  /\ FlightMove /\ ViewMove
           /\ \A g \in Files :
                 /\ job'[g] # "none" => job[g] # "none"
                 /\ job'[g] \in {"preview", "waits", "late"} => job'[g] = job[g]
                 /\ job'[g] = "record" => job[g] = "record" \/ preview'[g] = "fresh"
                 /\ job[g] \in {"waits", "late"} =>
                        job'[g] = job[g] \/ flight'[g].at = "none"
                 /\ job'[g] = "fail" =>
                        \/ job[g] \in {"fail", "late"} \/ g \in failed'
                        \/ job[g] = "waits" /\ ~Readable(g, Source(g))
                 /\ job'[g] # "thumbnail" \/ job[g] = "thumbnail"
    BY DEF MemoryTyped, Jobs, Landed, NoFlight, FlightMove, ViewMove

LEMMA LookMakeMoves ==
    ASSUME IInv, NEW f \in Files, Look(f) \/ Make(f)
    PROVE  JobMove /\ FlightMove /\ ViewMove
<1>1. /\ flight \in [Files -> Flights] /\ preview \in [Files -> {"none", "fresh", "old"}]
      /\ MemoryTyped
  BY Typed DEF IInv, MemoryTyped
<1>2. ASSUME NEW made \in BOOLEAN, Landed(f, made), made => preview'[f] = "fresh",
             made \/ job[f] # "waits" \/ f \in failed' \/ ~Readable(f, Source(f))
      PROVE  JobMove /\ FlightMove /\ ViewMove
  BY <1>1, <1>2, LandedMoves DEF JobMove
<1>3. CASE flight' = [flight EXCEPT ![f].at = "make"] /\ flight[f].at = "look"
           /\ UNCHANGED <<preview, job, view>>
  BY <1>1, <1>3 DEF Flights, FlightMove, JobMove, ViewMove
<1>4. flight[f].from = Source(f)
  BY DEF IInv, JobsKeepCopies, Look, Make
<1>5. CASE Look(f)
  BY <1>1, <1>2, <1>3, <1>4, <1>5 DEF Look
<1>6. CASE Make(f)
  BY <1>1, <1>2, <1>4, <1>6 DEF Make, Fault
<1>7. QED
  BY <1>5, <1>6

LEMMA AskMoves ==
    ASSUME IInv, NEW f \in Files, AskPreview(f) \/ View(f)
    PROVE  JobMove /\ FlightMove /\ ViewMove
    BY DEF IInv, MemoryTyped, Jobs, AskPreview, JobMove, ViewMove, FlightMove, Fly, Source, View

LEMMA JobMoves ==
    ASSUME IInv, [Next]_vars
    PROVE  JobMove /\ FlightMove /\ ViewMove
<1> USE DEF IInv
<1>1. /\ flight \in [Files -> Flights] /\ job \in [Files -> Jobs]
      /\ view \in [Files -> {"none", "waits", "record"}]
      /\ row \in [Files -> RowTyped] /\ body \in [Files -> Bodies]
      /\ copy \subseteq Copied
  BY Typed DEF MemoryTyped, Jobs
<1>2. CASE UNCHANGED <<flight, job, view>>
  BY <1>2 DEF JobMove, FlightMove, ViewMove
<1>3. ASSUME UNCHANGED <<flight, view>>, JobMove PROVE FlightMove /\ ViewMove
  BY <1>3 DEF FlightMove, ViewMove
<1>4. ASSUME NEW f \in Files, Index(f) PROVE JobMove /\ FlightMove /\ ViewMove
  BY <1>4, <1>2, <1>1, <1>3 DEF Index, RowsFollowObjects, Early, Writing, Enqueued, JobMove
<1>5. ASSUME NEW f \in Files, ClaimJob(f) \/ Thumbnail(f) \/ Deadline(f)
      PROVE  JobMove /\ FlightMove /\ ViewMove
  BY <1>1, <1>3, <1>5
  DEF ClaimJob, JobMove, Thumbnail, Readable, Source, Deadline, Fault, Waiting
<1>6. ASSUME NEW f \in Files, RecordJob(f) \/ FailJob(f)
      PROVE  JobMove /\ FlightMove /\ ViewMove
  BY <1>6, <1>1, <1>3 DEF RecordJob, FailJob, JobMove, Fault
<1>7. ASSUME NEW f \in Files, RecordView(f) PROVE JobMove /\ FlightMove /\ ViewMove
  BY <1>1, <1>7 DEF RecordView, JobMove, FlightMove, ViewMove
<1>8. CASE Crash
  <2>1. \A f \in Files : flight'[f].at = "none" /\ view'[f] = "none"
    BY <1>8 DEF Crash, NoFlight
  <2>2. ASSUME NEW f \in Files, job'[f] # "none"
        PROVE  job'[f] = "queued" /\ row'[f].there /\ body'[f] \notin Early
    <3>1. job'[f] = "queued" /\ row'[f].status = "queued"
      BY <1>8, <2>2 DEF Crash
    <3>2. row[f] # NoRow /\ row[f] \in RowTyped
      BY <1>1, <1>8, <3>1 DEF Crash, NoRow
    <3>3. row[f].there /\ body[f] \notin Early
      BY <3>2 DEF RowTyped, RowsFollowObjects
    <3>4. row'[f].there
      BY <1>1, <1>8, <3>2, <3>3 DEF Crash, RowTyped, Rows
    <3>5. body'[f] \notin Early
      BY <1>8, <3>3 DEF Crash, Early, Writing
    <3>6. QED
      BY <3>1, <3>4, <3>5
  <2>3. QED
    BY <2>1, <2>2 DEF JobMove, FlightMove, ViewMove
<1>9. ASSUME NEW f \in Files,
             \/ Receive(f) \/ Save(f) \/ Ages(f) \/ Move(f) \/ PreviewAges(f)
             \/ Unlink(f) \/ DropRow(f) \/ ScanObject(f) \/ ScanPreview(f)
             \/ UnlinkPreview(f)
      PROVE  UNCHANGED <<flight, job, view>>
  BY <1>9
  DEF Receive, Save, Ages, Move, PreviewAges, Unlink, DropRow, ScanObject,
      ScanPreview, UnlinkPreview, media
<1>10. CASE \/ MoveFolder \/ Confirm \/ Erase \/ Lapse \/ EndErase \/ ReadRows
            \/ NoteTime \/ ScanPreviews \/ EndScan \/ UNCHANGED vars
  BY <1>2, <1>10
  DEF MoveFolder, Confirm, Erase, Lapse, EndErase, ReadRows, NoteTime, ScanPreviews, EndScan,
      vars, media
<1>11. ASSUME NEW f \in Files, Derive(f) PROVE JobMove /\ FlightMove /\ ViewMove
  BY <1>5, <1>6, <1>7, <1>11, LookMakeMoves, AskMoves DEF Derive
<1>12. QED
  BY <1>2, <1>4, <1>5, <1>8, <1>9, <1>10, <1>11, AskMoves DEF Next

LEMMA CopyMoves ==
    ASSUME IInv, [Next]_vars
    PROVE  CopyMove
<1> USE DEF IInv
<1>1. /\ job \in [Files -> Jobs] /\ copy \subseteq Copied
      /\ row \in [Files -> RowTyped] /\ \A f \in Files : row[f] \in Rows
      /\ body \in [Files -> Bodies]
      /\ \A f \in Files : ~row[f].there => row[f] = NoRow
  BY Typed DEF MemoryTyped, Jobs, RowTyped
<1>2. CASE copy \subseteq copy'
  BY <1>2 DEF CopyMove
<1>3. ASSUME NEW f \in Files, Save(f) \/ Index(f) \/ RecordJob(f) \/ FailJob(f)
      PROVE  CopyMove
  BY <1>1, <1>3 DEF Save, Index, CopyMove, Over, Writing, RecordJob, Rows, NoRow, Waiting, FailJob
<1>4. ASSUME NEW f \in Files, ScanObject(f) PROVE CopyMove
  BY <1>2, <1>4 DEF ScanObject, Orphan, OrphansAreOver, Exposed, CopyMove
<1>5. ASSUME NEW f \in Files, Receive(f) PROVE copy \subseteq copy'
  BY <1>5 DEF Receive
<1>6. ASSUME NEW f \in Files,
             \/ Ages(f) \/ Move(f) \/ Deadline(f) \/ View(f)
             \/ PreviewAges(f) \/ Unlink(f) \/ DropRow(f) \/ ScanPreview(f)
             \/ UnlinkPreview(f)
             \/ ClaimJob(f) \/ Thumbnail(f) \/ AskPreview(f) \/ Look(f) \/ Make(f)
             \/ RecordView(f)
      PROVE  UNCHANGED copy
  BY <1>6
  DEF Ages, Move, Deadline, View, PreviewAges, Unlink, DropRow, ScanPreview,
      UnlinkPreview, ClaimJob, Thumbnail, AskPreview, Look, Make, RecordView, media
<1>7. CASE \/ MoveFolder \/ Confirm \/ Erase \/ Lapse \/ EndErase \/ ReadRows
           \/ NoteTime \/ ScanPreviews \/ EndScan \/ Crash \/ UNCHANGED vars
  BY <1>2, <1>7
  DEF MoveFolder, Confirm, Erase, Lapse, EndErase, ReadRows, NoteTime, ScanPreviews, EndScan,
      Crash, vars, media
<1>8. ASSUME NEW f \in Files, Derive(f) PROVE CopyMove
  BY <1>2, <1>3, <1>6, <1>8 DEF Derive
<1>9. QED
  BY <1>2, <1>3, <1>4, <1>5, <1>6, <1>7, <1>8 DEF Next

LEMMA PreviewMoves ==
    ASSUME IInv, [Next]_vars
    PROVE  PreviewMove
<1> USE DEF IInv
<1>1. preview \in [Files -> {"none", "fresh", "old"}]
  BY Typed
<1>2. CASE UNCHANGED preview
  BY <1>2 DEF PreviewMove
<1>3. ASSUME NEW f \in Files, Look(f) \/ Make(f) PROVE PreviewMove
  BY <1>1, <1>2, <1>3 DEF Look, Make, PreviewMove
<1>4. ASSUME NEW f \in Files, PreviewAges(f) PROVE PreviewMove
  BY <1>4, <1>1 DEF PreviewAges, PreviewMove
<1>5. ASSUME NEW f \in Files, Unlink(f) PROVE PreviewMove
  BY <1>5, <1>1 DEF Unlink, Current, ErasesConfirmed, PreviewMove
<1>6. ASSUME NEW f \in Files, UnlinkPreview(f) PROVE PreviewMove
  BY <1>1, <1>6 DEF UnlinkPreview, Stale, PreviewMove
<1>7. ASSUME NEW f \in Files,
             \/ Receive(f) \/ Save(f) \/ Index(f) \/ Ages(f) \/ Move(f) \/ Deadline(f)
             \/ View(f) \/ DropRow(f) \/ ScanObject(f) \/ ScanPreview(f)
             \/ ClaimJob(f) \/ Thumbnail(f) \/ AskPreview(f) \/ RecordView(f)
             \/ RecordJob(f) \/ FailJob(f)
      PROVE  UNCHANGED preview
  BY <1>7
  DEF Receive, Save, Index, Ages, Move, Deadline, View, DropRow, ScanObject,
      ScanPreview, ClaimJob, Thumbnail, AskPreview, RecordView, RecordJob, FailJob,
      media
<1>8. CASE \/ MoveFolder \/ Confirm \/ Erase \/ Lapse \/ EndErase \/ ReadRows
           \/ NoteTime \/ ScanPreviews \/ EndScan \/ Crash \/ UNCHANGED vars
  BY <1>2, <1>8
  DEF MoveFolder, Confirm, Erase, Lapse, EndErase, ReadRows, NoteTime, ScanPreviews, EndScan,
      Crash, vars, media
<1>9. ASSUME NEW f \in Files, Derive(f) PROVE PreviewMove
  BY <1>2, <1>3, <1>7, <1>9 DEF Derive
<1>10. QED
  BY <1>2, <1>4, <1>5, <1>6, <1>7, <1>8, <1>9 DEF Next

LEMMA ScanMoves ==
    ASSUME IInv, [Next]_vars
    PROVE  ScanMove
<1>1. scan \in Scans /\ row \in [Files -> RowTyped]
  BY Typed DEF IInv, MemoryTyped
<1>2. CASE UNCHANGED scan
  BY <1>2 DEF ScanMove
<1>3. ASSUME NEW f \in Files, ScanObject(f) PROVE ScanMove
  BY <1>1, <1>3 DEF ScanObject, Judged, Scans, ScanMove
<1>4. ASSUME NEW f \in Files, ScanPreview(f) PROVE ScanMove
  BY <1>1, <1>4 DEF ScanPreview, Scans, ScanMove, Judged
<1>5. ASSUME NEW f \in Files, UnlinkPreview(f) PROVE ScanMove
  BY <1>1, <1>5 DEF UnlinkPreview, Scans, ScanMove
<1>6. CASE ReadRows \/ NoteTime
  <2>1. CASE ReadRows
    BY <2>1 DEF ReadRows, NoScan, ScanMove
  <2>2. CASE NoteTime
    BY <1>1, <2>2 DEF NoteTime, Scans, ScanMove
  <2>3. QED
    BY <1>6, <2>1, <2>2
<1>7. CASE ScanPreviews
  BY <1>1, <1>7 DEF ScanPreviews, Scans, ScanMove
<1>8. CASE EndScan
  BY <1>8 DEF EndScan, NoScan, ScanMove
<1>9. CASE Crash
  BY <1>9 DEF Crash, NoScan, ScanMove
<1>10. ASSUME NEW f \in Files,
             \/ Receive(f) \/ Save(f) \/ Index(f) \/ Ages(f) \/ Move(f) \/ Derive(f)
             \/ Deadline(f) \/ View(f) \/ PreviewAges(f) \/ Unlink(f) \/ DropRow(f)
      PROVE  UNCHANGED scan
  BY <1>10
  DEF Receive, Save, Index, Ages, Move, Derive, ClaimJob, Thumbnail, AskPreview,
      Look, Make, RecordView, RecordJob, FailJob, Deadline, View, PreviewAges,
      Unlink, DropRow
<1>11. CASE MoveFolder \/ Confirm \/ Erase \/ Lapse \/ EndErase \/ UNCHANGED vars
  BY <1>2, <1>11 DEF MoveFolder, Confirm, Erase, Lapse, EndErase, vars
<1>12. QED
  BY <1>2, <1>3, <1>4, <1>5, <1>6, <1>9, <1>10, <1>11,
     <1>7, <1>8 DEF Next

LEMMA OldMoves ==
    ASSUME [Next]_vars
    PROVE  OldMove
<1>1. CASE UNCHANGED age /\ failed \subseteq failed'
  BY <1>1 DEF OldMove, age
<1>2. ASSUME NEW f \in Files, Ages(f) PROVE OldMove
  BY <1>2 DEF Ages, OldMove, errors
<1>3. ASSUME NEW f \in Files,
             \/ Receive(f) \/ Save(f) \/ Index(f) \/ Move(f) \/ Derive(f)
             \/ Deadline(f) \/ View(f) \/ PreviewAges(f) \/ Unlink(f)
             \/ DropRow(f) \/ ScanObject(f) \/ ScanPreview(f) \/ UnlinkPreview(f)
      PROVE  UNCHANGED age /\ failed \subseteq failed'
  BY <1>3
  DEF Receive, Save, Index, Move, Derive, ClaimJob, Thumbnail, AskPreview, Look, Make,
      RecordView, RecordJob, FailJob, Deadline, View, PreviewAges, Unlink, DropRow,
      ScanObject, ScanPreview, UnlinkPreview, errors, Fault
<1>4. CASE \/ MoveFolder \/ Confirm \/ Erase \/ Lapse \/ EndErase \/ ReadRows
           \/ NoteTime \/ ScanPreviews \/ EndScan \/ Crash \/ UNCHANGED vars
  BY <1>1, <1>4
  DEF MoveFolder, Confirm, Erase, Lapse, EndErase, ReadRows, NoteTime, ScanPreviews,
      EndScan, Crash, vars, errors
<1>5. QED
  BY <1>1, <1>2, <1>3, <1>4 DEF Next

LEMMA EraseMoves ==
    ASSUME IInv, [Next]_vars
    PROVE  EraseMove /\ DoomedMove
<1> USE DEF IInv
<1>1. /\ erase \in Erasures /\ token \subseteq Files /\ doomed \subseteq Files
      /\ body \in [Files -> Bodies]
  BY Typed DEF MemoryTyped
<1>2. CASE UNCHANGED <<token, doomed, erase>>
  BY <1>1, <1>2 DEF EraseMove, DoomedMove
<1>3. CASE Confirm
  BY <1>1, <1>3 DEF Confirm, Known, EraseMove, DoomedMove
<1>4. CASE Erase
  BY <1>1, <1>4 DEF Erase, Deleting, EraseMove, DoomedMove
<1>5. CASE Lapse \/ EndErase \/ Crash
  BY <1>1, <1>5 DEF Lapse, EndErase, Crash, NoErase, EraseMove, DoomedMove
<1>6. ASSUME NEW f \in Files, Erased(f), UNCHANGED <<token, doomed>>
      PROVE  EraseMove /\ DoomedMove
  BY <1>1, <1>6 DEF Erased, Erasures, EraseMove, DoomedMove, ErasesConfirmed
<1>7. ASSUME NEW f \in Files, Unlink(f) PROVE EraseMove /\ DoomedMove
  BY <1>7, <1>1, <1>6 DEF Unlink, Erasures, Current, EraseMove, DoomedMove
<1>8. ASSUME NEW f \in Files, DropRow(f) PROVE EraseMove /\ DoomedMove
  BY <1>6, <1>8 DEF DropRow
<1>9. ASSUME NEW f \in Files,
             \/ Receive(f) \/ Save(f) \/ Index(f) \/ Ages(f) \/ Move(f) \/ Derive(f)
             \/ Deadline(f) \/ View(f) \/ PreviewAges(f) \/ ScanObject(f)
             \/ ScanPreview(f) \/ UnlinkPreview(f)
      PROVE  UNCHANGED <<token, doomed, erase>>
  BY <1>9
  DEF Receive, Save, Index, Ages, Move, Derive, ClaimJob, Thumbnail, AskPreview,
      Look, Make, RecordView, RecordJob, FailJob, Deadline, View, PreviewAges,
      ScanObject, ScanPreview, UnlinkPreview, removal
<1>10. CASE MoveFolder \/ ReadRows \/ NoteTime \/ ScanPreviews \/ EndScan \/ UNCHANGED vars
  BY <1>2, <1>10 DEF MoveFolder, ReadRows, NoteTime, ScanPreviews, EndScan, vars, removal
<1>11. QED
  BY <1>2, <1>3, <1>4, <1>5, <1>7, <1>8, <1>9, <1>10 DEF Next

-----------------------------------------------------------------------------
(* The moves preserve the invariant.                                       *)

(* What was exposed or excused stays so.                                   *)
LEMMA ExcusesLast ==
    ASSUME OldMove, DoomedMove
    PROVE  \A f : (Exposed(f) => Exposed(f)') /\ (Excused(f) => Excused(f)')
    BY DEF OldMove, DoomedMove, Exposed, Excused

(* Nothing a waiting job reads is gone without an excuse.                  *)
LEMMA UnreadableExcused ==
    ASSUME IInv, NEW f \in Files, job[f] \in {"thumbnail", "waits"},
           ~Readable(f, Source(f))
    PROVE  Excused(f)
    BY DEF IInv, JobsKeepCopies, CopiesWait, Readable, Source, Excused, NothingNeededGoes,
        RowsHaveObjects, Known

LEMMA PartsHold ==
    ASSUME IInv, TypeOK', MemoryTyped',
           BodyMove, RowMove, StatusMove, JobMove, ViewMove, CopyMove, FlightMove,
           PreviewMove, ScanMove, OldMove, EraseMove, DoomedMove
    PROVE  IInv'
<1> USE DEF IInv
<1>0. /\ old \subseteq Files /\ old' \subseteq Files /\ scan.old \subseteq Files
      /\ doomed \subseteq doomed' /\ erase \in Erasures /\ erase' \in Erasures
      /\ scan'.old \subseteq Files
      /\ \A f \in Files : body[f] \in Bodies
  BY Typed DEF MemoryTyped, TypeOK, Scans, DoomedMove
<1>a. \A f : (Exposed(f) => Exposed(f)') /\ (Excused(f) => Excused(f)')
  BY ExcusesLast
<1>1. RowsFollowObjects'
  BY DEF BodyMove, Early, Writing, Over, RowMove, JobMove, RowsFollowObjects
<1>2. RowsHaveObjects'
  <2> SUFFICES ASSUME NEW f \in Files, row'[f].there
               PROVE  body'[f] = "stored" \/ f \in doomed' \/ (f \notin Copied /\ Exposed(f))'
    BY DEF RowsHaveObjects, Known
  <2>1. CASE row[f].there
    BY <2>1, <1>0, <1>a DEF RowsFollowObjects, NothingNeededGoes, RowsHaveObjects, Known, BodyMove,
        Early, Writing, Over, Exposed
  <2>2. CASE ~row[f].there
    BY <2>2, <1>a DEF RowMove, TakenIsOverdue, Exposed
  <2>3. QED
    BY <2>1, <2>2
<1>3. ErasesConfirmed'
  BY <1>0 DEF ErasesConfirmed, Current, BodyMove, Over, EraseMove, Writing
<1>b. TakenIsOverdue'
  BY DEF TakenIsOverdue, BodyMove, OldMove, Over
<1>4. OldIsSettled'
  BY <1>0 DEF OldIsSettled, OldMove, BodyMove, Over, Writing, Seen, RowsFollowObjects, Bodies, Early
<1>5. OrphansAreOver'
  BY <1>0 DEF Spare, BodyMove, OldMove, Over, Writing, OrphansAreOver, Seen, Known, OldIsSettled,
      RowsFollowObjects, age, ScanMove
<1>6. RecordedIsFresh'
  BY <1>0 DEF RecordedIsFresh, JobMove, ViewMove, PreviewMove
<1>7. UnlinkedIsUnnamed'
  BY <1>0 DEF PreviewMove, RecordedIsFresh, ScanMove, UnlinkedIsUnnamed, RowMove
<1>8. PreviewsUsable'
  BY <1>0 DEF RowMove, NothingNeededGoes, PreviewsUsable, Known, PreviewMove, UnlinkedIsUnnamed,
      RecordedIsFresh
<1>9. JobsKeepCopies'
  BY <1>0, <1>a DEF JobsKeepCopies, Source, JobMove, RowMove, CopyMove, RowsFollowObjects, Early,
      Writing, FlightMove
<1>10. SourceOutlivesReaders'
  BY <1>9 DEF SourceOutlivesReaders, JobsKeepCopies, Source
<1>11. CopiesWait'
  <2> SUFFICES ASSUME NEW f \in Copied \cap Files
               PROVE  /\ body'[f] \in Writing => f \in copy' \/ Exposed(f)'
                      /\ row'[f].status \in Waiting \/ job'[f] = "thumbnail" =>
                             f \in copy' \/ Excused(f)'
    BY DEF CopiesWait
  <2>1. ASSUME body'[f] \in Writing PROVE f \in copy' \/ Exposed(f)'
    <3>1. CASE body[f] \in Writing
      BY <2>1, <1>1, <3>1, <1>a DEF RowsFollowObjects, Early, CopyMove, Over, Writing, CopiesWait
    <3>2. CASE body[f] \notin Writing
      BY <2>1, <3>2 DEF BodyMove, Writing, Over
    <3>3. QED
      BY <3>1, <3>2
  <2>2. ASSUME row'[f].status \in Waiting \/ job'[f] = "thumbnail"
        PROVE  f \in copy' \/ Excused(f)'
    <3>1. CASE f \in copy
      BY <2>2, <3>1, <1>a DEF RowsFollowObjects, Early, TypeOK, TakenIsOverdue, RowMove, JobMove,
          NoRow, Over, StatusMove, Waiting, FailuresExcused, Excused, CopyMove
    <3>2. CASE Excused(f)
      BY <1>a, <3>2
    <3>3. CASE f \notin copy /\ ~Excused(f)
      BY <2>2, <3>3 DEF StatusMove, JobMove, CopiesWait, Writing, TakenIsOverdue, Excused
    <3>4. QED
      BY <3>1, <3>2, <3>3
  <2>3. QED
    BY <2>1, <2>2
<1>12. FailuresExcused'
  BY <1>a, UnreadableExcused DEF FailuresExcused, JobMove, OldMove, Excused
<1>13. FailuresHaveCauses'
  BY <1>a DEF StatusMove, NothingNeededGoes, FailuresHaveCauses, FailuresExcused, Excused
<1>14. QED
  BY <1>1, <1>2, <1>3, <1>b, <1>4, <1>5, <1>6, <1>7, <1>8, <1>9, <1>10, <1>11, <1>12, <1>13
  DEF NothingNeededGoes

LEMMA InitHolds == Init => IInv
    BY DEF Init, TypeOK, NoRow, NoFlight, NoScan, NoErase, Flights, Scans, Erasures, MemoryTyped,
        NothingNeededGoes, RowsHaveObjects, PreviewsUsable, SourceOutlivesReaders,
        FailuresHaveCauses, RowsFollowObjects, RecordedIsFresh, JobsKeepCopies, Known,
        ErasesConfirmed, TakenIsOverdue, OldIsSettled, OrphansAreOver, UnlinkedIsUnnamed,
        CopiesWait, Writing, Waiting, FailuresExcused, IInv

LEMMA NextHolds == IInv /\ [Next]_vars => IInv'
    BY BodyMoves, RowMoves, StatusMoves, JobMoves, CopyMoves, PreviewMoves, ScanMoves, OldMoves,
        EraseMoves, RowTypes, ObjectTypes, MemoryTypes, PartsHold
    DEF IInv, TypeOK, RowTyped, Rows, Bodies, DoomedMove

(* The invariant holds of every behaviour, however long a write or a job   *)
(* takes, for any files, folders, copies and numbers of failures,          *)
(* deletions and previews asked for.                                       *)
THEOREM LibraryInvariant == Spec => []IInv
<1>1. Init => IInv
  BY InitHolds
<1>2. IInv /\ [Next]_vars => IInv'
  BY NextHolds
<1>3. QED
  BY <1>1, <1>2, PTL DEF Spec

(* The columns of a row and the states of its object and preview keep      *)
(* their values, and a row that is not there is empty.                     *)
THEOREM LibraryTypes == Spec => []TypeOK
<1>1. IInv => TypeOK
  BY DEF IInv
<1>2. QED
  BY <1>1, LibraryInvariant, PTL

(* Neither a clean-up, nor a crash, nor a deletion that showed other       *)
(* files, takes the object or the preview of a row, or the copy that a     *)
(* generation reads, and no derivative fails for want of one               *)
(* (orphanCleanup.ts, folderOperations.ts, previewCache.ts), however long  *)
(* jobs wait and writes last, except for the objects and copies the        *)
(* protected time exposes: those that grow old in the upload directory     *)
(* before their row can be read, or although their job still waits.        *)
THEOREM NeededStays == Spec => []NothingNeededGoes
<1>1. IInv => NothingNeededGoes
  BY DEF IInv
<1>2. QED
  BY <1>1, LibraryInvariant, PTL
-----------------------------------------------------------------------------
(* The files that are sent to the bot.                                     *)

(* Elements of a set that are all the same are at most one.                *)
LEMMA AtMostOne ==
    ASSUME NEW S, \A t, u \in S : t = u
    PROVE  Cardinality(S) <= 1
<1>1. CASE S = {}
    BY <1>1, FS_EmptySet
<1>2. CASE S # {}
    BY <1>2, FS_Singleton
<1> QED BY <1>1, <1>2

(* A task has finitely many files.                                         *)
FinitelySent == IsFiniteSet(Files)

SentStages == {"waiting", "download", "save", "index", "check", "undo", "verdict"}
RefStates == {"none", "pending", "downloading", "saving", "success", "failed", "cancelled"}
WorkRecord ==
    [file : Files, kind : {"single", "album", "again"}, at : SentStages, obj : Nat, good : BOOLEAN, abort : BOOLEAN]
ObjectRecord == [file : Files, there : BOOLEAN, indexed : BOOLEAN, told : BOOLEAN]
HandRecord == [at : {"idle", "target", "remembered", "admitted", "ensured"}, q : Nat]
QueueRecord == [files : SUBSET Files, busy : BOOLEAN]
BatchRecord == [stage : {"none", "taken", "admitted", "ensured", "queued"}, files : SUBSET Files]
RowStates == {"none", "pending", "running", "paused", "completed", "failed", "cancelled"}

GroupShape(g) ==
    /\ g.live \in BOOLEAN
    /\ g = [live |-> g.live, over |-> g.over, expected |-> g.expected,
            done |-> g.done, failed |-> g.failed, cancelled |-> g.cancelled]
PassShape(p) ==
    /\ p.at \in {"none", "read", "taken"} /\ p.refs \in [Files -> RefStates]
    /\ p.todo \in SUBSET Files /\ p.again \in SUBSET Files
    /\ p = [at |-> p.at, refs |-> p.refs, paused |-> p.paused, todo |-> p.todo, again |-> p.again,
            done |-> p.done, failed |-> p.failed, cancelled |-> p.cancelled]

StoreTyped ==
    /\ transfer \in RowStates /\ ref \in [Files -> RefStates] /\ path \in [Files -> Nat]
    /\ objects \in Seq(ObjectRecord)
WorkTyped == tasks \in Seq(WorkRecord) /\ failures \in SUBSET Files /\ GroupShape(group)
PassTyped == PassShape(pass)
NewsTyped == news \in Seq(RowStates)
AlbumTyped ==
    /\ hand \in [Files -> HandRecord] /\ queues \in Seq(QueueRecord) /\ batch \in BatchRecord
    /\ current \in 0..Len(queues)

(* What the stage of a task says about its object.                         *)
TaskSound(t) ==
    /\ t.obj # 0 => t.obj \in 1..Len(objects) /\ objects[t.obj].file = t.file
    /\ t.at \in {"waiting", "download"} => t.obj = 0
    /\ t.at \in {"save", "index", "check", "undo"} => t.obj # 0
    /\ t.at \in {"save", "index"} => ~objects[t.obj].indexed
    /\ t.at \in {"index", "check"} => objects[t.obj].there
    /\ t.at \in {"check", "undo"} => objects[t.obj].indexed
    /\ t.at = "undo" => t.abort /\ ~objects[t.obj].there
    /\ t.at = "verdict" /\ t.good => t.obj # 0 /\ objects[t.obj].indexed /\ objects[t.obj].there
    /\ t.at = "verdict" /\ ~t.good /\ t.obj # 0 => ~objects[t.obj].indexed \/ t.obj \in torn

PathsKnown ==
    \A f \in Files : path[f] # 0 => Prepared /\ path[f] \in 1..Len(objects) /\ objects[path[f]].file = f
TasksSound ==
    /\ \A i \in DOMAIN tasks : TaskSound(tasks[i])
    /\ \A i, j \in DOMAIN tasks : tasks[i].obj # 0 /\ tasks[i].obj = tasks[j].obj => i = j

InQueue(f) == current # 0 /\ f \in queues[current].files
Kept(f) == hand[f].at \in {"remembered", "admitted", "ensured"} \/ InQueue(f)
Worked(f) == \E i \in DOMAIN tasks : tasks[i].file = f
Recovered(f) == f \in pass.todo \/ f \in pass.again

(* Before there is a group nobody works, and nobody who has a file saves it.*)
GroupKnown ==
    ~group.live =>
        /\ tasks = <<>> /\ failures = {} /\ batch.stage \notin {"ensured", "queued"}
        /\ \A f \in Files : hand[f].at # "ensured" /\ (Kept(f) => ref[f] # "saving")
BatchKnown ==
    /\ batch.stage # "none" => current # 0
    /\ current # 0 => (queues[current].busy <=> batch.stage # "none")
    /\ batch.stage \in {"taken", "admitted", "ensured"} => batch.files \subseteq queues[current].files

(* The pass takes up what was in nobody's hands when it read the refs, and *)
(* what was being saved then is in nobody's hands until it is queued again.*)
PassKnown ==
    /\ pass.at # "taken" => pass.todo = {} /\ pass.again = {}
    /\ \A f \in pass.todo : pass.refs[f] \in {"pending", "downloading", "saving"}
    /\ \A f \in Files : pass.refs[f] # "none" => ref[f] # "none"
    /\ pass.at = "read" /\ ~group.live => \A f \in Files : pass.refs[f] # "none" => ref[f] = pass.refs[f]
    /\ \A f \in Files : pass.refs[f] = "saving" =>
          /\ pass.at = "read" /\ ~group.live => ~Kept(f)
          /\ pass.at = "taken" => ~Kept(f) /\ ~Worked(f) /\ f \notin failures

(* What the stage of a task says about the ref of its file.                *)
RefFits(t) ==
    /\ t.at = "waiting" => ref[t.file] \in {"pending", "downloading", "saving", "failed"}
    /\ t.at = "download" => ref[t.file] = "downloading"
    /\ t.at \in {"save", "index"} => ref[t.file] = "saving" /\ path[t.file] \in {t.obj, 0}
    /\ t.at \in {"check", "undo"} => ref[t.file] = "success"
    /\ t.at = "verdict" =>
          \/ t.good /\ ref[t.file] = "success"
          \/ ~t.good /\ t.obj = 0 /\ ref[t.file] = "downloading"
          \/ ~t.good /\ t.obj # 0 /\ ~objects[t.obj].indexed /\ ref[t.file] = "saving" /\ path[t.file] \in {t.obj, 0}
          \/ /\ ~t.good /\ t.obj # 0 /\ t.abort /\ ref[t.file] = "success"
             /\ objects[t.obj].there => objects[t.obj].indexed

(* A file that is in one hand only: whose it is, and how far it has come.  *)
OneHand(f) ==
    /\ InQueue(f) => hand[f].at \in {"idle", "target"}
    /\ Kept(f) => ref[f] = "pending" /\ ~Worked(f) /\ f \notin failures /\ ~Recovered(f)
    /\ Worked(f) => f \notin failures /\ ~Recovered(f)
    /\ f \in failures => ~Recovered(f) /\ ref[f] \in {"pending", "downloading", "saving", "failed"}
    /\ f \in pass.todo => f \notin pass.again /\ ref[f] = pass.refs[f]
    /\ f \in pass.again => ref[f] = "pending"
OneTask(f) ==
    /\ \A i, j \in DOMAIN tasks : tasks[i].file = f /\ tasks[j].file = f => i = j
    /\ \A i \in DOMAIN tasks : tasks[i].file = f => RefFits(tasks[i])
OneIndex(f) ==
    \A o \in DOMAIN objects : objects[o].file = f /\ objects[o].indexed =>
        /\ ref[f] \in {"success", "cancelled"}
        /\ \A p \in DOMAIN objects : objects[p].file = f /\ objects[p].indexed => p = o
StraysOf(f) ==
    \A o \in DOMAIN objects :
        objects[o].file = f /\ objects[o].there /\ ~objects[o].indexed /\ ~objects[o].told =>
            \/ Sent!Busy(o)
            \/ ref[f] = "saving" /\ path[f] \in {o, 0} /\ ~Worked(f) /\ f \notin failures
Once(f) == OneHand(f) /\ OneTask(f) /\ OneIndex(f) /\ StraysOf(f)
AllOnce == \A f \in Files \ twice : Once(f)

SentTyped == StoreTyped /\ WorkTyped /\ PassTyped /\ NewsTyped /\ AlbumTyped
SentInv ==
    /\ SentTyped
    /\ PathsKnown /\ TasksSound /\ Sent!IndexedIsThere
    /\ GroupKnown /\ BatchKnown /\ PassKnown /\ AllOnce

-----------------------------------------------------------------------------
(* Edits of tasks and of objects.                                          *)

LEMMA WorkAre ==
    ASSUME WorkTyped
    PROVE  /\ Len(tasks) \in Nat /\ DOMAIN tasks = 1..Len(tasks) /\ tasks \in [1..Len(tasks) -> WorkRecord]
           /\ \A i \in DOMAIN tasks : tasks[i] \in WorkRecord
           /\ group.live \in BOOLEAN /\ failures \subseteq Files
BY LenProperties DEF WorkTyped, GroupShape

LEMMA WorkFields ==
    ASSUME NEW t \in WorkRecord
    PROVE  /\ t.file \in Files /\ t.at \in SentStages /\ t.obj \in Nat /\ t.good \in BOOLEAN /\ t.abort \in BOOLEAN
           /\ t.kind \in {"single", "album", "again"}
BY DEF WorkRecord

LEMMA ObjectsAre ==
    ASSUME StoreTyped
    PROVE  /\ Len(objects) \in Nat /\ DOMAIN objects = 1..Len(objects)
           /\ objects \in [1..Len(objects) -> ObjectRecord]
           /\ \A o \in DOMAIN objects : objects[o] \in ObjectRecord
BY LenProperties DEF StoreTyped

LEMMA ObjectFields ==
    ASSUME NEW o \in ObjectRecord
    PROVE  o.file \in Files /\ o.there \in BOOLEAN /\ o.indexed \in BOOLEAN /\ o.told \in BOOLEAN
BY DEF ObjectRecord

(* What a task turns into.                                                 *)
Turned(t, u, s, n, b) ==
    /\ u \in WorkRecord /\ u.file = t.file /\ u.kind = t.kind /\ u.abort = t.abort
    /\ u.at = s /\ u.obj = n /\ u.good = b

LEMMA AtEdit ==
    ASSUME NEW t \in WorkRecord, NEW s \in SentStages
    PROVE  Turned(t, [t EXCEPT !.at = s], s, t.obj, t.good)
BY DEF WorkRecord, Turned

LEMMA VerdictEdit ==
    ASSUME NEW t \in WorkRecord, NEW b \in BOOLEAN
    PROVE  Turned(t, [t EXCEPT !.at = "verdict", !.good = b], "verdict", t.obj, b)
<1> DEFINE u == [t EXCEPT !.at = "verdict"]
<1>1. u \in WorkRecord /\ Turned(t, u, "verdict", t.obj, t.good)
    BY AtEdit DEF SentStages, Turned
<1> HIDE DEF u
<1>2. /\ [u EXCEPT !.good = b] \in WorkRecord /\ [u EXCEPT !.good = b].good = b
      /\ [u EXCEPT !.good = b].file = u.file /\ [u EXCEPT !.good = b].kind = u.kind
      /\ [u EXCEPT !.good = b].at = u.at /\ [u EXCEPT !.good = b].obj = u.obj
      /\ [u EXCEPT !.good = b].abort = u.abort
    BY <1>1 DEF WorkRecord
<1>3. [t EXCEPT !.at = "verdict", !.good = b] = [u EXCEPT !.good = b]
    BY DEF u
<1> QED BY <1>1, <1>2, <1>3 DEF Turned

LEMMA SaveEdit ==
    ASSUME NEW t \in WorkRecord, NEW n \in Nat
    PROVE  Turned(t, [t EXCEPT !.at = "save", !.obj = n], "save", n, t.good)
<1> DEFINE u == [t EXCEPT !.at = "save"]
<1>1. u \in WorkRecord /\ Turned(t, u, "save", t.obj, t.good)
    BY AtEdit DEF SentStages, Turned
<1> HIDE DEF u
<1>2. /\ [u EXCEPT !.obj = n] \in WorkRecord /\ [u EXCEPT !.obj = n].good = u.good
      /\ [u EXCEPT !.obj = n].file = u.file /\ [u EXCEPT !.obj = n].kind = u.kind
      /\ [u EXCEPT !.obj = n].at = u.at /\ [u EXCEPT !.obj = n].obj = n
      /\ [u EXCEPT !.obj = n].abort = u.abort
    BY <1>1 DEF WorkRecord
<1>3. [t EXCEPT !.at = "save", !.obj = n] = [u EXCEPT !.obj = n]
    BY DEF u
<1> QED BY <1>1, <1>2, <1>3 DEF Turned

LEMMA AbortEdit ==
    ASSUME NEW t \in WorkRecord
    PROVE  LET u == [t EXCEPT !.abort = TRUE]
           IN  /\ u \in WorkRecord /\ u.file = t.file /\ u.kind = t.kind /\ u.at = t.at /\ u.obj = t.obj
               /\ u.good = t.good /\ u.abort
BY DEF WorkRecord

LEMMA TaskSet ==
    ASSUME WorkTyped, NEW i \in DOMAIN tasks, NEW u \in WorkRecord, tasks' = [tasks EXCEPT ![i] = u]
    PROVE  /\ tasks' \in Seq(WorkRecord) /\ DOMAIN tasks' = DOMAIN tasks /\ tasks'[i] = u
           /\ \A j \in DOMAIN tasks : j # i => tasks'[j] = tasks[j]
BY WorkAre, ExceptSeq DEF WorkTyped

(* An object changes, if there is one, but stays that of its file.         *)
ObjectTurns(n, Q) ==
    /\ Q \in Seq(ObjectRecord) /\ Len(Q) = Len(objects) /\ DOMAIN Q = DOMAIN objects
    /\ \A m \in DOMAIN objects : m # n => Q[m] = objects[m]
    /\ n # 0 => n \in DOMAIN objects /\ Q[n].file = objects[n].file /\ (objects[n].told => Q[n].told)

LEMMA ObjectSame ==
    ASSUME StoreTyped, NEW n \in Nat, n # 0 => n \in DOMAIN objects
    PROVE  ObjectTurns(n, objects)
BY ObjectsAre DEF ObjectTurns, StoreTyped

LEMMA ObjectPut ==
    ASSUME StoreTyped, NEW n \in DOMAIN objects, NEW p \in ObjectRecord, p.file = objects[n].file,
           objects[n].told => p.told
    PROVE  ObjectTurns(n, [objects EXCEPT ![n] = p]) /\ [objects EXCEPT ![n] = p][n] = p
    BY ExceptSeq, ObjectsAre DEF StoreTyped, ObjectTurns

LEMMA ThereEdit ==
    ASSUME StoreTyped, NEW n \in DOMAIN objects, NEW b \in BOOLEAN
    PROVE  LET Q == [objects EXCEPT ![n].there = b]
           IN  ObjectTurns(n, Q) /\ Q[n].there = b /\ Q[n].indexed = objects[n].indexed
<1> DEFINE p == [objects[n] EXCEPT !.there = b]
<1>1. objects[n] \in ObjectRecord
    BY ObjectsAre
<1>2. /\ p \in ObjectRecord /\ p.file = objects[n].file /\ p.told = objects[n].told
      /\ p.there = b /\ p.indexed = objects[n].indexed
    BY <1>1 DEF ObjectRecord
<1>3. [objects EXCEPT ![n].there = b] = [objects EXCEPT ![n] = p]
    OBVIOUS
<1> HIDE DEF p
<1> QED BY <1>2, <1>3, ObjectPut

LEMMA IndexEdit ==
    ASSUME StoreTyped, NEW n \in DOMAIN objects, NEW b \in BOOLEAN
    PROVE  LET Q == [objects EXCEPT ![n].indexed = b]
           IN  ObjectTurns(n, Q) /\ Q[n].indexed = b /\ Q[n].there = objects[n].there
<1> DEFINE p == [objects[n] EXCEPT !.indexed = b]
<1>1. objects[n] \in ObjectRecord
    BY ObjectsAre
<1>2. /\ p \in ObjectRecord /\ p.file = objects[n].file /\ p.told = objects[n].told
      /\ p.indexed = b /\ p.there = objects[n].there
    BY <1>1 DEF ObjectRecord
<1>3. [objects EXCEPT ![n].indexed = b] = [objects EXCEPT ![n] = p]
    OBVIOUS
<1> HIDE DEF p
<1> QED BY <1>2, <1>3, ObjectPut

LEMMA BothEdit ==
    ASSUME StoreTyped, NEW n \in DOMAIN objects, NEW b \in BOOLEAN
    PROVE  LET Q == [objects EXCEPT ![n].indexed = TRUE, ![n].there = b]
           IN  ObjectTurns(n, Q) /\ Q[n].indexed /\ Q[n].there = b
<1> DEFINE q == [objects[n] EXCEPT !.indexed = TRUE]
           p == [q EXCEPT !.there = b]
<1>1. objects[n] \in ObjectRecord
    BY ObjectsAre
<1>2. q \in ObjectRecord /\ q.file = objects[n].file /\ q.told = objects[n].told /\ q.indexed
    BY <1>1 DEF ObjectRecord
<1>3. [objects EXCEPT ![n].indexed = TRUE, ![n].there = b] = [objects EXCEPT ![n] = p]
    BY ObjectsAre, <1>1 DEF ObjectRecord
<1> HIDE DEF q
<1>4. p \in ObjectRecord /\ p.file = q.file /\ p.told = q.told /\ p.indexed = q.indexed /\ p.there = b
    BY <1>2 DEF ObjectRecord
<1> HIDE DEF p
<1> QED BY <1>2, <1>3, <1>4, ObjectPut

LEMMA ToldEdit ==
    ASSUME StoreTyped, NEW n \in DOMAIN objects
    PROVE  LET Q == [objects EXCEPT ![n].told = TRUE]
           IN  /\ ObjectTurns(n, Q) /\ Q[n].told
               /\ Q[n].indexed = objects[n].indexed /\ Q[n].there = objects[n].there
<1> DEFINE p == [objects[n] EXCEPT !.told = TRUE]
<1>1. objects[n] \in ObjectRecord
    BY ObjectsAre
<1>2. /\ p \in ObjectRecord /\ p.file = objects[n].file /\ p.told
      /\ p.indexed = objects[n].indexed /\ p.there = objects[n].there
    BY <1>1 DEF ObjectRecord
<1>3. [objects EXCEPT ![n].told = TRUE] = [objects EXCEPT ![n] = p]
    OBVIOUS
<1> HIDE DEF p
<1> QED BY <1>2, <1>3, ObjectPut

-----------------------------------------------------------------------------
(* What a step leaves alone of a file.                                     *)

SameHands(g) ==
    /\ ref'[g] = ref[g] /\ path'[g] = path[g]
    /\ Kept(g)' => Kept(g)
    /\ InQueue(g)' => (InQueue(g) /\ hand'[g].at \in {hand[g].at, "idle", "target"})
    /\ g \in failures' <=> g \in failures
    /\ g \in pass'.todo => g \in pass.todo /\ pass'.refs[g] = pass.refs[g]
    /\ g \in pass'.again => g \in pass.again
SameTasks(g) ==
    /\ \A j \in DOMAIN tasks' : tasks'[j].file = g =>
          \E k \in DOMAIN tasks : /\ tasks[k].file = g /\ tasks'[j].at = tasks[k].at
                                  /\ tasks'[j].obj = tasks[k].obj /\ tasks'[j].good = tasks[k].good
                                  /\ tasks[k].abort => tasks'[j].abort
    /\ \A j, k \in DOMAIN tasks' : tasks'[j].file = g /\ tasks'[k].file = g => j = k
    /\ \A k \in DOMAIN tasks : tasks[k].file = g =>
          \E j \in DOMAIN tasks' : tasks'[j].file = g /\ tasks'[j].obj = tasks[k].obj
SameObjects(g) ==
    /\ \A o \in DOMAIN objects' : objects'[o].file = g =>
          /\ o \in DOMAIN objects /\ objects[o].file = g
          /\ objects'[o].there = objects[o].there /\ objects'[o].indexed = objects[o].indexed
          /\ objects[o].told => objects'[o].told
    /\ \A o \in DOMAIN objects : objects[o].file = g => o \in DOMAIN objects' /\ objects'[o].file = g

LEMMA BusyOf ==
    ASSUME TasksSound, NEW o, Sent!Busy(o), o # 0
    PROVE  \E k \in DOMAIN tasks : tasks[k].obj = o /\ tasks[k].file = objects[o].file
BY DEF TasksSound, TaskSound, Sent!Busy

(* Its hands may change, if it stays in one.                               *)
LEMMA FileHeld ==
    ASSUME StoreTyped, TasksSound, NEW g, Once(g), OneHand(g)', SameTasks(g), SameObjects(g),
           ref'[g] = ref[g], path'[g] = path[g], g \in failures' => g \in failures
    PROVE  Once(g)'
    BY ObjectsAre, BusyOf DEF SameTasks, Worked, Once, OneTask, TasksSound, TaskSound, SameObjects,
        RefFits, OneIndex, Sent!Busy, StraysOf

LEMMA FileStays ==
    ASSUME StoreTyped, TasksSound, NEW g, Once(g), SameHands(g), SameTasks(g), SameObjects(g)
    PROVE  Once(g)'
    BY FileHeld DEF SameTasks, Worked, Once, OneHand, SameHands, Recovered

-----------------------------------------------------------------------------
(* A task takes a step with the object it has.                             *)

LEMMA WorkStep ==
    ASSUME SentInv, NEW i \in DOMAIN tasks, NEW u \in WorkRecord, tasks' = [tasks EXCEPT ![i] = u],
           u.file = tasks[i].file, u.obj = tasks[i].obj, ObjectTurns(u.obj, objects'),
           UNCHANGED <<hand, queues, current, batch, group, failures, pass, transfer, path>>,
           ref' \in [Files -> RefStates], ref'[u.file] = ref[u.file] \/ ref'[u.file] # "none", \A g \in Files : g # u.file => ref'[g] = ref[g],
           news' \in Seq(RowStates), torn \subseteq torn', twice \subseteq twice', TaskSound(u)',
           u.file \notin twice' => RefFits(u)',
           u.file \notin twice' =>
               \/ /\ u.obj # 0 /\ objects'[u.obj].indexed => objects[u.obj].indexed
                  /\ ref'[u.file] = ref[u.file] \/ ref[u.file] \notin {"success", "cancelled"}
               \/ ref[u.file] \notin {"success", "cancelled"} /\ ref'[u.file] = "success"
    PROVE  SentInv'
<1> DEFINE n == u.obj
           f == u.file
<1>0. /\ n \in Nat /\ f \in Files /\ n = tasks[i].obj /\ f = tasks[i].file
      /\ ObjectTurns(n, objects') /\ tasks[i] \in WorkRecord
    BY WorkFields, WorkAre DEF SentInv, SentTyped
<1>1. /\ tasks' \in Seq(WorkRecord) /\ DOMAIN tasks' = DOMAIN tasks /\ tasks'[i] = u
      /\ \A j \in DOMAIN tasks : j # i => tasks'[j] = tasks[j]
    BY TaskSet DEF SentInv, SentTyped
<1>2. SentTyped'
    BY <1>0, <1>1 DEF SentInv, SentTyped, StoreTyped, WorkTyped, PassTyped, NewsTyped, AlbumTyped, ObjectTurns
<1>3. /\ DOMAIN objects' = DOMAIN objects /\ Len(objects') = Len(objects)
      /\ \A o \in DOMAIN objects : objects'[o].file = objects[o].file
      /\ \A o \in DOMAIN objects : o # n => objects'[o] = objects[o]
      /\ \A o \in DOMAIN objects : objects[o].told => objects'[o].told
      /\ DOMAIN objects = 1..Len(objects)
    <2>1. DOMAIN objects = 1..Len(objects) /\ Len(objects) \in Nat
        BY ObjectsAre DEF SentInv, SentTyped
    <2>2. /\ DOMAIN objects' = DOMAIN objects /\ Len(objects') = Len(objects)
          /\ \A o \in DOMAIN objects : o # n => objects'[o] = objects[o]
          /\ n # 0 => n \in DOMAIN objects /\ objects'[n].file = objects[n].file
                         /\ (objects[n].told => objects'[n].told)
        BY <1>0 DEF ObjectTurns
    <2>3. \A o \in DOMAIN objects : o # 0
        BY <2>1
    <2> HIDE DEF n
    <2> QED BY <2>1, <2>2, <2>3
<1>4. /\ n # 0 => n \in DOMAIN objects /\ objects[n].file = f
      /\ \A j \in DOMAIN tasks : TaskSound(tasks[j])
      /\ \A j \in DOMAIN tasks : j # i /\ tasks[j].obj # 0 => tasks[j].obj # n
    BY <1>0, <1>3 DEF SentInv, TasksSound, TaskSound
<1>5. PathsKnown'
    BY <1>3 DEF SentInv, PathsKnown
<1>6. TasksSound'
    BY <1>1, <1>3, <1>4, <1>0 DEF TaskSound, SentInv, TasksSound
<1>7. \A o : Sent!Busy(o)' <=> Sent!Busy(o)
    BY <1>0, <1>1 DEF Sent!Busy
<1>8. Sent!IndexedIsThere'
    BY <1>0, <1>7, <1>3 DEF Sent!Busy, SentInv, Sent!IndexedIsThere
<1>9. \A g : Worked(g)' <=> Worked(g)
    BY <1>0, <1>1 DEF Worked
<1>10. \A g : (Kept(g)' <=> Kept(g)) /\ (InQueue(g)' <=> InQueue(g))
    BY DEF Kept, InQueue
<1>11. group.live /\ group'.live
    BY DEF SentInv, GroupKnown
<1>12. GroupKnown' /\ BatchKnown' /\ PassKnown'
    BY <1>0, <1>9, <1>10, <1>11 DEF SentInv, GroupKnown, BatchKnown, PassKnown
<1>13. ASSUME NEW g \in Files \ twice', g # f
       PROVE  Once(g)'
    BY <1>13, <1>10, <1>0, <1>1, <1>3, <1>4, FileStays DEF SentInv, AllOnce, SameHands, SameTasks,
        Once, OneTask, SameObjects, SentTyped
<1>14. ASSUME f \notin twice'
       PROVE  Once(f)'
    <2>1. Once(f) /\ Worked(f)
        BY <1>0, <1>14 DEF SentInv, AllOnce, Worked
    <2>2. OneHand(f)'
        BY <1>9, <1>10, <2>1 DEF Once, OneHand, Recovered
    <2>3. OneTask(f)'
        BY <1>0, <1>1, <1>14, <2>1 DEF Once, OneTask
    <2>4. OneIndex(f)'
        BY <1>3, <1>4, <2>1, <1>14 DEF Once, OneIndex
    <2>5. StraysOf(f)'
        BY <1>0, <1>7, <1>3, <2>1 DEF Sent!Busy, Once, StraysOf
    <2> QED BY <2>2, <2>3, <2>4, <2>5 DEF Once
<1>15. AllOnce'
    BY <1>13, <1>14 DEF AllOnce
<1> QED BY <1>2, <1>5, <1>6, <1>8, <1>12, <1>15 DEF SentInv

LEMMA TellTyped ==
    ASSUME NewsTyped, Sent!Tell
    PROVE  news' \in Seq(RowStates)
<1>1. \A g, ts : Sent!Status(g, ts) \in RowStates
    BY DEF Sent!Status, RowStates
<1>2. news \in Seq(RowStates)
    BY DEF NewsTyped
<1>3. Sent!Status(group', tasks') \in RowStates
    BY <1>1
<1> DEFINE s == Sent!Status(group', tasks')
<1>4. news' = news \/ news' = Append(news, s)
    BY DEF Sent!Tell
<1> HIDE DEF s
<1> QED BY <1>2, <1>3, <1>4, AppendProperties DEF s

LEMMA NotedIs ==
    ASSUME StoreTyped, NEW f \in Files, NEW s \in RefStates
    PROVE  /\ Sent!Noted(f, s) \in [Files -> RefStates]
           /\ \A g \in Files : g # f => Sent!Noted(f, s)[g] = ref[g]
           /\ Sent!Noted(f, s)[f] \in {"success", s}
           /\ ref[f] = "success" /\ s # "cancelled" => Sent!Noted(f, s)[f] = "success"
           /\ ref[f] # "success" \/ s = "cancelled" => Sent!Noted(f, s)[f] = s
BY DEF Sent!Noted, StoreTyped

LEMMA TaskIs ==
    ASSUME SentInv, NEW i \in DOMAIN tasks
    PROVE  /\ tasks[i] \in WorkRecord /\ TaskSound(tasks[i])
           /\ tasks[i].file \in Files /\ tasks[i].obj \in Nat /\ tasks[i].at \in SentStages
           /\ tasks[i].obj # 0 => tasks[i].obj \in DOMAIN objects
           /\ tasks[i].file \notin twice => RefFits(tasks[i]) /\ Once(tasks[i].file)
           /\ StoreTyped /\ NewsTyped
           /\ ref \in [Files -> RefStates] /\ news \in Seq(RowStates)
    BY WorkAre, WorkFields, ObjectsAre DEF SentInv, SentTyped, TasksSound, TaskSound, AllOnce, Once,
        OneTask, StoreTyped, NewsTyped

LEMMA StartKeeps ==
    ASSUME SentInv, NEW i \in DOMAIN tasks, Sent!Start(i)
    PROVE  SentInv'
<1>0. PICK t, u : t = tasks[i] /\ u = [t EXCEPT !.at = "download"]
    OBVIOUS
<1>1. /\ t.at = "waiting" /\ tasks' = [tasks EXCEPT ![i] = u] /\ ref' = Sent!Noted(t.file, "downloading")
      /\ Sent!Tell
      /\ UNCHANGED <<group, failures, transfer, path, objects, hand, queues, current, batch, pass, late, twice, torn>>
    BY <1>0 DEF Sent!Start, Sent!At, Sent!Set, Sent!Note, Sent!album, Sent!ghosts
<1>2. Turned(t, u, "download", t.obj, t.good) /\ u \in WorkRecord
    <2>1. t \in WorkRecord
        BY <1>0, TaskIs
    <2>2. Turned(t, u, "download", t.obj, t.good)
        BY <1>0, <2>1, AtEdit DEF SentStages
    <2> QED BY <2>2 DEF Turned
<1>3. ObjectTurns(t.obj, objects')
    BY <1>0, <1>1, TaskIs, ObjectSame
<1>4. /\ ref' \in [Files -> RefStates] /\ \A g \in Files : g # t.file => ref'[g] = ref[g]
      /\ ref[t.file] # "success" => ref'[t.file] = "downloading"
      /\ ref'[t.file] # "none"
    BY <1>0, <1>1, TaskIs, NotedIs DEF RefStates
<1>5. news' \in Seq(RowStates)
    BY <1>0, <1>1, TaskIs, TellTyped
<1>6. TaskSound(t) /\ (t.file \notin twice => RefFits(t))
    BY <1>0, TaskIs
<1>7. TaskSound(u)'
    BY <1>0, <1>1, <1>2, <1>6 DEF TaskSound, Turned
<1>8. u.file \notin twice' => RefFits(u)' /\ ref[u.file] \notin {"success", "cancelled"}
    BY <1>0, <1>1, <1>2, <1>4, <1>6 DEF RefFits, Turned
<1>9. u.file = tasks[i].file /\ u.obj = tasks[i].obj
    BY <1>0, <1>2 DEF Turned
<1> QED BY <1>0, <1>1, <1>2, <1>3, <1>4, <1>5, <1>7, <1>8, <1>9, WorkStep

(* A task ends its work for good or ill, or goes on; nothing is noted.     *)
LEMMA QuietWork ==
    ASSUME SentInv, NEW i \in DOMAIN tasks, NEW u \in WorkRecord, tasks' = [tasks EXCEPT ![i] = u],
           u.file = tasks[i].file, u.obj = tasks[i].obj, ObjectTurns(u.obj, objects'),
           UNCHANGED <<ref, hand, queues, current, batch, group, failures, pass, transfer, path, news>>,
           torn \subseteq torn', twice \subseteq twice', TaskSound(u)',
           u.file \notin twice' => RefFits(u)',
           u.obj # 0 /\ objects'[u.obj].indexed => objects[u.obj].indexed
    PROVE  SentInv'
    BY WorkStep DEF SentInv, SentTyped, StoreTyped, NewsTyped

LEMMA DownloadFailsKeeps ==
    ASSUME SentInv, NEW i \in DOMAIN tasks, Sent!DownloadFails(i)
    PROVE  SentInv'
<1>0. PICK t, u : t = tasks[i] /\ u = [t EXCEPT !.at = "verdict", !.good = FALSE]
    OBVIOUS
<1>1. /\ t.at = "download" /\ tasks' = [tasks EXCEPT ![i] = u]
      /\ UNCHANGED <<group, failures, transfer, ref, path, objects, hand, queues, current, batch, news, pass>>
      /\ UNCHANGED <<late, twice, torn>>
    BY <1>0 DEF Sent!DownloadFails, Sent!At, Sent!Set, Sent!Verdict, Sent!album, Sent!ghosts, Sent!store
<1>2. Turned(t, u, "verdict", t.obj, FALSE) /\ u \in WorkRecord
    <2>1. t \in WorkRecord
        BY <1>0, TaskIs
    <2>2. Turned(t, u, "verdict", t.obj, FALSE)
        BY <1>0, <2>1, VerdictEdit
    <2> QED BY <2>2 DEF Turned
<1>3. ObjectTurns(t.obj, objects')
    BY <1>0, <1>1, TaskIs, ObjectSame
<1>4. TaskSound(t) /\ (t.file \notin twice => RefFits(t))
    BY <1>0, TaskIs
<1>5. TaskSound(u)' /\ u.obj = 0
    BY <1>0, <1>1, <1>2, <1>4 DEF TaskSound, Turned
<1>6. u.file \notin twice' => RefFits(u)'
    BY <1>0, <1>1, <1>2, <1>4, <1>5 DEF RefFits, Turned
<1>7. u.file = tasks[i].file /\ u.obj = tasks[i].obj
    BY <1>0, <1>2 DEF Turned
<1> QED BY <1>0, <1>1, <1>2, <1>3, <1>5, <1>6, <1>7, QuietWork

LEMMA StoreKeeps ==
    ASSUME SentInv, NEW i \in DOMAIN tasks, Sent!Store(i)
    PROVE  SentInv'
<1>0. PICK t, u : t = tasks[i] /\ u = [t EXCEPT !.at = "index"]
    OBVIOUS
<1>1. /\ t.at = "save" /\ tasks' = [tasks EXCEPT ![i] = u] /\ objects' = [objects EXCEPT ![t.obj].there = TRUE]
      /\ UNCHANGED <<group, failures, transfer, ref, path, hand, queues, current, batch, news, pass>>
      /\ UNCHANGED <<late, twice, torn>>
    BY <1>0 DEF Sent!Store, Sent!At, Sent!Set, Sent!album, Sent!ghosts
<1>2. Turned(t, u, "index", t.obj, t.good) /\ u \in WorkRecord
    <2>1. t \in WorkRecord
        BY <1>0, TaskIs
    <2>2. Turned(t, u, "index", t.obj, t.good)
        BY <1>0, <2>1, AtEdit DEF SentStages
    <2> QED BY <2>2 DEF Turned
<1>3. TaskSound(t) /\ (t.file \notin twice => RefFits(t)) /\ StoreTyped
      /\ (t.obj # 0 => t.obj \in DOMAIN objects)
    BY <1>0, TaskIs
<1>4. t.obj # 0 /\ t.obj \in DOMAIN objects
    BY <1>0, <1>1, <1>3 DEF TaskSound
<1>5. /\ ObjectTurns(t.obj, objects') /\ objects'[t.obj].there
      /\ objects'[t.obj].indexed = objects[t.obj].indexed
    BY <1>0, <1>1, <1>3, <1>4, ThereEdit
<1>6. objects'[t.obj].file = objects[t.obj].file /\ Len(objects') = Len(objects)
    BY <1>0, <1>4, <1>5 DEF ObjectTurns
<1>7. TaskSound(u)'
    BY <1>0, <1>1, <1>2, <1>3, <1>4, <1>5, <1>6 DEF TaskSound, Turned
<1>8. u.file \notin twice' => RefFits(u)'
    BY <1>0, <1>1, <1>2, <1>3, <1>5 DEF RefFits, Turned
<1>9. u.file = tasks[i].file /\ u.obj = tasks[i].obj /\ u.obj = t.obj
    BY <1>0, <1>2 DEF Turned
<1> QED BY <1>0, <1>1, <1>2, <1>5, <1>7, <1>8, <1>9, QuietWork

(* The object is there or not afterwards, and the work has failed.         *)
LEMMA WorkFails ==
    ASSUME SentInv, NEW i \in DOMAIN tasks, tasks[i].at \in {"save", "index"},
           tasks' = [tasks EXCEPT ![i] = [tasks[i] EXCEPT !.at = "verdict", !.good = FALSE]],
           NEW b \in BOOLEAN, objects' = [objects EXCEPT ![tasks[i].obj].there = b],
           UNCHANGED <<group, failures, transfer, ref, path, hand, queues, current, batch, news, pass>>,
           UNCHANGED <<late, twice, torn>>
    PROVE  SentInv'
<1>0. PICK t, u : t = tasks[i] /\ u = [t EXCEPT !.at = "verdict", !.good = FALSE]
    OBVIOUS
<1>1. t.at \in {"save", "index"} /\ tasks' = [tasks EXCEPT ![i] = u]
      /\ objects' = [objects EXCEPT ![t.obj].there = b]
    BY <1>0
<1>2. Turned(t, u, "verdict", t.obj, FALSE) /\ u \in WorkRecord
    <2>1. t \in WorkRecord
        BY <1>0, TaskIs
    <2>2. Turned(t, u, "verdict", t.obj, FALSE)
        BY <1>0, <2>1, VerdictEdit
    <2> QED BY <2>2 DEF Turned
<1>3. TaskSound(t) /\ (t.file \notin twice => RefFits(t)) /\ StoreTyped
      /\ (t.obj # 0 => t.obj \in DOMAIN objects)
    BY <1>0, TaskIs
<1>4. t.obj # 0 /\ t.obj \in DOMAIN objects /\ ~objects[t.obj].indexed
    BY <1>0, <1>1, <1>3 DEF TaskSound
<1>5. ObjectTurns(t.obj, objects') /\ objects'[t.obj].indexed = objects[t.obj].indexed
    <2>1. objects' = [objects EXCEPT ![t.obj].there = b]
        BY <1>1
    <2>2. LET Q == [objects EXCEPT ![t.obj].there = b]
          IN  ObjectTurns(t.obj, Q) /\ Q[t.obj].there = b /\ Q[t.obj].indexed = objects[t.obj].indexed
        BY <1>3, <1>4, ThereEdit, Zenon
    <2> QED BY <2>1, <2>2, Zenon
<1>6. objects'[t.obj].file = objects[t.obj].file /\ Len(objects') = Len(objects)
    BY <1>0, <1>4, <1>5 DEF ObjectTurns
<1>7. TaskSound(u)'
    BY <1>0, <1>2, <1>3, <1>4, <1>5, <1>6 DEF TaskSound, Turned
<1>8. u.file \notin twice' => RefFits(u)'
    BY <1>0, <1>1, <1>2, <1>3, <1>4, <1>5 DEF RefFits, Turned
<1>9. u.file = tasks[i].file /\ u.obj = tasks[i].obj /\ u.obj = t.obj
    BY <1>0, <1>2 DEF Turned
<1> QED BY <1>0, <1>1, <1>2, <1>5, <1>7, <1>8, <1>9, QuietWork

LEMMA FailuresKeep ==
    ASSUME SentInv, NEW i \in DOMAIN tasks, Sent!StoreFails(i) \/ Sent!IndexFails(i)
    PROVE  SentInv'
    BY WorkFails DEF Sent!StoreFails, Sent!At, Sent!Set, Sent!Verdict, Sent!album, Sent!ghosts,
        Sent!IndexFails

LEMMA IndexKeeps ==
    ASSUME SentInv, NEW i \in DOMAIN tasks, Sent!Index(i)
    PROVE  SentInv'
<1>0. PICK t, u : t = tasks[i] /\ u = [t EXCEPT !.at = "check"]
    OBVIOUS
<1>1. /\ t.at = "index" /\ tasks' = [tasks EXCEPT ![i] = u] /\ objects' = [objects EXCEPT ![t.obj].indexed = TRUE]
      /\ ref' = [ref EXCEPT ![t.file] = "success"]
      /\ UNCHANGED <<group, failures, transfer, path, hand, queues, current, batch, news, pass>>
      /\ UNCHANGED <<late, twice, torn>>
    BY <1>0 DEF Sent!Index, Sent!At, Sent!Set, Sent!album, Sent!ghosts
<1>2. Turned(t, u, "check", t.obj, t.good) /\ u \in WorkRecord
    <2>1. t \in WorkRecord
        BY <1>0, TaskIs
    <2>2. Turned(t, u, "check", t.obj, t.good)
        BY <1>0, <2>1, AtEdit DEF SentStages
    <2> QED BY <2>2 DEF Turned
<1>3. TaskSound(t) /\ (t.file \notin twice => RefFits(t)) /\ StoreTyped
      /\ (t.obj # 0 => t.obj \in DOMAIN objects) /\ t.file \in Files
      /\ ref \in [Files -> RefStates] /\ news \in Seq(RowStates)
    BY <1>0, TaskIs
<1>4. t.obj # 0 /\ t.obj \in DOMAIN objects
    BY <1>0, <1>1, <1>3 DEF TaskSound
<1>5. /\ ObjectTurns(t.obj, objects') /\ objects'[t.obj].indexed
      /\ objects'[t.obj].there = objects[t.obj].there
    BY <1>0, <1>1, <1>3, <1>4, IndexEdit
<1>6. objects'[t.obj].file = objects[t.obj].file /\ Len(objects') = Len(objects)
    BY <1>0, <1>4, <1>5 DEF ObjectTurns
<1>7. TaskSound(u)'
    BY <1>0, <1>1, <1>2, <1>3, <1>4, <1>5, <1>6 DEF TaskSound, Turned
<1>8. /\ ref' \in [Files -> RefStates] /\ ref'[t.file] = "success"
      /\ \A g \in Files : g # t.file => ref'[g] = ref[g]
    BY <1>0, <1>1, <1>3 DEF RefStates
<1>9. u.file \notin twice' => RefFits(u)' /\ ref[u.file] \notin {"success", "cancelled"}
    BY <1>0, <1>1, <1>2, <1>3, <1>8 DEF RefFits, Turned
<1>10. u.file = tasks[i].file /\ u.obj = tasks[i].obj /\ u.obj = t.obj /\ u.file = t.file
    BY <1>0, <1>2 DEF Turned
<1>11. /\ ObjectTurns(u.obj, objects') /\ news' \in Seq(RowStates) /\ ref'[u.file] = "success"
       /\ torn \subseteq torn' /\ twice \subseteq twice'
       /\ \A g \in Files : g # u.file => ref'[g] = ref[g]
    BY <1>1, <1>3, <1>5, <1>8, <1>10
<1> QED BY <1>1, <1>2, <1>7, <1>8, <1>9, <1>10, <1>11, WorkStep

LEMMA IndexLostKeeps ==
    ASSUME SentInv, NEW i \in DOMAIN tasks, Sent!IndexLost(i)
    PROVE  SentInv'
<1>0. PICK t, u : t = tasks[i] /\ u = [t EXCEPT !.at = "verdict", !.good = FALSE]
    OBVIOUS
<1>1. PICK b \in BOOLEAN :
          /\ t.at = "index" /\ tasks' = [tasks EXCEPT ![i] = u]
          /\ objects' = [objects EXCEPT ![t.obj].indexed = TRUE, ![t.obj].there = b]
          /\ ref' = [ref EXCEPT ![t.file] = "success"]
          /\ twice' = twice \cup {t.file} /\ torn' = torn \cup {t.obj}
          /\ UNCHANGED <<group, failures, transfer, path, hand, queues, current, batch, news, pass>>
    BY <1>0 DEF Sent!IndexLost, Sent!At, Sent!Set, Sent!Verdict, Sent!album
<1>2. Turned(t, u, "verdict", t.obj, FALSE) /\ u \in WorkRecord
    <2>1. t \in WorkRecord
        BY <1>0, TaskIs
    <2>2. Turned(t, u, "verdict", t.obj, FALSE)
        BY <1>0, <2>1, VerdictEdit
    <2> QED BY <2>2 DEF Turned
<1>3. TaskSound(t) /\ StoreTyped
      /\ (t.obj # 0 => t.obj \in DOMAIN objects) /\ t.file \in Files
      /\ ref \in [Files -> RefStates] /\ news \in Seq(RowStates)
    BY <1>0, TaskIs
<1>4. t.obj # 0 /\ t.obj \in DOMAIN objects
    BY <1>0, <1>1, <1>3 DEF TaskSound
<1>5. ObjectTurns(t.obj, objects')
    BY <1>0, <1>1, <1>3, <1>4, BothEdit
<1>6. objects'[t.obj].file = objects[t.obj].file /\ Len(objects') = Len(objects)
    BY <1>0, <1>4, <1>5 DEF ObjectTurns
<1>7. TaskSound(u)'
    BY <1>0, <1>1, <1>2, <1>3, <1>4, <1>5, <1>6 DEF TaskSound, Turned
<1>8. /\ ref' \in [Files -> RefStates] /\ \A g \in Files : g # t.file => ref'[g] = ref[g]
      /\ ref'[t.file] # "none"
    BY <1>0, <1>1, <1>3 DEF RefStates
<1>9. u.file = tasks[i].file /\ u.obj = tasks[i].obj /\ u.obj = t.obj /\ u.file = t.file
    BY <1>0, <1>2 DEF Turned
<1>10. u.file \in twice' /\ twice \subseteq twice' /\ torn \subseteq torn'
    BY <1>0, <1>1, <1>9
<1> QED BY <1>0, <1>1, <1>2, <1>3, <1>5, <1>7, <1>8, <1>9, <1>10, WorkStep

LEMMA CheckKeeps ==
    ASSUME SentInv, NEW i \in DOMAIN tasks, Sent!Check(i)
    PROVE  SentInv'
<1>0. PICK t : t = tasks[i]
    OBVIOUS
<1>1. /\ t.at = "check"
      /\ UNCHANGED <<group, failures, transfer, ref, path, hand, queues, current, batch, news, pass>>
      /\ UNCHANGED <<late, twice, torn>>
    BY <1>0 DEF Sent!Check, Sent!At, Sent!Set, Sent!Verdict, Sent!album, Sent!ghosts
<1>2. TaskSound(t) /\ (t.file \notin twice => RefFits(t)) /\ StoreTyped /\ t \in WorkRecord
      /\ (t.obj # 0 => t.obj \in DOMAIN objects) /\ t.obj \in Nat
    BY <1>0, TaskIs
<1>3. t.obj # 0 /\ t.obj \in DOMAIN objects
    BY <1>0, <1>1, <1>2 DEF TaskSound
<1>4. CASE t.abort
    <2>0. PICK u : u = [t EXCEPT !.at = "undo"]
        OBVIOUS
    <2>1. tasks' = [tasks EXCEPT ![i] = u] /\ objects' = [objects EXCEPT ![t.obj].there = FALSE]
        BY <1>0, <2>0, <1>4 DEF Sent!Check, Sent!Set
    <2>2. Turned(t, u, "undo", t.obj, t.good) /\ u \in WorkRecord
        BY <1>0, <2>0, <1>2, AtEdit DEF SentStages, Turned
    <2>3. /\ ObjectTurns(t.obj, objects') /\ ~objects'[t.obj].there
          /\ objects'[t.obj].indexed = objects[t.obj].indexed
        BY <1>0, <2>0, <1>2, <1>3, <2>1, ThereEdit
    <2>4. objects'[t.obj].file = objects[t.obj].file /\ Len(objects') = Len(objects)
        BY <1>0, <2>0, <1>3, <2>3 DEF ObjectTurns
    <2>5. TaskSound(u)'
        BY <1>0, <2>0, <1>1, <1>2, <1>3, <1>4, <2>2, <2>3, <2>4 DEF TaskSound, Turned
    <2>6. u.file \notin twice' => RefFits(u)'
        BY <1>0, <2>0, <1>1, <1>2, <2>2 DEF RefFits, Turned
    <2>7. u.file = tasks[i].file /\ u.obj = tasks[i].obj /\ u.obj = t.obj
        BY <1>0, <2>0, <2>2 DEF Turned
    <2> QED BY <1>0, <2>0, <1>1, <2>1, <2>2, <2>3, <2>5, <2>6, <2>7, QuietWork
<1>5. CASE ~t.abort
    <2>0. PICK u : u = [t EXCEPT !.at = "verdict", !.good = TRUE]
        OBVIOUS
    <2>1. tasks' = [tasks EXCEPT ![i] = u] /\ objects' = objects
        BY <1>0, <2>0, <1>5 DEF Sent!Check, Sent!Verdict, Sent!Set
    <2>2. Turned(t, u, "verdict", t.obj, TRUE) /\ u \in WorkRecord
        BY <1>0, <2>0, <1>2, VerdictEdit DEF Turned
    <2>3. ObjectTurns(t.obj, objects')
        BY <1>0, <2>0, <1>2, <2>1, ObjectSame
    <2>5. TaskSound(u)'
        BY <1>0, <2>0, <1>1, <1>2, <1>3, <2>1, <2>2 DEF TaskSound, Turned
    <2>6. u.file \notin twice' => RefFits(u)'
        BY <1>0, <2>0, <1>1, <1>2, <2>1, <2>2 DEF RefFits, Turned
    <2>7. u.file = tasks[i].file /\ u.obj = tasks[i].obj /\ u.obj = t.obj
        BY <1>0, <2>0, <2>2 DEF Turned
    <2> QED BY <1>0, <2>0, <1>1, <2>1, <2>2, <2>3, <2>5, <2>6, <2>7, QuietWork
<1> QED BY <1>0, <1>4, <1>5

LEMMA UndoKeeps ==
    ASSUME SentInv, NEW i \in DOMAIN tasks, Sent!Undo(i)
    PROVE  SentInv'
<1>0. PICK t, u : t = tasks[i] /\ u = [t EXCEPT !.at = "verdict", !.good = FALSE]
    OBVIOUS
<1>1. /\ t.at = "undo" /\ tasks' = [tasks EXCEPT ![i] = u] /\ objects' = [objects EXCEPT ![t.obj].indexed = FALSE]
      /\ UNCHANGED <<group, failures, transfer, ref, path, hand, queues, current, batch, news, pass>>
      /\ UNCHANGED <<late, twice, torn>>
    BY <1>0 DEF Sent!Undo, Sent!At, Sent!Set, Sent!Verdict, Sent!album, Sent!ghosts
<1>2. Turned(t, u, "verdict", t.obj, FALSE) /\ u \in WorkRecord
    <2>1. t \in WorkRecord
        BY <1>0, TaskIs
    <2>2. Turned(t, u, "verdict", t.obj, FALSE)
        BY <1>0, <2>1, VerdictEdit
    <2> QED BY <2>2 DEF Turned
<1>3. TaskSound(t) /\ (t.file \notin twice => RefFits(t)) /\ StoreTyped
      /\ (t.obj # 0 => t.obj \in DOMAIN objects)
    BY <1>0, TaskIs
<1>4. t.obj # 0 /\ t.obj \in DOMAIN objects
    BY <1>0, <1>1, <1>3 DEF TaskSound
<1>5. /\ ObjectTurns(t.obj, objects') /\ ~objects'[t.obj].indexed
      /\ objects'[t.obj].there = objects[t.obj].there
    BY <1>0, <1>1, <1>3, <1>4, IndexEdit
<1>6. objects'[t.obj].file = objects[t.obj].file /\ Len(objects') = Len(objects)
    BY <1>0, <1>4, <1>5 DEF ObjectTurns
<1>7. TaskSound(u)'
    BY <1>0, <1>1, <1>2, <1>3, <1>4, <1>5, <1>6 DEF TaskSound, Turned
<1>8. u.file \notin twice' => RefFits(u)'
    BY <1>0, <1>1, <1>2, <1>3, <1>4, <1>5 DEF RefFits, Turned, TaskSound
<1>9. u.file = tasks[i].file /\ u.obj = tasks[i].obj /\ u.obj = t.obj
    BY <1>0, <1>2 DEF Turned
<1> QED BY <1>0, <1>1, <1>2, <1>5, <1>7, <1>8, <1>9, QuietWork

LEMMA UndoFailsKeeps ==
    ASSUME SentInv, NEW i \in DOMAIN tasks, Sent!UndoFails(i)
    PROVE  SentInv'
<1>0. PICK t, u : t = tasks[i] /\ u = [t EXCEPT !.at = "verdict", !.good = FALSE]
    OBVIOUS
<1>1. PICK b \in BOOLEAN :
          /\ t.at = "undo" /\ tasks' = [tasks EXCEPT ![i] = u] /\ objects' = [objects EXCEPT ![t.obj].there = b]
          /\ torn' = torn \cup {t.obj}
          /\ UNCHANGED <<group, failures, transfer, ref, path, hand, queues, current, batch, news, pass, late, twice>>
    BY <1>0 DEF Sent!UndoFails, Sent!At, Sent!Set, Sent!Verdict, Sent!album
<1>2. Turned(t, u, "verdict", t.obj, FALSE) /\ u \in WorkRecord
    <2>1. t \in WorkRecord
        BY <1>0, TaskIs
    <2>2. Turned(t, u, "verdict", t.obj, FALSE)
        BY <1>0, <2>1, VerdictEdit
    <2> QED BY <2>2 DEF Turned
<1>3. TaskSound(t) /\ (t.file \notin twice => RefFits(t)) /\ StoreTyped
      /\ (t.obj # 0 => t.obj \in DOMAIN objects)
    BY <1>0, TaskIs
<1>4. t.obj # 0 /\ t.obj \in DOMAIN objects
    BY <1>0, <1>1, <1>3 DEF TaskSound
<1>5. /\ ObjectTurns(t.obj, objects') /\ objects'[t.obj].there = b
      /\ objects'[t.obj].indexed = objects[t.obj].indexed
    BY <1>0, <1>1, <1>3, <1>4, ThereEdit
<1>6. objects'[t.obj].file = objects[t.obj].file /\ Len(objects') = Len(objects)
    BY <1>0, <1>4, <1>5 DEF ObjectTurns
<1>7. TaskSound(u)'
    BY <1>0, <1>1, <1>2, <1>3, <1>4, <1>5, <1>6 DEF TaskSound, Turned
<1>8. u.file \notin twice' => RefFits(u)'
    BY <1>0, <1>1, <1>2, <1>3, <1>4, <1>5 DEF RefFits, Turned, TaskSound
<1>9. u.file = tasks[i].file /\ u.obj = tasks[i].obj /\ u.obj = t.obj
    BY <1>0, <1>2 DEF Turned
<1>10. twice \subseteq twice' /\ torn \subseteq torn'
    BY <1>0, <1>1
<1> QED BY <1>0, <1>1, <1>2, <1>5, <1>7, <1>8, <1>9, <1>10, QuietWork

(* The object is entered before it is written.                             *)
LEMMA ObjectNew ==
    ASSUME StoreTyped, NEW p \in ObjectRecord, objects' = Append(objects, p)
    PROVE  /\ Len(objects) \in Nat /\ DOMAIN objects = 1..Len(objects)
           /\ objects' \in Seq(ObjectRecord) /\ Len(objects') = Len(objects) + 1
           /\ DOMAIN objects' = 1..(Len(objects) + 1) /\ objects'[Len(objects) + 1] = p
           /\ \A o \in DOMAIN objects : objects'[o] = objects[o]
           /\ Len(objects) + 1 \notin DOMAIN objects /\ \A o \in DOMAIN objects : o # 0
           /\ \A o \in DOMAIN objects' : o = Len(objects) + 1 \/ o \in DOMAIN objects
    BY ObjectsAre, AppendProperties, LenProperties DEF StoreTyped

LEMMA WriteKeeps ==
    ASSUME SentInv, NEW i \in DOMAIN tasks, Sent!Write(i)
    PROVE  SentInv'
<1>0. PICK t, n, p, u :
          /\ t = tasks[i] /\ n = Len(objects) + 1
          /\ p = [file |-> tasks[i].file, there |-> FALSE, indexed |-> FALSE, told |-> FALSE]
          /\ u = [t EXCEPT !.at = "save", !.obj = n]
    OBVIOUS
<1>1. /\ t.at = "download" /\ objects' = Append(objects, p)
      /\ tasks' = [tasks EXCEPT ![i] = [t EXCEPT !.at = "save", !.obj = Len(objects')]]
      /\ ref' = Sent!Noted(t.file, "saving")
      /\ path' = [path EXCEPT ![t.file] = IF Prepared /\ ref'[t.file] = "saving" THEN Len(objects') ELSE @]
      /\ UNCHANGED <<group, failures, transfer, hand, queues, current, batch, news, pass, late, twice, torn>>
    BY <1>0 DEF Sent!Write, Sent!At, Sent!Set, Sent!Note, Sent!album, Sent!ghosts
<1>2. /\ t \in WorkRecord /\ TaskSound(t) /\ t.file \in Files /\ StoreTyped
      /\ (t.file \notin twice => RefFits(t) /\ Once(t.file)) /\ ref \in [Files -> RefStates]
    BY <1>0, TaskIs
<1>3. p \in ObjectRecord /\ p.file = t.file /\ ~p.there /\ ~p.indexed
    BY <1>0, <1>2 DEF ObjectRecord
<1>4. /\ n \in Nat /\ n # 0 /\ DOMAIN objects = 1..Len(objects) /\ Len(objects) \in Nat
      /\ objects' \in Seq(ObjectRecord) /\ Len(objects') = n /\ DOMAIN objects' = 1..n
      /\ objects'[n] = p /\ n \notin DOMAIN objects
      /\ \A o \in DOMAIN objects : objects'[o] = objects[o] /\ o # 0 /\ o # n
      /\ \A o \in DOMAIN objects' : o = n \/ o \in DOMAIN objects
    BY <1>0, <1>1, <1>2, <1>3, ObjectNew
<1>5. Turned(t, u, "save", n, t.good)
    BY <1>0, <1>2, <1>4, SaveEdit
<1>6. /\ u \in WorkRecord /\ u.file = t.file /\ u.obj = n /\ u.at = "save" /\ u.abort = t.abort
    BY <1>5 DEF Turned
<1>7. /\ tasks' \in Seq(WorkRecord) /\ DOMAIN tasks' = DOMAIN tasks /\ tasks'[i] = u
      /\ \A j \in DOMAIN tasks : j # i => tasks'[j] = tasks[j]
    BY <1>0, <1>1, <1>4, <1>6, TaskSet DEF SentInv, SentTyped
<1>8. t.obj = 0
    BY <1>1, <1>2 DEF TaskSound
<1>9. /\ ref' \in [Files -> RefStates] /\ \A g \in Files : g # t.file => ref'[g] = ref[g]
      /\ ref[t.file] # "success" => ref'[t.file] = "saving"
      /\ ref'[t.file] # "none"
    <2>1. "saving" \in RefStates
        BY DEF RefStates
    <2> QED BY <1>1, <1>2, <2>1, NotedIs
<1>10. /\ path' \in [Files -> Nat] /\ \A g \in Files : g # t.file => path'[g] = path[g]
       /\ path'[t.file] = path[t.file] \/ (path'[t.file] = n /\ Prepared)
       /\ Prepared /\ ref'[t.file] = "saving" => path'[t.file] = n
    BY <1>1, <1>2, <1>4 DEF StoreTyped
<1>11. SentTyped'
    BY <1>1, <1>4, <1>7, <1>9, <1>10 DEF SentInv, SentTyped, StoreTyped, WorkTyped, PassTyped, NewsTyped, AlbumTyped
<1>12. PathsKnown'
    BY <1>2, <1>3, <1>4, <1>10 DEF SentInv, PathsKnown
<1>13. \A j \in DOMAIN tasks : TaskSound(tasks[j]) /\ (tasks[j].obj # 0 => tasks[j].obj \in DOMAIN objects)
    BY <1>4 DEF SentInv, TasksSound, TaskSound
<1>14. TasksSound'
    BY <1>1, <1>4, <1>7, <1>13, <1>3, <1>6 DEF TaskSound, SentInv, TasksSound
<1>15. \A o \in DOMAIN objects : Sent!Busy(o)' <=> Sent!Busy(o)
    <2>1. \A o \in DOMAIN objects : o # 0 /\ o # n
        BY <1>4
    <2>2. ASSUME NEW o \in DOMAIN objects, Sent!Busy(o)
          PROVE  Sent!Busy(o)'
        BY <2>2, <1>0, <1>8, <2>1, <1>7 DEF Sent!Busy
    <2>3. ASSUME NEW o \in DOMAIN objects, Sent!Busy(o)'
          PROVE  Sent!Busy(o)
        BY <2>3, <1>6, <1>7, <2>1 DEF Sent!Busy
    <2> QED BY <2>2, <2>3
<1>16. Sent!IndexedIsThere'
    BY <1>3, <1>4, <1>1, <1>15 DEF Sent!IndexedIsThere, SentInv
<1>17. \A g : Worked(g)' <=> Worked(g)
    <2>1. \A j \in DOMAIN tasks : tasks'[j].file = tasks[j].file
        BY <1>0, <1>6, <1>7
    <2> QED BY <1>7, <2>1 DEF Worked
<1>18. \A g : (Kept(g)' <=> Kept(g)) /\ (InQueue(g)' <=> InQueue(g))
    BY <1>1 DEF Kept, InQueue
<1>19. group.live /\ group'.live
    BY <1>1 DEF SentInv, GroupKnown
<1>20. GroupKnown' /\ BatchKnown' /\ PassKnown'
    BY <1>1, <1>9, <1>17, <1>18, <1>19 DEF SentInv, GroupKnown, BatchKnown, PassKnown
<1>21. ASSUME NEW g \in Files \ twice', g # t.file
       PROVE  Once(g)'
    <2>1. Once(g)
        BY <1>1, <1>21 DEF SentInv, AllOnce
    <2>2. SameHands(g)
        BY <1>1, <1>9, <1>10, <1>18, <1>21 DEF SameHands
    <2>3. SameTasks(g)
        <3>1. tasks[i].file # g /\ tasks'[i].file # g
            BY <1>0, <1>6, <1>7, <1>21
        <3>2. \A j \in DOMAIN tasks : tasks[j].file = g \/ tasks'[j].file = g => tasks'[j] = tasks[j]
            BY <1>7, <3>1
        <3> QED BY <1>7, <2>1, <3>2 DEF SameTasks, Once, OneTask
    <2>4. SameObjects(g)
        BY <1>3, <1>4, <1>21 DEF SameObjects
    <2> QED BY <1>2, <2>1, <2>2, <2>3, <2>4, FileStays DEF SentInv
<1>22. ASSUME t.file \notin twice'
       PROVE  Once(t.file)'
    <2>1. Once(t.file) /\ Worked(t.file) /\ ref[t.file] = "downloading" /\ ref'[t.file] = "saving"
        BY <1>0, <1>1, <1>2, <1>9, <1>22 DEF RefFits, Worked
    <2>2. OneHand(t.file)'
        BY <1>1, <1>17, <1>18, <2>1 DEF Once, OneHand, Recovered
    <2>3. RefFits(u)'
        BY <1>2, <1>6, <1>10, <2>1 DEF RefFits, SentInv, PathsKnown
    <2>4. OneTask(t.file)'
        BY <1>0, <1>6, <1>7, <2>1, <2>3 DEF Once, OneTask
    <2>5. \A o \in DOMAIN objects : objects[o].file = t.file => ~objects[o].indexed
        BY <2>1 DEF Once, OneIndex
    <2>6. OneIndex(t.file)'
        BY <1>3, <1>4, <2>5 DEF OneIndex
    <2>7. StraysOf(t.file)'
        BY <1>3, <1>4, <1>15, <2>1 DEF Once, StraysOf
    <2> QED BY <2>2, <2>4, <2>6, <2>7 DEF Once
<1>23. AllOnce'
    BY <1>21, <1>22 DEF AllOnce
<1> QED BY <1>11, <1>12, <1>14, <1>16, <1>20, <1>23 DEF SentInv

-----------------------------------------------------------------------------
(* A task ends.                                                            *)

Old(i, j) == IF j < i THEN j ELSE j + 1

LEMMA SeqOf ==
    ASSUME NEW S, NEW n \in Nat, NEW s \in [1..n -> S]
    PROVE  s \in Seq(S) /\ Len(s) = n /\ DOMAIN s = 1..n
OBVIOUS

LEMMA TaskRemoved ==
    ASSUME WorkTyped, NEW i \in DOMAIN tasks, tasks' = Sent!Without(i)
    PROVE  /\ tasks' \in Seq(WorkRecord)
           /\ \A j \in DOMAIN tasks' : Old(i, j) \in DOMAIN tasks /\ Old(i, j) # i /\ tasks'[j] = tasks[Old(i, j)]
           /\ \A j, k \in DOMAIN tasks' : Old(i, j) = Old(i, k) => j = k
           /\ \A k \in DOMAIN tasks : k # i => \E j \in DOMAIN tasks' : Old(i, j) = k
<1> DEFINE n == Len(tasks) - 1
<1>1. /\ Len(tasks) \in Nat /\ DOMAIN tasks = 1..Len(tasks) /\ i \in 1..Len(tasks)
      /\ \A k \in DOMAIN tasks : tasks[k] \in WorkRecord
    BY WorkAre
<1>2. n \in Nat /\ Len(tasks) = n + 1
    BY <1>1
<1>3. tasks' = [j \in 1..n |-> IF j < i THEN tasks[j] ELSE tasks[j + 1]]
    BY DEF Sent!Without
<1> HIDE DEF n
<1>4. \A j \in 1..n : Old(i, j) \in DOMAIN tasks /\ Old(i, j) # i
    BY <1>1, <1>2 DEF Old
<1>5. \A j \in 1..n : (IF j < i THEN tasks[j] ELSE tasks[j + 1]) = tasks[Old(i, j)]
    BY DEF Old
<1>6. tasks' = [j \in 1..n |-> tasks[Old(i, j)]]
    BY <1>3, <1>5
<1>7. tasks' \in [1..n -> WorkRecord]
    BY <1>1, <1>4, <1>6
<1>8. tasks' \in Seq(WorkRecord) /\ DOMAIN tasks' = 1..n
    BY <1>2, <1>7, SeqOf
<1>9. \A j, k \in 1..n : Old(i, j) = Old(i, k) => j = k
    BY <1>1, <1>2 DEF Old
<1>10. ASSUME NEW k \in DOMAIN tasks, k # i
       PROVE  \E j \in 1..n : Old(i, j) = k
    <2>1. CASE k < i
        BY <1>1, <1>2, <2>1 DEF Old
    <2>2. CASE ~(k < i)
        <3>1. k - 1 \in 1..n /\ Old(i, k - 1) = k
            BY <1>1, <1>2, <1>10, <2>2 DEF Old
        <3> QED BY <3>1
    <2> QED BY <2>1, <2>2
<1> QED BY <1>4, <1>6, <1>8, <1>9, <1>10

LEMMA GroupEdits ==
    ASSUME NEW g, GroupShape(g), NEW x
    PROVE  /\ GroupShape([g EXCEPT !.over = x]) /\ [g EXCEPT !.over = x].live = g.live
           /\ GroupShape([g EXCEPT !.expected = x]) /\ [g EXCEPT !.expected = x].live = g.live
           /\ GroupShape([g EXCEPT !.done = x]) /\ [g EXCEPT !.done = x].live = g.live
           /\ GroupShape([g EXCEPT !.failed = x]) /\ [g EXCEPT !.failed = x].live = g.live
           /\ GroupShape([g EXCEPT !.cancelled = x]) /\ [g EXCEPT !.cancelled = x].live = g.live
    BY DEF GroupShape

LEMMA SettleIs ==
    ASSUME WorkTyped, NEW i \in DOMAIN tasks, NEW good, Sent!Settle(i, good)
    PROVE  /\ tasks' = Sent!Without(i) /\ GroupShape(group') /\ group'.live = group.live
           /\ failures' = IF tasks[i].abort \/ good THEN failures ELSE failures \cup {tasks[i].file}
<1> DEFINE c == [group EXCEPT !.cancelled = @ + 1]
           d == [group EXCEPT !.done = @ + 1]
           e == [group EXCEPT !.failed = @ + 1]
           g == IF tasks[i].abort THEN c ELSE IF good THEN d ELSE e
           x == IF g.over = "pausing" /\ Sent!Active(tasks') = {}
                THEN IF tasks' # <<>> \/ Sent!Ended(g) < g.expected THEN "paused" ELSE "none"
                ELSE g.over
<1>1. group' = [g EXCEPT !.over = x]
    BY Zenon DEF Sent!Settle
<1>2. GroupShape(group)
    BY DEF WorkTyped
<1>3. /\ GroupShape(c) /\ c.live = group.live /\ GroupShape(d) /\ d.live = group.live
      /\ GroupShape(e) /\ e.live = group.live
    BY <1>2, GroupEdits
<1> HIDE DEF c, d, e
<1>4. GroupShape(g) /\ g.live = group.live
    BY <1>3
<1> HIDE DEF g, x
<1>5. GroupShape(group') /\ group'.live = group.live
    BY <1>1, <1>4, GroupEdits
<1>6. /\ tasks' = Sent!Without(i)
      /\ failures' = IF tasks[i].abort \/ good THEN failures ELSE failures \cup {tasks[i].file}
    BY DEF Sent!Settle
<1> QED BY <1>5, <1>6

LEMMA ReportedIs ==
    ASSUME SentInv, NEW i \in DOMAIN tasks, tasks[i].at = "verdict", objects' = Sent!Reported(i)
    PROVE  /\ objects' \in Seq(ObjectRecord) /\ DOMAIN objects' = DOMAIN objects /\ Len(objects') = Len(objects)
           /\ \A o \in DOMAIN objects :
                 /\ objects'[o].file = objects[o].file /\ objects'[o].there = objects[o].there
                 /\ objects'[o].indexed = objects[o].indexed
                 /\ objects[o].told => objects'[o].told
           /\ tasks[i].obj # 0 =>
                 /\ objects[tasks[i].obj].indexed => objects[tasks[i].obj].there \/ objects'[tasks[i].obj].told
                 /\ ~objects[tasks[i].obj].indexed => objects'[tasks[i].obj].told
    BY TaskIs, ToldEdit DEF StoreTyped, Sent!Reported, TaskSound, ObjectTurns

LEMMA TaskEnds ==
    ASSUME SentInv, NEW i \in DOMAIN tasks, NEW f, f = tasks[i].file, tasks[i].at = "verdict",
           objects' = Sent!Reported(i), tasks' = Sent!Without(i), GroupShape(group'), group'.live = group.live,
           failures' \in {failures, failures \cup {f}},
           UNCHANGED <<hand, queues, current, batch, pass, transfer, path, torn>>, news' \in Seq(RowStates),
           ref' \in [Files -> RefStates], ref'[f] = ref[f] \/ ref'[f] # "none",
           \A g \in Files : g # f => ref'[g] = ref[g], twice \subseteq twice',
           f \notin twice' /\ f \in failures' /\ f \notin failures
               => ref'[f] \in {"pending", "downloading", "saving", "failed"},
           f \notin twice' /\ ref[f] \in {"success", "cancelled"} => ref'[f] \in {"success", "cancelled"}
    PROVE  SentInv'
<1>1. PICK t, n : t = tasks[i] /\ n = tasks[i].obj
    OBVIOUS
<1>2. /\ TaskSound(t) /\ t.file = f /\ t.obj = n /\ f \in Files /\ (n # 0 => n \in DOMAIN objects)
      /\ (f \notin twice => Once(f)) /\ StoreTyped /\ n \in Nat
    BY <1>1, TaskIs
<1>3. /\ objects' \in Seq(ObjectRecord) /\ DOMAIN objects' = DOMAIN objects /\ Len(objects') = Len(objects)
      /\ \A o \in DOMAIN objects :
            /\ objects'[o].file = objects[o].file /\ objects'[o].there = objects[o].there
            /\ objects'[o].indexed = objects[o].indexed
            /\ objects[o].told => objects'[o].told
      /\ n # 0 => /\ objects[n].indexed => objects[n].there \/ objects'[n].told
                  /\ ~objects[n].indexed => objects'[n].told
      /\ \A o \in DOMAIN objects : o # 0 /\ o \in 1..Len(objects)
    BY <1>2, ObjectsAre, <1>1, ReportedIs
<1>4. /\ tasks' \in Seq(WorkRecord)
      /\ \A j \in DOMAIN tasks' : Old(i, j) \in DOMAIN tasks /\ Old(i, j) # i /\ tasks'[j] = tasks[Old(i, j)]
      /\ \A j, k \in DOMAIN tasks' : Old(i, j) = Old(i, k) => j = k
      /\ \A k \in DOMAIN tasks : k # i => \E j \in DOMAIN tasks' : Old(i, j) = k
    BY TaskRemoved DEF SentInv, SentTyped
<1>5. SentTyped'
    BY <1>2, <1>3, <1>4 DEF SentInv, SentTyped, WorkTyped, StoreTyped, PassTyped, NewsTyped,
        AlbumTyped
<1>6. PathsKnown'
    BY <1>3 DEF SentInv, PathsKnown
<1>7. \A j \in DOMAIN tasks : TaskSound(tasks[j]) /\ (tasks[j].obj # 0 => tasks[j].obj \in DOMAIN objects)
    BY TaskIs
<1>8. TasksSound'
    <2>1. ASSUME NEW j \in DOMAIN tasks'
          PROVE  TaskSound(tasks[j])'
        <3>1. PICK u : u = tasks'[j] /\ TaskSound(u) /\ (u.obj # 0 => u.obj \in DOMAIN objects)
            BY <1>4, <1>7
        <3>2. TaskSound(u)'
            BY <1>3, <3>1 DEF TaskSound
        <3> QED BY <3>1, <3>2 DEF TaskSound
    <2>2. \A j, k \in DOMAIN tasks' : tasks'[j].obj # 0 /\ tasks'[j].obj = tasks'[k].obj => j = k
        BY <1>4 DEF SentInv, TasksSound
    <2> QED BY <2>1, <2>2 DEF TasksSound
<1>9. \A o : Sent!Busy(o) /\ o # n => Sent!Busy(o)'
    BY <1>1, <1>4 DEF Sent!Busy
<1>10. Sent!IndexedIsThere'
    BY <1>3, <1>9 DEF SentInv, Sent!IndexedIsThere
<1>11. \A g : Worked(g)' => Worked(g)
    BY <1>4 DEF Worked
<1>12. \A g : (Kept(g)' <=> Kept(g)) /\ (InQueue(g)' <=> InQueue(g))
    BY DEF Kept, InQueue
<1>13. group.live /\ group'.live
    BY DEF SentInv, GroupKnown
<1>14. Worked(f) /\ (f \notin twice => ~Recovered(f))
    BY <1>1, <1>2 DEF Worked, Once, OneHand
<1>15. GroupKnown' /\ BatchKnown'
    BY <1>13 DEF SentInv, GroupKnown, BatchKnown
<1>16. PassKnown'
    BY <1>11, <1>12, <1>13, <1>14, <1>2 DEF SentInv, PassKnown
<1>17. ASSUME NEW g \in Files \ twice', g # f
       PROVE  Once(g)'
    <2>1. Once(g)
        BY <1>17 DEF SentInv, AllOnce
    <2>2. SameHands(g)
        BY <1>12, <1>17 DEF SameHands
    <2>3. SameTasks(g)
        <3>1. \A k \in DOMAIN tasks : tasks[k].file = g => k # i
            BY <1>1, <1>2, <1>17
        <3> QED BY <1>4, <2>1, <3>1 DEF SameTasks, Once, OneTask
    <2>4. SameObjects(g)
        BY <1>3 DEF SameObjects
    <2> QED BY <1>2, <2>1, <2>2, <2>3, <2>4, FileStays DEF SentInv
<1>18. ASSUME f \notin twice'
       PROVE  Once(f)'
    <2>1. Once(f) /\ Worked(f)
        BY <1>2, <1>14, <1>18
    <2>2. \A k \in DOMAIN tasks : tasks[k].file = f => k = i
        BY <1>1, <1>2, <2>1 DEF Once, OneTask
    <2>3. ~Worked(f)'
        BY <1>4, <2>2 DEF Worked
    <2>4. OneHand(f)'
        BY <1>12, <1>18, <2>1, <2>3 DEF Once, OneHand, Recovered
    <2>5. OneTask(f)'
        BY <2>3 DEF OneTask, Worked
    <2>6. OneIndex(f)'
        BY <1>3, <1>18, <2>1 DEF Once, OneIndex
    <2>7. StraysOf(f)'
        <3>1. ASSUME NEW o \in DOMAIN objects, objects'[o].file = f, objects'[o].there,
                     ~objects'[o].indexed, ~objects'[o].told
              PROVE  FALSE
            BY <1>3, <3>1, <2>1, BusyOf, <1>1, <2>2 DEF Once, StraysOf, SentInv
        <3> QED BY <1>3, <3>1 DEF StraysOf
    <2> QED BY <2>4, <2>5, <2>6, <2>7 DEF Once
<1>19. AllOnce'
    BY <1>17, <1>18 DEF AllOnce
<1> QED BY <1>5, <1>6, <1>8, <1>10, <1>15, <1>16, <1>19 DEF SentInv

LEMMA FinishKeeps ==
    ASSUME SentInv, NEW i \in DOMAIN tasks, Sent!Finish(i)
    PROVE  SentInv'
<1>1. PICK t, f, s :
          /\ t = tasks[i] /\ f = tasks[i].file
          /\ s = IF t.abort THEN "cancelled" ELSE IF t.good THEN "success" ELSE "failed"
    OBVIOUS
<1>2. /\ t.at = "verdict" /\ ref' = Sent!Noted(f, s) /\ objects' = Sent!Reported(i)
      /\ Sent!Settle(i, t.good) /\ Sent!Tell
      /\ UNCHANGED <<transfer, path, hand, queues, current, batch, pass, late, twice, torn>>
    BY <1>1 DEF Sent!Finish, Sent!At, Sent!Note, Sent!album, Sent!ghosts
<1>3. /\ t \in WorkRecord /\ f \in Files /\ StoreTyped /\ NewsTyped /\ WorkTyped /\ t.file = f
      /\ (f \notin twice => RefFits(t) /\ Once(f))
    BY <1>1, TaskIs DEF SentInv, SentTyped
<1>4. /\ tasks' = Sent!Without(i) /\ GroupShape(group') /\ group'.live = group.live
      /\ failures' = IF t.abort \/ t.good THEN failures ELSE failures \cup {f}
    BY <1>1, <1>2, <1>3, SettleIs
<1>5. s \in RefStates /\ s # "none"
    BY <1>1 DEF RefStates
<1>6. /\ ref' \in [Files -> RefStates] /\ \A g \in Files : g # f => ref'[g] = ref[g]
      /\ ref[f] = "success" /\ s # "cancelled" => ref'[f] = "success"
      /\ ref[f] # "success" \/ s = "cancelled" => ref'[f] = s
      /\ ref'[f] \in {"success", s}
    BY <1>2, <1>3, <1>5, NotedIs
<1>7. news' \in Seq(RowStates)
    BY <1>2, <1>3, TellTyped
<1>8. f \notin twice' /\ f \in failures' /\ f \notin failures => ref'[f] = "failed"
    BY <1>1, <1>2, <1>3, <1>4, <1>6 DEF RefFits
<1>9. f \notin twice' /\ ref[f] \in {"success", "cancelled"} => ref'[f] \in {"success", "cancelled"}
    BY <1>1, <1>2, <1>3, <1>6 DEF RefFits
<1>10. /\ failures' \in {failures, failures \cup {f}} /\ twice \subseteq twice'
       /\ UNCHANGED <<hand, queues, current, batch, pass, transfer, path, torn>>
    BY <1>2, <1>4
<1> QED BY <1>1, <1>2, <1>4, <1>6, <1>7, <1>8, <1>9, <1>10, TaskEnds

LEMMA FinishFailsKeeps ==
    ASSUME SentInv, NEW i \in DOMAIN tasks, Sent!FinishFails(i)
    PROVE  SentInv'
    BY TaskIs, SettleIs, TellTyped, TaskEnds DEF Sent!FinishFails, Sent!At, Sent!album, SentInv,
        SentTyped, RefFits

-----------------------------------------------------------------------------
(* Steps that leave the tasks and the objects alone.                       *)

LEMMA QuietFile ==
    ASSUME SentInv, UNCHANGED <<tasks, objects, path>>, NEW g \in Files \ twice,
           ref'[g] = ref[g], g \in failures' => g \in failures, OneHand(g)'
    PROVE  Once(g)'
    BY FileHeld DEF SentInv, SentTyped, AllOnce, SameTasks, Once, OneTask, SameObjects

LEMMA QuietHands ==
    ASSUME SentInv, UNCHANGED <<tasks, objects, path>>, NEW g \in Files \ twice, SameHands(g)
    PROVE  Once(g)'
    BY QuietFile DEF SentInv, AllOnce, Worked, Once, OneHand, SameHands, Recovered

LEMMA QuietStep ==
    ASSUME SentInv, UNCHANGED <<tasks, objects, path>>, torn \subseteq torn',
           SentTyped', GroupKnown', BatchKnown', PassKnown', \A g \in Files \ twice' : Once(g)'
    PROVE  SentInv'
    BY DEF SentInv, PathsKnown, TasksSound, TaskSound, Sent!IndexedIsThere, Sent!Busy, AllOnce

(* What most steps leave alone.                                            *)
LEMMA KnownStays ==
    ASSUME SentInv, UNCHANGED <<tasks, failures, pass, group>>, \A g \in Files : ref'[g] = ref[g],
           \A g \in Files : Kept(g)' => Kept(g), \A g \in Files : hand'[g].at = "ensured" => hand[g].at = "ensured",
           batch'.stage \in {"ensured", "queued"} => batch.stage \in {"ensured", "queued"}
    PROVE  GroupKnown' /\ PassKnown'
    BY DEF Worked, SentInv, GroupKnown, PassKnown

LEMMA WrittenIs ==
    ASSUME StoreTyped, NEW s \in RowStates
    PROVE  Sent!Written(s) \in RowStates
BY DEF Sent!Written, StoreTyped

LEMMA PersistKeeps ==
    ASSUME SentInv, Sent!Persist
    PROVE  SentInv'
    BY HeadTailProperties, WrittenIs, KnownStays, QuietHands, QuietStep DEF Sent!Persist,
        Sent!album, Sent!queue, Sent!ghosts, SentInv, SentTyped, NewsTyped, StoreTyped, WorkTyped,
        PassTyped, AlbumTyped, Kept, InQueue, BatchKnown, SameHands

LEMMA HandsAre ==
    ASSUME AlbumTyped
    PROVE  /\ hand \in [Files -> HandRecord] /\ Len(queues) \in Nat /\ DOMAIN queues = 1..Len(queues)
           /\ \A k \in DOMAIN queues : queues[k] \in QueueRecord /\ queues[k].files \subseteq Files
           /\ current \in Nat /\ (current # 0 => current \in DOMAIN queues)
           /\ \A f \in Files : hand[f].q \in Nat
<1>1. /\ hand \in [Files -> HandRecord] /\ Len(queues) \in Nat /\ DOMAIN queues = 1..Len(queues)
      /\ queues \in [1..Len(queues) -> QueueRecord] /\ current \in 0..Len(queues)
    BY LenProperties DEF AlbumTyped
<1>2. \A k \in DOMAIN queues : queues[k] \in QueueRecord /\ queues[k].files \subseteq Files
    BY <1>1 DEF QueueRecord
<1>3. \A f \in Files : hand[f].q \in Nat
    BY <1>1 DEF HandRecord
<1>4. current \in Nat /\ (current # 0 => current \in DOMAIN queues)
    BY <1>1
<1> QED BY <1>1, <1>2, <1>3, <1>4

(* A handler moves on.                                                     *)
LEMMA HandAt ==
    ASSUME AlbumTyped, NEW f \in Files, NEW s \in {"idle", "target", "remembered", "admitted", "ensured"}
    PROVE  LET H == [hand EXCEPT ![f].at = s]
           IN  /\ H \in [Files -> HandRecord] /\ H[f].at = s
               /\ \A g \in Files : g # f => H[g] = hand[g]
BY HandsAre DEF HandRecord

LEMMA HandPut ==
    ASSUME AlbumTyped, NEW f \in Files, NEW h \in HandRecord
    PROVE  LET H == [hand EXCEPT ![f] = h]
           IN  /\ H \in [Files -> HandRecord] /\ H[f] = h
               /\ \A g \in Files : g # f => H[g] = hand[g]
BY HandsAre

LEMMA IdleIs == Sent!Idle \in HandRecord /\ Sent!Idle.at = "idle"
BY DEF Sent!Idle, HandRecord

LEMMA ArriveKeeps ==
    ASSUME SentInv, NEW f \in Files, Sent!Arrive(f)
    PROVE  SentInv'
<1> DEFINE e == [files |-> {}, busy |-> FALSE]
<1>1. /\ hand[f].at = "idle" /\ hand' = [hand EXCEPT ![f] = [at |-> "target", q |-> current']]
      /\ \/ current = 0 /\ queues' = Append(queues, e) /\ current' = Len(queues')
         \/ UNCHANGED <<queues, current>>
      /\ UNCHANGED <<transfer, ref, path, objects, batch, group, tasks, failures, news, pass, twice, torn>>
    BY DEF Sent!Arrive, Sent!store, Sent!queue, Sent!ghosts
<1>2. AlbumTyped /\ queues \in Seq(QueueRecord) /\ e \in QueueRecord
    BY DEF SentInv, SentTyped, AlbumTyped, QueueRecord
<1>3. current \in Nat /\ Len(queues) \in Nat /\ (current # 0 => current \in DOMAIN queues)
    BY <1>2, HandsAre
<1>6. /\ queues' \in Seq(QueueRecord) /\ current' \in 0..Len(queues') /\ current' \in Nat
      /\ \A g : InQueue(g)' => InQueue(g)
      /\ BatchKnown'
    <2>1. CASE current = 0 /\ queues' = Append(queues, e) /\ current' = Len(queues')
        BY <1>2, <2>1, AppendProperties, <1>3, <1>1 DEF InQueue, SentInv, BatchKnown
    <2>2. CASE UNCHANGED <<queues, current>>
        BY <2>2, <1>1, <1>2, <1>3 DEF InQueue, SentInv, BatchKnown, AlbumTyped
    <2> QED BY <1>1, <2>1, <2>2
<1>7. [at |-> "target", q |-> current'] \in HandRecord
    BY <1>6 DEF HandRecord
<1>8. /\ hand' \in [Files -> HandRecord] /\ hand'[f].at = "target"
      /\ \A g \in Files : g # f => hand'[g] = hand[g]
    BY <1>1, <1>2, <1>7, HandPut
<1>9. SentTyped'
    BY <1>1, <1>6, <1>8 DEF SentInv, SentTyped, StoreTyped, WorkTyped, PassTyped, NewsTyped, AlbumTyped
<1>10. \A g \in Files : Kept(g)' => Kept(g)
    BY <1>6, <1>8 DEF Kept
<1>11. GroupKnown' /\ PassKnown'
    BY <1>1, <1>8, <1>10, KnownStays
<1>12. ASSUME NEW g \in Files \ twice'
       PROVE  Once(g)'
    BY <1>1, <1>6, <1>8, <1>10, <1>12, QuietHands DEF SameHands
<1> QED BY <1>1, <1>6, <1>9, <1>11, <1>12, QuietStep

(* A handler gives up.                                                     *)
LEMMA HandDrops ==
    ASSUME SentInv, NEW f \in Files, hand' = [hand EXCEPT ![f] = Sent!Idle],
           UNCHANGED <<transfer, ref, path, objects, queues, current, batch, group, tasks, failures, news, pass>>,
           UNCHANGED <<twice, torn>>
    PROVE  SentInv'
    BY IdleIs, HandPut, KnownStays, QuietHands, QuietStep DEF SentInv, SentTyped, StoreTyped,
        WorkTyped, PassTyped, NewsTyped, AlbumTyped, InQueue, Kept, BatchKnown, SameHands

LEMMA RememberKeeps ==
    ASSUME SentInv, NEW f \in Files, Sent!Remember(f)
    PROVE  SentInv'
<1>1. /\ hand[f].at = "target"
      /\ UNCHANGED <<path, objects, queues, current, batch, group, tasks, failures, news, pass, torn, twice>>
    BY DEF Sent!Remember, Sent!album, Sent!queue
<1>2. CASE ref[f] # "none"
    BY <1>1, <1>2, HandDrops DEF Sent!Remember
<1>3. CASE ref[f] = "none"
    <2>1. /\ hand' = [hand EXCEPT ![f].at = "remembered"] /\ ref' = [ref EXCEPT ![f] = "pending"]
          /\ transfer' = IF transfer = "none" THEN "pending" ELSE transfer
        BY <1>3 DEF Sent!Remember
    <2>2. AlbumTyped /\ ref \in [Files -> RefStates] /\ transfer \in RowStates
        BY DEF SentInv, SentTyped, StoreTyped
    <2>3. /\ hand' \in [Files -> HandRecord] /\ hand'[f].at = "remembered"
          /\ \A g \in Files : g # f => hand'[g] = hand[g]
        BY <2>1, <2>2, HandAt
    <2>4. /\ ref' \in [Files -> RefStates] /\ ref'[f] = "pending" /\ \A g \in Files : g # f => ref'[g] = ref[g]
          /\ transfer' \in RowStates
        BY <2>1, <2>2 DEF RefStates, RowStates
    <2>5. SentTyped'
        BY <1>1, <2>3, <2>4 DEF SentInv, SentTyped, StoreTyped, WorkTyped, PassTyped, NewsTyped, AlbumTyped
    <2>6. \A g : (InQueue(g)' <=> InQueue(g)) /\ (Worked(g)' <=> Worked(g))
        BY <1>1 DEF InQueue, Worked
    <2>7. \A g \in Files : g # f => (Kept(g)' <=> Kept(g))
        BY <2>3, <2>6 DEF Kept
    <2>8. GroupKnown' /\ BatchKnown' /\ PassKnown'
        BY <1>1, <2>3, <2>4, <2>7, <1>3, <2>6 DEF SentInv, BatchKnown, GroupKnown, PassKnown
    <2>9. ASSUME NEW g \in Files \ twice', g # f
          PROVE  Once(g)'
        BY <1>1, <2>3, <2>4, <2>6, <2>7, <2>9, QuietHands DEF SameHands
    <2>10. ASSUME f \notin twice'
           PROVE  Once(f)'
        BY <1>1, <2>10, <1>3, TaskIs, <2>3, <2>4, <2>6 DEF SentInv, AllOnce, Once, OneHand, Kept,
            Recovered, PassKnown, OneTask, RefFits, SentStages, Worked, OneIndex, StraysOf,
            Sent!Busy
    <2>11. \A g \in Files \ twice' : Once(g)'
        BY <2>9, <2>10
    <2> QED BY <1>1, <2>5, <2>8, <2>11, QuietStep
<1> QED BY <1>2, <1>3

LEMMA NoRoomKeeps ==
    ASSUME SentInv, NEW f \in Files, Sent!NoRoom(f) \/ Sent!NotAdmitted(f)
    PROVE  SentInv'
    BY HandDrops DEF Sent!NoRoom, Sent!NotAdmitted, Sent!store, Sent!album, Sent!queue, Sent!ghosts

-----------------------------------------------------------------------------
(* The album queues.                                                       *)

QueueTurns(k, Q) ==
    /\ Q \in Seq(QueueRecord) /\ Len(Q) = Len(queues) /\ DOMAIN Q = DOMAIN queues
    /\ \A m \in DOMAIN queues : m # k => Q[m] = queues[m]

LEMMA QueuePut ==
    ASSUME AlbumTyped, NEW k \in DOMAIN queues, NEW p \in QueueRecord
    PROVE  QueueTurns(k, [queues EXCEPT ![k] = p]) /\ [queues EXCEPT ![k] = p][k] = p
    BY HandsAre, ExceptSeq DEF AlbumTyped, QueueTurns

LEMMA QueueBusy ==
    ASSUME AlbumTyped, NEW k \in DOMAIN queues, NEW b \in BOOLEAN
    PROVE  LET Q == [queues EXCEPT ![k].busy = b]
           IN  QueueTurns(k, Q) /\ Q[k].busy = b /\ Q[k].files = queues[k].files
<1> DEFINE p == [queues[k] EXCEPT !.busy = b]
<1>1. queues[k] \in QueueRecord
    BY HandsAre
<1>2. p \in QueueRecord /\ p.busy = b /\ p.files = queues[k].files
    BY <1>1 DEF QueueRecord
<1>3. [queues EXCEPT ![k].busy = b] = [queues EXCEPT ![k] = p]
    OBVIOUS
<1> HIDE DEF p
<1> QED BY <1>2, <1>3, QueuePut

LEMMA QueueFiles ==
    ASSUME AlbumTyped, NEW k \in DOMAIN queues, NEW F \in SUBSET Files
    PROVE  LET Q == [queues EXCEPT ![k].files = F]
           IN  QueueTurns(k, Q) /\ Q[k].files = F /\ Q[k].busy = queues[k].busy
<1> DEFINE p == [queues[k] EXCEPT !.files = F]
<1>1. queues[k] \in QueueRecord
    BY HandsAre
<1>2. p \in QueueRecord /\ p.busy = queues[k].busy /\ p.files = F
    BY <1>1 DEF QueueRecord
<1>3. [queues EXCEPT ![k].files = F] = [queues EXCEPT ![k] = p]
    OBVIOUS
<1> HIDE DEF p
<1> QED BY <1>2, <1>3, QueuePut

(* Only who has a file changes: no file is in more hands than before.      *)
LEMMA HandsStep ==
    ASSUME SentInv, UNCHANGED <<ref, path, objects, tasks, failures, news, pass, twice, torn>>,
           transfer' \in RowStates, AlbumTyped', GroupShape(group'), group'.live = group.live, BatchKnown',
           \A g \in Files : Kept(g)' => Kept(g), \A g \in Files : hand'[g].at = "ensured" => hand[g].at = "ensured",
           \A g \in Files : InQueue(g)' => hand'[g].at \in {hand[g].at, "idle", "target"},
           \A g \in Files \ twice : InQueue(g)' => hand'[g].at \in {"idle", "target"},
           batch'.stage \in {"ensured", "queued"} => batch.stage \in {"ensured", "queued"}
    PROVE  SentInv'
<1>1. SentTyped'
    BY DEF SentInv, SentTyped, StoreTyped, WorkTyped, PassTyped, NewsTyped
<1>2. \A g : Worked(g)' <=> Worked(g)
    BY DEF Worked
<1>3. GroupKnown' /\ PassKnown'
    BY <1>2 DEF SentInv, GroupKnown, PassKnown
<1>4. ASSUME NEW g \in Files \ twice'
      PROVE  Once(g)'
    BY <1>4, <1>2, QuietFile DEF SentInv, AllOnce, Once, OneHand, Recovered
<1> QED BY <1>1, <1>3, <1>4, QuietStep

LEMMA JoinKeeps ==
    ASSUME SentInv, NEW f \in Files, Sent!Join(f)
    PROVE  SentInv'
<1>1. PICK q : q = hand[f].q
    OBVIOUS
<1>2. /\ hand[f].at = "remembered" /\ hand' = [hand EXCEPT ![f] = Sent!Idle]
      /\ queues' = [queues EXCEPT ![q].files = @ \cup {f}]
      /\ UNCHANGED <<transfer, ref, path, objects, current, batch, group, tasks, failures, news, pass, twice, torn>>
    BY <1>1 DEF Sent!Join, Sent!store, Sent!queue
<1>3. AlbumTyped /\ GroupShape(group) /\ transfer \in RowStates
    BY DEF SentInv, SentTyped, StoreTyped, WorkTyped
<1>4. /\ hand' \in [Files -> HandRecord] /\ hand'[f].at = "idle"
      /\ \A g \in Files : g # f => hand'[g] = hand[g]
    BY <1>2, <1>3, IdleIs, HandPut
<1>5. /\ queues' \in Seq(QueueRecord) /\ Len(queues') = Len(queues)
      /\ \A k \in DOMAIN queues : /\ queues'[k].busy = queues[k].busy /\ queues[k].files \subseteq queues'[k].files
                                  /\ queues'[k].files \subseteq queues[k].files \cup {f}
    <2>1. CASE q \in DOMAIN queues
        <3>1. PICK F \in SUBSET Files : F = queues[q].files \cup {f}
            BY <1>3, <2>1, HandsAre
        <3>2. queues' = [queues EXCEPT ![q].files = F]
            BY <1>2, <3>1
        <3>3. QueueTurns(q, queues') /\ queues'[q].files = F /\ queues'[q].busy = queues[q].busy
            BY <1>3, <2>1, <3>2, QueueFiles
        <3> QED BY <2>1, <3>1, <3>3 DEF QueueTurns
    <2>2. CASE q \notin DOMAIN queues
        BY <1>3, LenProperties, <1>2, <2>2 DEF AlbumTyped
    <2> QED BY <2>1, <2>2
<1>6. AlbumTyped'
    BY <1>2, <1>3, <1>4, <1>5 DEF AlbumTyped
<1>7. BatchKnown'
    BY <1>3, HandsAre, <1>2, <1>5 DEF SentInv, BatchKnown
<1>8. \A g \in Files : InQueue(g)' => InQueue(g) \/ g = f
    BY <1>3, HandsAre, <1>2, <1>5 DEF InQueue
<1>9. \A g \in Files : Kept(g)' => Kept(g)
    BY <1>2, <1>4, <1>8 DEF Kept
<1>10. \A g \in Files : InQueue(g)' => hand'[g].at \in {hand[g].at, "idle", "target"}
    BY <1>4
<1>11. \A g \in Files \ twice : InQueue(g)' => hand'[g].at \in {"idle", "target"}
    BY <1>4, <1>8 DEF SentInv, AllOnce, Once, OneHand
<1> QED BY <1>2, <1>3, <1>4, <1>6, <1>7, <1>9, <1>10, <1>11, HandsStep

LEMMA AdmitKeeps ==
    ASSUME SentInv, NEW f \in Files, Sent!Admit(f)
    PROVE  SentInv'
<1>1. /\ hand[f].at = "remembered" /\ hand' = [hand EXCEPT ![f].at = "admitted"]
      /\ transfer' = Sent!Written("pending")
      /\ UNCHANGED <<ref, path, objects, queues, current, batch, group, tasks, failures, news, pass, twice, torn>>
    BY DEF Sent!Admit, Sent!album, Sent!queue, Sent!ghosts
<1>2. AlbumTyped /\ GroupShape(group) /\ transfer' \in RowStates
    BY <1>1, WrittenIs DEF RowStates, SentInv, SentTyped, WorkTyped
<1>3. /\ hand' \in [Files -> HandRecord] /\ hand'[f].at = "admitted"
      /\ \A g \in Files : g # f => hand'[g] = hand[g]
    BY <1>1, <1>2, HandAt
<1>4. AlbumTyped' /\ BatchKnown'
    BY <1>1, <1>2, <1>3 DEF AlbumTyped, SentInv, BatchKnown
<1>5. \A g : InQueue(g)' <=> InQueue(g)
    BY <1>1 DEF InQueue
<1>6. \A g \in Files : Kept(g)' => Kept(g)
    BY <1>1, <1>3, <1>5 DEF Kept
<1>7. \A g \in Files \ twice : InQueue(g) => hand[g].at \in {"idle", "target"}
    BY DEF SentInv, AllOnce, Once, OneHand
<1>8. ASSUME NEW g \in Files
      PROVE  SameHands(g) \/ (InQueue(g) /\ g = f)
    BY <1>1, <1>3, <1>5, <1>6 DEF SameHands
<1>9. GroupKnown' /\ PassKnown'
    BY <1>1, <1>3, <1>6, KnownStays
<1>10. SentTyped'
    BY <1>1, <1>2, <1>4 DEF SentInv, SentTyped, StoreTyped, WorkTyped, PassTyped, NewsTyped
<1>11. ASSUME NEW g \in Files \ twice'
       PROVE  Once(g)'
    BY <1>1, <1>7, <1>8, <1>11, QuietHands
<1> QED BY <1>1, <1>4, <1>9, <1>10, <1>11, QuietStep

(* There is a group now.                                                   *)
LEMMA EnsuredIs ==
    ASSUME WorkTyped, NEW n
    PROVE  GroupShape(Sent!Ensured(n)) /\ Sent!Ensured(n).live
<1>1. GroupShape(group)
    BY DEF WorkTyped
<1>2. GroupShape(Sent!Fresh(n)) /\ Sent!Fresh(n).live
    <2>1. PICK z : z = [Sent!NoGroup EXCEPT !.live = TRUE]
        OBVIOUS
    <2>2. z = [live |-> TRUE, over |-> "none", expected |-> 0, done |-> 0, failed |-> 0, cancelled |-> 0]
        BY <2>1 DEF Sent!NoGroup
    <2>3. GroupShape(z) /\ z.live
        BY <2>2 DEF GroupShape
    <2>4. Sent!Fresh(n) = [z EXCEPT !.expected = n]
        BY <2>1 DEF Sent!Fresh
    <2>5. GroupShape([z EXCEPT !.expected = n]) /\ [z EXCEPT !.expected = n].live = z.live
        BY <2>3, GroupEdits
    <2> QED BY <2>3, <2>4, <2>5
<1>3. CASE group.live /\ ~(tasks = <<>> /\ group.over = "cancelled") /\ ~Sent!Over(group, tasks)
    BY <1>3, <1>1, GroupEdits DEF Sent!Ensured
<1>4. CASE ~(group.live /\ ~(tasks = <<>> /\ group.over = "cancelled") /\ ~Sent!Over(group, tasks))
    BY <1>2, <1>4 DEF Sent!Ensured
<1> QED BY <1>3, <1>4

LEMMA EnsuringKeeps ==
    ASSUME SentInv, NEW n, group' = Sent!Ensured(n), Sent!Tell,
           UNCHANGED <<transfer, ref, path, objects, queues, current, tasks, failures, pass, twice, torn>>,
           AlbumTyped', BatchKnown', \A g \in Files : Kept(g)' <=> Kept(g),
           \A g \in Files \ twice : InQueue(g) => hand'[g].at = hand[g].at
    PROVE  SentInv'
<1>1. GroupShape(group') /\ group'.live
    BY EnsuredIs DEF SentInv, SentTyped
<1>2. news' \in Seq(RowStates)
    BY TellTyped DEF SentInv, SentTyped
<1>3. SentTyped'
    BY <1>1, <1>2 DEF SentInv, SentTyped, StoreTyped, WorkTyped, PassTyped, NewsTyped
<1>4. \A g : (Worked(g)' <=> Worked(g)) /\ (InQueue(g)' <=> InQueue(g))
    BY DEF Worked, InQueue
<1>5. GroupKnown' /\ PassKnown'
    BY <1>1, <1>4 DEF SentInv, GroupKnown, PassKnown
<1>6. ASSUME NEW g \in Files \ twice'
      PROVE  Once(g)'
    BY <1>4, <1>6, QuietHands DEF SameHands
<1> QED BY <1>3, <1>5, <1>6, QuietStep

LEMMA EnsureKeeps ==
    ASSUME SentInv, NEW f \in Files, Sent!Ensure(f)
    PROVE  SentInv'
<1>1. /\ hand[f].at = "admitted" /\ hand' = [hand EXCEPT ![f].at = "ensured"]
      /\ group' = Sent!Ensured(1) /\ Sent!Tell
      /\ UNCHANGED <<transfer, ref, path, objects, queues, current, batch, tasks, failures, pass, twice, torn>>
    BY DEF Sent!Ensure, Sent!album, Sent!store, Sent!ghosts
<1>2. AlbumTyped
    BY DEF SentInv, SentTyped
<1>3. /\ hand' \in [Files -> HandRecord] /\ hand'[f].at = "ensured"
      /\ \A g \in Files : g # f => hand'[g] = hand[g]
    BY <1>1, <1>2, HandAt
<1>4. AlbumTyped' /\ BatchKnown'
    BY <1>1, <1>2, <1>3 DEF AlbumTyped, SentInv, BatchKnown
<1>5. \A g \in Files : Kept(g)' <=> Kept(g)
    BY <1>1, <1>3 DEF Kept, InQueue
<1>6. \A g \in Files \ twice : InQueue(g) => hand[g].at \in {"idle", "target"}
    BY DEF SentInv, AllOnce, Once, OneHand
<1>7. \A g \in Files \ twice : InQueue(g) => hand'[g].at = hand[g].at
    BY <1>1, <1>3, <1>6
<1> QED BY <1>1, <1>4, <1>5, <1>7, EnsuringKeeps

LEMMA AlbumEnsuredKeeps ==
    ASSUME SentInv, Sent!AlbumEnsured
    PROVE  SentInv'
    BY EnsuringKeeps DEF Sent!AlbumEnsured, Sent!store, Sent!ghosts, SentInv, SentTyped, AlbumTyped,
        BatchRecord, BatchKnown, Kept, InQueue

LEMMA AlbumAdmittedKeeps ==
    ASSUME SentInv, Sent!AlbumAdmitted
    PROVE  SentInv'
    BY WrittenIs, HandsStep DEF Sent!AlbumAdmitted, Sent!queue, Sent!ghosts, RowStates, SentInv,
        SentTyped, WorkTyped, AlbumTyped, BatchRecord, BatchKnown, InQueue, Kept, AllOnce, Once,
        OneHand

(* The album's queue is busy or not, or no longer the one looked at.       *)
LEMMA AlbumTurns ==
    ASSUME SentInv, UNCHANGED <<transfer, ref, path, objects, hand, group, tasks, failures, news, pass, twice, torn>>,
           batch' \in BatchRecord, batch'.stage \in {"none", "taken"},
           batch'.stage = "taken" => current # 0 /\ current' # 0 /\ batch'.files \subseteq queues[current].files,
           \/ current' = 0 /\ queues' = queues
           \/ /\ current' = current /\ current # 0
              /\ \E b \in BOOLEAN : /\ queues' = [queues EXCEPT ![current].busy = b]
                                    /\ b = (batch'.stage # "none")
    PROVE  SentInv'
<1>1. AlbumTyped /\ GroupShape(group) /\ transfer \in RowStates
    BY DEF SentInv, SentTyped, StoreTyped, WorkTyped
<1>2. /\ queues' \in Seq(QueueRecord) /\ current' \in 0..Len(queues')
      /\ current' # 0 => /\ current' = current /\ queues'[current].files = queues[current].files
                         /\ queues'[current].busy <=> batch'.stage # "none"
    <2>1. CASE current' = 0 /\ queues' = queues
        BY <1>1, <2>1, HandsAre DEF AlbumTyped
    <2>2. CASE /\ current' = current /\ current # 0
               /\ \E b \in BOOLEAN : /\ queues' = [queues EXCEPT ![current].busy = b]
                                     /\ b = (batch'.stage # "none")
        <3>1. PICK b \in BOOLEAN : queues' = [queues EXCEPT ![current].busy = b] /\ b = (batch'.stage # "none")
            BY <2>2
        <3>2. current \in DOMAIN queues
            BY <1>1, <2>2, HandsAre
        <3>3. LET Q == [queues EXCEPT ![current].busy = b]
              IN  QueueTurns(current, Q) /\ Q[current].busy = b /\ Q[current].files = queues[current].files
            BY <1>1, <3>2, QueueBusy, Zenon
        <3>4. QueueTurns(current, queues') /\ queues'[current].busy = b
              /\ queues'[current].files = queues[current].files
            BY <3>1, <3>3, Zenon
        <3>5. current \in 0..Len(queues)
            BY <1>1 DEF AlbumTyped
        <3> QED BY <2>2, <3>1, <3>4, <3>5 DEF QueueTurns
    <2> QED BY <2>1, <2>2
<1>3. AlbumTyped'
    BY <1>1, <1>2 DEF AlbumTyped
<1>4. BatchKnown'
    BY <1>2 DEF BatchKnown
<1>5. \A g \in Files : InQueue(g)' => InQueue(g)
    BY <1>2 DEF InQueue
<1>6. \A g \in Files : Kept(g)' => Kept(g)
    BY <1>5 DEF Kept
<1>7. \A g \in Files \ twice : InQueue(g) => hand[g].at \in {"idle", "target"}
    BY DEF SentInv, AllOnce, Once, OneHand
<1> QED BY <1>1, <1>3, <1>4, <1>5, <1>6, <1>7, HandsStep

LEMMA FireKeeps ==
    ASSUME SentInv, Sent!Fire
    PROVE  SentInv'
<1>1. UNCHANGED <<transfer, ref, path, objects, hand, group, tasks, failures, news, pass, twice, torn>>
    BY DEF Sent!Fire, Sent!store, Sent!queue
<1>2. AlbumTyped /\ batch \in BatchRecord /\ GroupShape(group) /\ transfer \in RowStates
    BY DEF SentInv, SentTyped, AlbumTyped, StoreTyped, WorkTyped
<1>3. CASE current = 0 \/ queues[current].busy
    BY <1>3, <1>1, <1>2, HandsStep DEF Sent!Fire, AlbumTyped, SentInv, BatchKnown, InQueue, Kept,
        AllOnce, Once, OneHand
<1>4. CASE current # 0 /\ ~queues[current].busy /\ queues[current].files = {}
    BY <1>4, <1>1, <1>2, AlbumTurns DEF Sent!Fire, SentInv, BatchKnown
<1>5. CASE current # 0 /\ ~queues[current].busy /\ queues[current].files # {}
    <2>1. /\ queues' = [queues EXCEPT ![current].busy = TRUE] /\ current' = current
          /\ batch' = [stage |-> "taken", files |-> queues[current].files]
        BY <1>5 DEF Sent!Fire
    <2>2. queues[current].files \subseteq Files
        BY <1>2, <1>5, HandsAre
    <2>3. batch' \in BatchRecord /\ batch'.stage = "taken" /\ batch'.files = queues[current].files
        BY <2>1, <2>2 DEF BatchRecord
    <2>4. \E b \in BOOLEAN : queues' = [queues EXCEPT ![current].busy = b] /\ b = (batch'.stage # "none")
        BY <2>3, <2>1
    <2> QED BY <1>1, <1>5, <2>1, <2>3, <2>4, AlbumTurns
<1> QED BY <1>3, <1>4, <1>5

LEMMA AlbumEndsKeep ==
    ASSUME SentInv, Sent!AlbumFails \/ Sent!AlbumDone
    PROVE  SentInv'
<1>1. /\ batch.stage # "none" /\ batch' = Sent!NoBatch
      /\ UNCHANGED <<transfer, ref, path, objects, hand, group, tasks, failures, news, pass, twice, torn>>
      /\ \/ current' = 0 /\ queues' = queues
         \/ current' = current /\ queues' = [queues EXCEPT ![current].busy = FALSE]
    BY DEF Sent!AlbumFails, Sent!AlbumDone, Sent!store, Sent!queue, Sent!ghosts
<1>2. current # 0
    BY <1>1 DEF SentInv, BatchKnown
<1>3. batch' \in BatchRecord /\ batch'.stage = "none"
    BY <1>1 DEF Sent!NoBatch, BatchRecord
<1>4. CASE current' = 0 /\ queues' = queues
    BY <1>1, <1>3, <1>4, AlbumTurns
<1>5. CASE current' = current /\ queues' = [queues EXCEPT ![current].busy = FALSE]
    BY <1>3, <1>5, <1>1, <1>2, AlbumTurns
<1> QED BY <1>1, <1>4, <1>5

LEMMA PauseKeeps ==
    ASSUME SentInv, Sent!Pause \/ Sent!ResumeGroup
    PROVE  SentInv'
<1>1. /\ \E x : group' = [group EXCEPT !.over = x]
      /\ Sent!Tell
      /\ UNCHANGED <<transfer, ref, path, objects, hand, queues, current, batch, tasks, failures, pass, twice, torn>>
    BY DEF Sent!Pause, Sent!store, Sent!album, Sent!ghosts, Sent!ResumeGroup
<1>2. PICK x : group' = [group EXCEPT !.over = x]
    BY <1>1
<1>3. GroupShape(group') /\ group'.live = group.live
    BY <1>2, GroupEdits DEF SentInv, SentTyped, WorkTyped
<1>4. news' \in Seq(RowStates)
    BY <1>1, TellTyped DEF SentInv, SentTyped
<1>5. SentTyped'
    BY <1>1, <1>3, <1>4 DEF SentInv, SentTyped, StoreTyped, WorkTyped, PassTyped, NewsTyped, AlbumTyped
<1>6. \A g : (InQueue(g)' <=> InQueue(g)) /\ (Kept(g)' <=> Kept(g)) /\ (Worked(g)' <=> Worked(g))
    BY <1>1 DEF InQueue, Kept, Worked
<1>7. GroupKnown' /\ BatchKnown' /\ PassKnown'
    BY <1>1, <1>3, <1>6 DEF SentInv, GroupKnown, BatchKnown, PassKnown
<1>8. ASSUME NEW g \in Files \ twice'
      PROVE  Once(g)'
    BY <1>1, <1>6, <1>8, QuietHands DEF SameHands
<1> QED BY <1>1, <1>5, <1>7, <1>8, QuietStep

-----------------------------------------------------------------------------
(* Files are queued.                                                       *)

LEMMA SentCounts ==
    ASSUME NEW S
    PROVE  Sent!Cardinality(S) = Cardinality(S)
BY Zenon DEF Sent!Cardinality, Cardinality

LEMMA OrderIsOneToOne ==
    ASSUME NEW S, IsFiniteSet(S), NEW order \in [1..Sent!Cardinality(S) -> S],
           \A f \in S : \E i \in DOMAIN order : order[i] = f
    PROVE  /\ Sent!Cardinality(S) \in Nat
           /\ \A i, j \in 1..Sent!Cardinality(S) : order[i] = order[j] => i = j
<1>1. PICK n : n = Sent!Cardinality(S)
    OBVIOUS
<1>2. n = Cardinality(S) /\ n \in Nat
    BY <1>1, SentCounts, FS_CardinalityType
<1>3. IsFiniteSet(1..n) /\ Cardinality(1..n) = n
    BY <1>2, FS_Interval
<1>4. order \in Surjection(1..n, S)
    BY <1>1 DEF Surjection
<1>5. order \in Injection(1..n, S)
    BY <1>2, <1>3, <1>4, FS_Surjection
<1> QED BY <1>1, <1>2, <1>5 DEF Injection, IsInjective

LEMMA TaskIsNew ==
    ASSUME NEW f \in Files, NEW k \in {"single", "album", "again"}
    PROVE  LET t == Sent!Task(f, k)
           IN  t \in WorkRecord /\ t.file = f /\ t.at = "waiting" /\ t.obj = 0 /\ ~t.good /\ ~t.abort
BY DEF Sent!Task, WorkRecord, SentStages

(* The tasks that wait at the end of the queue, one for each file.         *)
Joined(fs) ==
    /\ tasks' \in Seq(WorkRecord) /\ Len(tasks) \in Nat /\ Len(tasks') \in Nat /\ Len(tasks) <= Len(tasks')
    /\ DOMAIN tasks = 1..Len(tasks) /\ DOMAIN tasks' = 1..Len(tasks')
    /\ \A i \in DOMAIN tasks : i \in DOMAIN tasks' /\ tasks'[i] = tasks[i]
    /\ \A i \in DOMAIN tasks' : i \notin DOMAIN tasks =>
          /\ tasks'[i].file \in fs /\ tasks'[i].at = "waiting" /\ tasks'[i].obj = 0
          /\ \A j \in DOMAIN tasks' : j \notin DOMAIN tasks /\ tasks'[i].file = tasks'[j].file => i = j

LEMMA TasksGrow ==
    ASSUME NEW s, NEW m, NEW n, tasks \in Seq(WorkRecord), s \in Seq(WorkRecord),
           m = Len(tasks), n = Len(s), tasks' = tasks \o s
    PROVE  /\ tasks' \in Seq(WorkRecord) /\ Len(tasks') = m + n
           /\ \A i \in 1..(m + n) : tasks'[i] = IF i <= m THEN tasks[i] ELSE s[i - m]
BY ConcatProperties

LEMMA JoinedBy ==
    ASSUME WorkTyped, NEW fs \in SUBSET Files, IsFiniteSet(fs), NEW k \in {"single", "album", "again"},
           NEW order \in [1..Sent!Cardinality(fs) -> fs],
           \A f \in fs : \E i \in DOMAIN order : order[i] = f,
           NEW s \in [DOMAIN order -> WorkRecord],
           \A i \in DOMAIN order : s[i] = Sent!Task(order[i], k),
           tasks' = tasks \o s
    PROVE  Joined(fs)
<1>1. PICK n, m : n = Sent!Cardinality(fs) /\ m = Len(tasks)
    OBVIOUS
<1>2. /\ n \in Nat /\ DOMAIN order = 1..n /\ order \in [1..n -> fs]
      /\ \A i, j \in 1..n : order[i] = order[j] => i = j
    BY <1>1, OrderIsOneToOne
<1>3. m \in Nat /\ DOMAIN tasks = 1..m /\ tasks \in Seq(WorkRecord)
    BY <1>1, WorkAre DEF WorkTyped
<1>4. \A i \in 1..n : /\ Sent!Task(order[i], k) \in WorkRecord /\ Sent!Task(order[i], k).file = order[i]
                      /\ Sent!Task(order[i], k).at = "waiting" /\ Sent!Task(order[i], k).obj = 0
    BY <1>2, TaskIsNew
<1>5. s \in [1..n -> WorkRecord] /\ \A i \in 1..n : s[i] = Sent!Task(order[i], k)
    BY <1>2
<1>6. s \in Seq(WorkRecord) /\ Len(s) = n
    BY <1>2, <1>5, SeqOf
<1>7. /\ tasks' \in Seq(WorkRecord) /\ Len(tasks') = m + n
      /\ \A i \in 1..(m + n) : tasks'[i] = IF i <= m THEN tasks[i] ELSE s[i - m]
    <2>1. /\ tasks \in Seq(WorkRecord) /\ s \in Seq(WorkRecord) /\ m = Len(tasks) /\ n = Len(s)
          /\ tasks' = tasks \o s
        BY <1>1, <1>3, <1>6
    <2> QED BY <2>1, TasksGrow
<1>8. DOMAIN tasks' = 1..(m + n)
    BY <1>7, LenProperties
<1>9. \A i \in DOMAIN tasks : i \in DOMAIN tasks' /\ tasks'[i] = tasks[i]
    BY <1>2, <1>3, <1>7, <1>8
<1>10. ASSUME NEW i \in DOMAIN tasks', i \notin DOMAIN tasks
       PROVE  i - m \in 1..n /\ tasks'[i] = s[i - m]
    <2>1. i \in 1..(m + n) /\ i \notin 1..m /\ m \in Nat /\ n \in Nat
        BY <1>2, <1>3, <1>8, <1>10
    <2>2. i - m \in 1..n /\ ~(i <= m)
        BY <2>1
    <2>3. tasks'[i] = IF i <= m THEN tasks[i] ELSE s[i - m]
        BY <1>7, <2>1
    <2> QED BY <2>2, <2>3
<1>11. ASSUME NEW i \in DOMAIN tasks', i \notin DOMAIN tasks
       PROVE  tasks'[i].file = order[i - m] /\ tasks'[i].at = "waiting" /\ tasks'[i].obj = 0
    <2>1. PICK j \in 1..n : j = i - m /\ tasks'[i] = s[j]
        BY <1>10, <1>11
    <2> QED BY <1>4, <1>5, <2>1
<1>12. ASSUME NEW i \in DOMAIN tasks', i \notin DOMAIN tasks, NEW j \in DOMAIN tasks', j \notin DOMAIN tasks,
              tasks'[i].file = tasks'[j].file
       PROVE  i = j
    <2>1. order[i - m] = order[j - m] /\ i - m \in 1..n /\ j - m \in 1..n
        BY <1>10, <1>11, <1>12
    <2>2. i - m = j - m
        BY <1>2, <2>1
    <2> QED BY <1>3, <1>8, <1>2, <2>2
<1>13. \A i \in DOMAIN tasks' : i \notin DOMAIN tasks => tasks'[i].file \in fs
    <2>1. ASSUME NEW i \in DOMAIN tasks', i \notin DOMAIN tasks
          PROVE  tasks'[i].file \in fs
        BY <1>10, <2>1, <1>2, <1>11
    <2> QED BY <2>1
<1>14. /\ Len(tasks) \in Nat /\ Len(tasks') \in Nat /\ Len(tasks) <= Len(tasks')
       /\ DOMAIN tasks = 1..Len(tasks) /\ DOMAIN tasks' = 1..Len(tasks')
    BY <1>1, <1>2, <1>3, <1>7, <1>8
<1>15. \A i \in DOMAIN tasks' : i \notin DOMAIN tasks =>
          /\ tasks'[i].file \in fs /\ tasks'[i].at = "waiting" /\ tasks'[i].obj = 0
          /\ \A j \in DOMAIN tasks' : j \notin DOMAIN tasks /\ tasks'[i].file = tasks'[j].file => i = j
    BY <1>11, <1>12, <1>13
<1> QED BY <1>7, <1>9, <1>14, <1>15 DEF Joined

LEMMA JoinedIs ==
    ASSUME WorkTyped, NEW fs \in SUBSET Files, IsFiniteSet(fs), NEW k \in {"single", "album", "again"},
           NEW order \in [1..Sent!Cardinality(fs) -> fs],
           \A f \in fs : \E i \in DOMAIN order : order[i] = f,
           tasks' = tasks \o [i \in DOMAIN order |-> Sent!Task(order[i], k)]
    PROVE  Joined(fs)
<1>1. \A i \in DOMAIN order : Sent!Task(order[i], k) \in WorkRecord
    BY TaskIsNew
<1>2. \E s \in [DOMAIN order -> WorkRecord] :
          (\A i \in DOMAIN order : s[i] = Sent!Task(order[i], k)) /\ tasks' = tasks \o s
    BY <1>1
<1> QED BY <1>2, JoinedBy

LEMMA AddIs ==
    ASSUME WorkTyped, StoreTyped, NEW fs \in SUBSET Files, IsFiniteSet(fs),
           NEW k \in {"single", "album", "again"}, NEW g, GroupShape(g), Sent!Add(g, fs, k)
    PROVE  /\ GroupShape(group') /\ group'.live = g.live /\ ref' \in [Files -> RefStates]
           /\ \A f \in Files \ fs : ref'[f] = ref[f]
           /\ \/ tasks' = tasks /\ \A f \in fs : ref'[f] = "cancelled"
              \/ Joined(fs) /\ ref' = ref
<1>1. CASE g.over = "cancelled"
    BY <1>1 DEF Sent!Add, StoreTyped, RefStates
<1>2. CASE g.over # "cancelled"
    <2>1. PICK order \in [1..Sent!Cardinality(fs) -> fs] :
              /\ \A f \in fs : \E i \in DOMAIN order : order[i] = f
              /\ tasks' = tasks \o [i \in DOMAIN order |-> Sent!Task(order[i], k)]
              /\ group' = [g EXCEPT
                    !.expected = Sent!Max2(@, Len(tasks') + Sent!Ended(g)),
                    !.over = IF @ = "pausing" /\ Sent!Active(tasks) = {} THEN "paused" ELSE @]
              /\ ref' = ref
        BY <1>2 DEF Sent!Add
    <2>2. PICK x, y, z :
              /\ x = Sent!Max2(g.expected, Len(tasks') + Sent!Ended(g))
              /\ y = IF g.over = "pausing" /\ Sent!Active(tasks) = {} THEN "paused" ELSE g.over
              /\ z = [g EXCEPT !.expected = x]
        OBVIOUS
    <2>3. group' = [z EXCEPT !.over = y]
        BY <2>1, <2>2
    <2>4. GroupShape(z) /\ z.live = g.live
        <3>1. GroupShape([g EXCEPT !.expected = x]) /\ [g EXCEPT !.expected = x].live = g.live
            BY GroupEdits
        <3> QED BY <2>2, <3>1
    <2>5. GroupShape(group') /\ group'.live = g.live
        BY <2>4, GroupEdits, <2>3
    <2>6. Joined(fs)
        BY <2>1, JoinedIs
    <2> QED BY <2>1, <2>5, <2>6 DEF StoreTyped
<1> QED BY <1>1, <1>2

(* Files that nobody else has are queued, or cancelled.                    *)
LEMMA QueuedKeeps ==
    ASSUME SentInv, NEW fs \in SUBSET Files, IsFiniteSet(fs), NEW k \in {"single", "album", "again"},
           NEW g, GroupShape(g), g.live, Sent!Add(g, fs, k),
           UNCHANGED <<path, objects, twice, torn>>, transfer' \in RowStates, news' \in Seq(RowStates),
           AlbumTyped', PassTyped', BatchKnown', failures' \subseteq failures,
           pass' = pass \/ (pass'.at = "none" /\ pass'.todo = {} /\ pass'.again = {}
                            /\ \A f \in Files : pass'.refs[f] = "none"),
           \A f \in Files : Kept(f)' => Kept(f),
           \A f \in Files \ (fs \cup twice) : InQueue(f)' => InQueue(f) /\ hand'[f].at \in {"idle", "target"},
           \A f \in Files \ (fs \cup twice) : f \in failures => f \in failures',
           \A f \in fs : pass' = pass => ~(pass.at = "taken" /\ pass.refs[f] = "saving"),
           \A f \in fs \ twice : /\ ref[f] = "pending" \/ (f \in failures /\ ref[f] \in {"downloading", "saving", "failed"})
                                 /\ ~Worked(f) /\ f \notin failures' /\ ~Recovered(f)' /\ ~Kept(f)'
    PROVE  SentInv'
<1>1. WorkTyped /\ StoreTyped /\ failures' \subseteq Files
    BY DEF SentInv, SentTyped, WorkTyped
<1>2. /\ GroupShape(group') /\ group'.live /\ ref' \in [Files -> RefStates]
      /\ \A f \in Files \ fs : ref'[f] = ref[f]
      /\ \/ tasks' = tasks /\ \A f \in fs : ref'[f] = "cancelled"
         \/ Joined(fs) /\ ref' = ref
    BY <1>1, AddIs
<1>3. /\ tasks' \in Seq(WorkRecord) /\ \A i \in DOMAIN tasks : i \in DOMAIN tasks' /\ tasks'[i] = tasks[i]
      /\ \A i \in DOMAIN tasks' : i \notin DOMAIN tasks =>
            /\ tasks'[i].file \in fs /\ tasks'[i].at = "waiting" /\ tasks'[i].obj = 0
            /\ \A j \in DOMAIN tasks' : j \notin DOMAIN tasks /\ tasks'[i].file = tasks'[j].file => i = j
    BY <1>1, <1>2 DEF Joined, WorkTyped
<1>4. \A f \in Files : ref'[f] = ref[f] \/ (f \in fs /\ ref'[f] = "cancelled")
    BY <1>2
<1>5. SentTyped'
    BY <1>1, <1>2, <1>3 DEF SentInv, SentTyped, StoreTyped, WorkTyped, NewsTyped
<1>6. PathsKnown'
    BY DEF SentInv, PathsKnown
<1>7. TasksSound'
    BY <1>3 DEF SentInv, TasksSound, TaskSound
<1>8. \A o : Sent!Busy(o) => Sent!Busy(o)'
    BY <1>3 DEF Sent!Busy
<1>9. Sent!IndexedIsThere'
    BY <1>8 DEF SentInv, Sent!IndexedIsThere
<1>10. GroupKnown'
    BY <1>2 DEF GroupKnown
<1>11. \A f \in Files : Worked(f)' => Worked(f) \/ f \in fs
    BY <1>3 DEF Worked
<1>12. PassKnown'
    BY <1>2, <1>4, <1>11 DEF SentInv, PassKnown
<1>13. ASSUME NEW f \in Files \ twice', f \notin fs
       PROVE  Once(f)'
    <2>1. Once(f)
        BY <1>13 DEF SentInv, AllOnce
    <2>2. \A i \in DOMAIN tasks' : tasks'[i].file = f => i \in DOMAIN tasks
        BY <1>3, <1>13
    <2>3. SameTasks(f)
        BY <1>3, <2>1, <2>2 DEF SameTasks, Once, OneTask
    <2>4. SameObjects(f)
        BY DEF SameObjects
    <2>5. Worked(f)' <=> Worked(f)
        BY <2>3 DEF SameTasks, Worked
    <2>6. Recovered(f)' => Recovered(f)
        BY DEF Recovered
    <2>7. OneHand(f)'
        BY <1>2, <1>13, <2>1, <2>5, <2>6 DEF Once, OneHand
    <2> QED BY <1>1, <1>2, <1>13, <2>1, <2>3, <2>4, <2>7, FileHeld DEF SentInv
<1>14. ASSUME NEW f \in fs \ twice'
       PROVE  Once(f)'
    BY <1>14, <1>3, <1>2, <1>8 DEF SentInv, AllOnce, OneHand, Recovered, Kept, Worked, RefFits,
        OneTask, Once, OneIndex, StraysOf
<1>15. AllOnce'
    BY <1>13, <1>14 DEF AllOnce
<1> QED BY <1>5, <1>6, <1>7, <1>9, <1>10, <1>12, <1>15 DEF SentInv

LEMMA FewFiles ==
    ASSUME FinitelySent, NEW fs \in SUBSET Files
    PROVE  IsFiniteSet(fs)
BY FS_Subset DEF FinitelySent

LEMMA HeldIs ==
    ASSUME SentInv, NEW f \in Files \ twice
    PROVE  /\ InQueue(f) => hand[f].at \in {"idle", "target"}
           /\ Kept(f) => ref[f] = "pending" /\ ~Worked(f) /\ f \notin failures /\ ~Recovered(f)
           /\ Worked(f) => f \notin failures /\ ~Recovered(f)
           /\ f \in failures => ~Recovered(f) /\ ref[f] \in {"pending", "downloading", "saving", "failed"}
           /\ f \in pass.todo => f \notin pass.again /\ ref[f] = pass.refs[f]
           /\ f \in pass.again => ref[f] = "pending"
BY DEF SentInv, AllOnce, Once, OneHand

LEMMA EnqueueKeeps ==
    ASSUME FinitelySent, SentInv, NEW f \in Files, Sent!Enqueue(f)
    PROVE  SentInv'
<1>1. /\ hand[f].at = "ensured" /\ hand' = [hand EXCEPT ![f] = Sent!Idle]
      /\ Sent!Add(group, {f}, "single") /\ Sent!Tell
      /\ UNCHANGED <<transfer, path, objects, queues, current, batch, failures, pass, twice, torn>>
    BY DEF Sent!Enqueue, Sent!album, Sent!ghosts
<1>2. AlbumTyped /\ PassTyped /\ NewsTyped /\ GroupShape(group) /\ transfer \in RowStates
    BY DEF SentInv, SentTyped, StoreTyped, WorkTyped
<1>3. Kept(f) /\ group.live
    BY <1>1 DEF Kept, SentInv, GroupKnown
<1>4. /\ hand' \in [Files -> HandRecord] /\ hand'[f].at = "idle"
      /\ \A g \in Files : g # f => hand'[g] = hand[g]
    BY <1>1, <1>2, IdleIs, HandPut
<1>5. AlbumTyped' /\ PassTyped' /\ BatchKnown'
    BY <1>1, <1>2, <1>4 DEF AlbumTyped, PassTyped, SentInv, BatchKnown
<1>6. news' \in Seq(RowStates)
    BY <1>1, <1>2, TellTyped
<1>7. \A g : InQueue(g)' <=> InQueue(g)
    BY <1>1 DEF InQueue
<1>8. \A g \in Files : Kept(g)' => Kept(g)
    BY <1>4, <1>7 DEF Kept
<1>9. f \notin twice => /\ ref[f] = "pending" /\ ~Worked(f) /\ f \notin failures /\ ~Recovered(f)
                        /\ ~InQueue(f)
    BY <1>1, <1>3, HeldIs
<1>10. f \notin twice => ~Recovered(f)' /\ ~Kept(f)' /\ f \notin failures'
    BY <1>1, <1>4, <1>7, <1>9 DEF Recovered, Kept
<1>11. \A g \in Files \ ({f} \cup twice) : InQueue(g)' => InQueue(g) /\ hand'[g].at \in {"idle", "target"}
    BY <1>4, <1>7, HeldIs
<1>12. ~(pass.at = "taken" /\ pass.refs[f] = "saving")
    BY <1>3 DEF SentInv, PassKnown
<1>13. {f} \in SUBSET Files /\ IsFiniteSet({f})
    BY FewFiles
<1> QED BY <1>1, <1>2, <1>3, <1>5, <1>6, <1>8, <1>9, <1>10, <1>11, <1>12, <1>13, QueuedKeeps

LEMMA AlbumQueuedKeeps ==
    ASSUME FinitelySent, SentInv, Sent!AlbumQueued
    PROVE  SentInv'
<1>1. PICK fs, R : fs = batch.files /\ R = queues[current].files \ batch.files
    OBVIOUS
<1>2. /\ batch.stage = "ensured" /\ batch' = [batch EXCEPT !.stage = "queued"]
      /\ queues' = [queues EXCEPT ![current].files = R]
      /\ Sent!Add(group, fs, "album") /\ Sent!Tell
      /\ UNCHANGED <<transfer, path, objects, hand, current, failures, pass, twice, torn>>
    BY <1>1 DEF Sent!AlbumQueued, Sent!ghosts
<1>3. AlbumTyped /\ PassTyped /\ NewsTyped /\ GroupShape(group) /\ transfer \in RowStates /\ batch \in BatchRecord
    BY DEF SentInv, SentTyped, StoreTyped, WorkTyped, AlbumTyped
<1>4. group.live /\ current # 0 /\ fs \subseteq queues[current].files /\ current \in DOMAIN queues
      /\ queues[current].busy
    BY <1>1, <1>2, <1>3, HandsAre DEF SentInv, GroupKnown, BatchKnown
<1>5. fs \in SUBSET Files /\ R \in SUBSET Files /\ IsFiniteSet(fs)
    BY <1>3, <1>4, HandsAre, <1>1, FewFiles
<1>6. /\ QueueTurns(current, queues') /\ queues'[current].files = R
      /\ queues'[current].busy = queues[current].busy
    BY <1>2, <1>3, <1>4, <1>5, QueueFiles
<1>7. batch' \in BatchRecord /\ batch'.stage = "queued"
    BY <1>2, <1>3 DEF BatchRecord
<1>8. AlbumTyped'
    BY <1>2, <1>3, <1>6, <1>7 DEF AlbumTyped, QueueTurns
<1>9. BatchKnown' /\ PassTyped'
    BY <1>2, <1>3, <1>4, <1>6, <1>7 DEF BatchKnown, PassTyped
<1>10. news' \in Seq(RowStates)
    BY <1>2, <1>3, TellTyped
<1>11. /\ \A g : InQueue(g)' => InQueue(g) /\ g \notin fs
       /\ \A g \in fs : InQueue(g)
    BY <1>1, <1>2, <1>4, <1>6 DEF InQueue
<1>12. \A g \in Files : Kept(g)' => Kept(g)
    BY <1>2, <1>11 DEF Kept
<1>13. ASSUME NEW g \in fs \ twice
       PROVE  /\ ref[g] = "pending" /\ ~Worked(g) /\ g \notin failures' /\ ~Recovered(g)' /\ ~Kept(g)'
    BY <1>5, <1>11, <1>13, HeldIs, <1>2 DEF Kept, Recovered
<1>14. \A g \in Files \ (fs \cup twice) : InQueue(g)' => InQueue(g) /\ hand'[g].at \in {"idle", "target"}
    BY <1>2, <1>11, HeldIs
<1>15. \A g \in fs : ~(pass.at = "taken" /\ pass.refs[g] = "saving")
    BY <1>5, <1>11 DEF SentInv, PassKnown, Kept
<1> QED BY <1>2, <1>3, <1>4, <1>5, <1>8, <1>9, <1>10, <1>12, <1>13, <1>14, <1>15, QueuedKeeps

LEMMA RetryKeeps ==
    ASSUME FinitelySent, SentInv, NEW f \in Files, Sent!Retry(f)
    PROVE  SentInv'
<1>1. PICK g, k, x :
          /\ x = IF group.failed > 0 THEN group.failed - 1 ELSE 0
          /\ g = [group EXCEPT !.failed = x]
          /\ k = IF Album THEN "again" ELSE "single"
    OBVIOUS
<1>2. /\ f \in failures /\ group.live /\ failures' = failures \ {f}
      /\ Sent!Add(g, {f}, k) /\ Sent!Tell
      /\ UNCHANGED <<transfer, path, objects, hand, queues, current, batch, pass, twice, torn>>
    BY <1>1 DEF Sent!Retry, Sent!album, Sent!ghosts
<1>3. AlbumTyped /\ PassTyped /\ NewsTyped /\ GroupShape(group) /\ transfer \in RowStates
    BY DEF SentInv, SentTyped, StoreTyped, WorkTyped
<1>4. GroupShape(g) /\ g.live /\ k \in {"single", "album", "again"}
    BY <1>1, <1>2, <1>3, GroupEdits
<1>5. AlbumTyped' /\ PassTyped' /\ BatchKnown'
    BY <1>2, <1>3 DEF AlbumTyped, PassTyped, SentInv, BatchKnown
<1>6. news' \in Seq(RowStates)
    BY <1>2, <1>3, TellTyped
<1>7. \A h : (InQueue(h)' <=> InQueue(h)) /\ (Kept(h)' <=> Kept(h)) /\ (Recovered(h)' <=> Recovered(h))
    BY <1>2 DEF InQueue, Kept, Recovered
<1>8. f \notin twice => /\ ref[f] \in {"pending", "downloading", "saving", "failed"}
                        /\ ~Worked(f) /\ ~Kept(f) /\ ~Recovered(f)
    BY <1>2, HeldIs
<1>9. \A h \in Files \ ({f} \cup twice) : InQueue(h)' => InQueue(h) /\ hand'[h].at \in {"idle", "target"}
    BY <1>2, <1>7, HeldIs
<1>10. ~(pass.at = "taken" /\ pass.refs[f] = "saving")
    BY <1>2 DEF SentInv, PassKnown
<1>11. {f} \in SUBSET Files /\ IsFiniteSet({f})
    BY FewFiles
<1>12. \A h \in {f} \ twice :
           /\ ref[h] = "pending" \/ (h \in failures /\ ref[h] \in {"downloading", "saving", "failed"})
           /\ ~Worked(h) /\ h \notin failures' /\ ~Recovered(h)' /\ ~Kept(h)'
    BY <1>2, <1>7, <1>8
<1>13. failures' \subseteq failures /\ \A h \in Files \ ({f} \cup twice) : h \in failures => h \in failures'
    BY <1>2
<1> QED BY <1>2, <1>3, <1>4, <1>5, <1>6, <1>7, <1>9, <1>10, <1>11, <1>12, <1>13, QueuedKeeps

LEMMA NoPassIs ==
    /\ PassShape(Sent!NoPass) /\ Sent!NoPass.at = "none" /\ Sent!NoPass.todo = {} /\ Sent!NoPass.again = {}
    /\ \A f \in Files : Sent!NoPass.refs[f] = "none"
BY DEF Sent!NoPass, PassShape, RefStates

LEMMA PassFields ==
    ASSUME SentInv
    PROVE  /\ PassShape(pass) /\ pass.todo \subseteq Files /\ pass.again \subseteq Files
           /\ pass.refs \in [Files -> RefStates] /\ pass.at \in {"none", "read", "taken"}
BY DEF SentInv, SentTyped, PassTyped, PassShape

LEMMA PassRestoresKeeps ==
    ASSUME FinitelySent, SentInv, Sent!PassRestores
    PROVE  SentInv'
<1>1. PICK n, y, e, g1, g2, g3, g :
          /\ n = Sent!Cardinality({f \in Files : pass.refs[f] # "none"})
          /\ e = Sent!Ensured(n)
          /\ y = IF pass.paused THEN "paused" ELSE e.over
          /\ g1 = [e EXCEPT !.done = pass.done]
          /\ g2 = [g1 EXCEPT !.failed = pass.failed]
          /\ g3 = [g2 EXCEPT !.cancelled = pass.cancelled]
          /\ g = [g3 EXCEPT !.over = y]
    OBVIOUS
<1>2. PICK fs : fs = pass.again
    OBVIOUS
<1>3. /\ pass.at = "taken" /\ pass.todo = {} /\ pass' = Sent!NoPass /\ Sent!Tell
      /\ UNCHANGED <<transfer, path, objects, failures, hand, queues, current, batch, twice, torn>>
    BY DEF Sent!PassRestores, Sent!album, Sent!ghosts
<1>4. g = [e EXCEPT !.done = pass.done, !.failed = pass.failed, !.cancelled = pass.cancelled,
                    !.over = IF pass.paused THEN "paused" ELSE @]
    BY <1>1
<1>5. Sent!Add(g, fs, "again")
    BY <1>1, <1>2, <1>4 DEF Sent!PassRestores
<1>6. AlbumTyped /\ WorkTyped /\ NewsTyped /\ transfer \in RowStates
    BY DEF SentInv, SentTyped, StoreTyped
<1>7. GroupShape(g) /\ g.live
    <2>1. GroupShape(e) /\ e.live
        BY <1>1, <1>6, EnsuredIs
    <2>2. GroupShape(g1) /\ g1.live
        <3>1. PICK v : v = pass.done
            OBVIOUS
        <3>2. GroupShape([e EXCEPT !.done = v]) /\ [e EXCEPT !.done = v].live = e.live
            BY <2>1, GroupEdits
        <3> QED BY <1>1, <2>1, <3>1, <3>2
    <2>3. GroupShape(g2) /\ g2.live
        <3>1. PICK v : v = pass.failed
            OBVIOUS
        <3>2. GroupShape([g1 EXCEPT !.failed = v]) /\ [g1 EXCEPT !.failed = v].live = g1.live
            BY <2>2, GroupEdits
        <3> QED BY <1>1, <2>2, <3>1, <3>2
    <2>4. GroupShape(g3) /\ g3.live
        <3>1. PICK v : v = pass.cancelled
            OBVIOUS
        <3>2. GroupShape([g2 EXCEPT !.cancelled = v]) /\ [g2 EXCEPT !.cancelled = v].live = g2.live
            BY <2>3, GroupEdits
        <3> QED BY <1>1, <2>3, <3>1, <3>2
    <2>5. GroupShape([g3 EXCEPT !.over = y]) /\ [g3 EXCEPT !.over = y].live = g3.live
        BY <2>4, GroupEdits
    <2> QED BY <1>1, <2>4, <2>5
<1>8. fs \in SUBSET Files /\ IsFiniteSet(fs)
    BY <1>2, PassFields, FewFiles
<1>9. /\ PassTyped' /\ pass'.at = "none" /\ pass'.todo = {} /\ pass'.again = {}
      /\ \A f \in Files : pass'.refs[f] = "none"
    BY <1>3, NoPassIs DEF PassTyped
<1>10. AlbumTyped' /\ BatchKnown'
    BY <1>3, <1>6 DEF AlbumTyped, SentInv, BatchKnown
<1>11. news' \in Seq(RowStates)
    BY <1>3, <1>6, TellTyped
<1>12. \A h : (InQueue(h)' <=> InQueue(h)) /\ (Kept(h)' <=> Kept(h))
    BY <1>3 DEF InQueue, Kept
<1>13. \A h \in Files \ (fs \cup twice) : InQueue(h)' => InQueue(h) /\ hand'[h].at \in {"idle", "target"}
    BY <1>3, <1>12, HeldIs
<1>14. ASSUME NEW h \in fs \ twice
       PROVE  /\ ref[h] = "pending" /\ ~Worked(h) /\ h \notin failures' /\ ~Recovered(h)' /\ ~Kept(h)'
    BY <1>2, <1>8, <1>14, HeldIs, <1>3, <1>9, <1>12 DEF Recovered
<1>15. pass' # pass
    BY <1>3, <1>9
<1> QED BY <1>3, <1>5, <1>6, <1>7, <1>8, <1>9, <1>10, <1>11, <1>12, <1>13, <1>14, <1>15, QueuedKeeps

-----------------------------------------------------------------------------
(* The group is cancelled.                                                 *)

LEMMA CancelKeeps ==
    ASSUME SentInv, Sent!Cancel
    PROVE  SentInv'
<1>1. PICK gone : gone = {tasks[i].file : i \in Sent!Waiting(tasks)}
    OBVIOUS
<1>2. PICK order \in [1..Sent!Cardinality(Sent!Active(tasks)) -> Sent!Active(tasks)] :
          /\ \A i \in Sent!Active(tasks) : \E k \in DOMAIN order : order[k] = i
          /\ tasks' = [k \in DOMAIN order |-> [tasks[order[k]] EXCEPT !.abort = TRUE]]
    BY DEF Sent!Cancel
<1>3. /\ group.live /\ ref' = [f \in Files |-> IF f \in gone THEN "cancelled" ELSE ref[f]]
      /\ \E n : group' = [group EXCEPT !.over = "cancelled", !.cancelled = n] /\ Sent!Tell
      /\ UNCHANGED <<transfer, path, objects, hand, queues, current, batch, failures, pass, twice, torn>>
    BY <1>1 DEF Sent!Cancel, Sent!Open, Sent!album, Sent!ghosts
<1>4. WorkTyped /\ StoreTyped /\ NewsTyped
    BY DEF SentInv, SentTyped
<1>5. GroupShape(group') /\ group'.live
    <2>1. PICK n : group' = [group EXCEPT !.over = "cancelled", !.cancelled = n]
        BY <1>3
    <2>2. PICK z : z = [group EXCEPT !.over = "cancelled"]
        OBVIOUS
    <2>3. GroupShape(z) /\ z.live
        BY <1>3, <1>4, <2>2, GroupEdits DEF WorkTyped
    <2>4. group' = [z EXCEPT !.cancelled = n]
        BY <2>1, <2>2
    <2>5. GroupShape([z EXCEPT !.cancelled = n]) /\ [z EXCEPT !.cancelled = n].live = z.live
        BY <2>3, GroupEdits
    <2> QED BY <2>3, <2>4, <2>5
<1>6. /\ DOMAIN tasks = 1..Len(tasks) /\ Len(tasks) \in Nat
      /\ \A i \in DOMAIN tasks : tasks[i] \in WorkRecord /\ tasks[i].file \in Files
    BY <1>4, WorkAre, WorkFields
<1>7. /\ Sent!Cardinality(Sent!Active(tasks)) \in Nat
      /\ \A k, l \in 1..Sent!Cardinality(Sent!Active(tasks)) : order[k] = order[l] => k = l
    <2>1. IsFiniteSet(Sent!Active(tasks))
        <3>1. 1 \in Int /\ Len(tasks) \in Int
            BY <1>6
        <3>2. IsFiniteSet(1..Len(tasks))
            BY <3>1, FS_Interval
        <3>3. Sent!Active(tasks) \in SUBSET (1..Len(tasks))
            BY <1>6 DEF Sent!Active
        <3> QED BY <3>2, <3>3, FS_Subset
    <2> QED BY <1>2, <2>1, OrderIsOneToOne
<1>8. PICK n : n = Sent!Cardinality(Sent!Active(tasks))
    OBVIOUS
<1>9. /\ n \in Nat /\ order \in [1..n -> Sent!Active(tasks)] /\ DOMAIN order = 1..n
      /\ \A k, l \in 1..n : order[k] = order[l] => k = l
    BY <1>2, <1>7, <1>8
<1>10. \A i : i \in Sent!Active(tasks) <=> i \in DOMAIN tasks /\ tasks[i].at # "waiting"
    BY DEF Sent!Active, Sent!Waiting
<1>11. ASSUME NEW k \in 1..n
       PROVE  /\ order[k] \in DOMAIN tasks /\ tasks[order[k]].at # "waiting" /\ tasks'[k] \in WorkRecord
              /\ tasks'[k].file = tasks[order[k]].file /\ tasks'[k].at = tasks[order[k]].at
              /\ tasks'[k].obj = tasks[order[k]].obj /\ tasks'[k].good = tasks[order[k]].good /\ tasks'[k].abort
    BY <1>9, <1>10, <1>6, <1>2, AbortEdit
<1>12. tasks' \in Seq(WorkRecord) /\ DOMAIN tasks' = 1..n
    BY <1>2, <1>9, <1>11, SeqOf
<1>13. ASSUME NEW i \in DOMAIN tasks, tasks[i].at # "waiting"
       PROVE  \E k \in 1..n : order[k] = i
    BY <1>2, <1>9, <1>10, <1>13
<1>14. /\ ref' \in [Files -> RefStates]
       /\ \A f \in Files : ref'[f] = IF f \in gone THEN "cancelled" ELSE ref[f]
    BY <1>3, <1>4 DEF StoreTyped, RefStates
<1>15. news' \in Seq(RowStates)
    BY <1>3, <1>4, TellTyped
<1>16. SentTyped'
    BY <1>3, <1>5, <1>12, <1>14, <1>15
       DEF SentInv, SentTyped, StoreTyped, WorkTyped, PassTyped, NewsTyped, AlbumTyped
<1>17. PathsKnown'
    BY <1>3 DEF SentInv, PathsKnown
<1>18. \A i \in DOMAIN tasks : TaskSound(tasks[i])
    BY DEF SentInv, TasksSound
<1>19. TasksSound'
    BY <1>11, <1>18, <1>3, <1>9, <1>12 DEF TaskSound, SentInv, TasksSound
<1>20. ASSUME NEW o, o # 0, Sent!Busy(o)
       PROVE  Sent!Busy(o)'
    BY <1>20, <1>18, <1>13, <1>11, <1>12 DEF Sent!Busy, TaskSound
<1>21. \A o \in DOMAIN objects : o # 0
    BY <1>4, ObjectsAre
<1>22. Sent!IndexedIsThere'
    BY <1>3, <1>20, <1>21 DEF SentInv, Sent!IndexedIsThere
<1>23. \A f : Worked(f)' => Worked(f)
    BY <1>11, <1>12 DEF Worked
<1>24. \A f : (InQueue(f)' <=> InQueue(f)) /\ (Kept(f)' <=> Kept(f))
    BY <1>3 DEF InQueue, Kept
<1>25. GroupKnown' /\ BatchKnown'
    BY <1>3, <1>5 DEF SentInv, GroupKnown, BatchKnown
<1>26. PassKnown'
    BY <1>3, <1>5, <1>14, <1>23, <1>24 DEF SentInv, PassKnown
<1>27. ASSUME NEW f \in Files \ twice', f \notin gone
       PROVE  Once(f)'
    <2>1. Once(f)
        BY <1>3, <1>27 DEF SentInv, AllOnce
    <2>2. SameHands(f)
        BY <1>3, <1>14, <1>24, <1>27 DEF SameHands
    <2>3. \A i \in DOMAIN tasks : tasks[i].file = f => tasks[i].at # "waiting"
        BY <1>1, <1>27 DEF Sent!Waiting
    <2>4. SameTasks(f)
        BY <1>11, <1>12, <2>1, <1>9, <1>13, <2>3 DEF Once, OneTask, SameTasks
    <2>5. SameObjects(f)
        BY <1>3 DEF SameObjects
    <2> QED BY <1>4, <2>1, <2>2, <2>4, <2>5, FileStays DEF SentInv
<1>28. ASSUME NEW f \in Files \ twice', f \in gone
       PROVE  Once(f)'
    BY <1>1, <1>28, <1>3, <1>14, <1>11, <1>12, <1>24, <1>21, BusyOf, <1>18 DEF Sent!Waiting,
        SentInv, AllOnce, Once, OneTask, Worked, RefFits, OneHand, Recovered, OneIndex, StraysOf,
        TaskSound
<1>29. AllOnce'
    BY <1>27, <1>28 DEF AllOnce
<1> QED BY <1>16, <1>17, <1>19, <1>22, <1>25, <1>26, <1>29 DEF SentInv

-----------------------------------------------------------------------------
(* The pass.                                                               *)

LEMMA PassReadsKeeps ==
    ASSUME SentInv, Sent!PassReads
    PROVE  SentInv'
    BY QuietHands, QuietStep DEF Sent!PassReads, Sent!store, Sent!album, Sent!queue, Sent!ghosts,
        SentInv, SentTyped, StoreTyped, PassShape, WorkTyped, PassTyped, NewsTyped, AlbumTyped,
        InQueue, Kept, Worked, GroupKnown, BatchKnown, PassKnown, SameHands

(* The pass is over.                                                       *)
LEMMA PassEnds ==
    ASSUME SentInv, pass' = Sent!NoPass, transfer' \in RowStates,
           UNCHANGED <<ref, path, objects, hand, queues, current, batch, group, tasks, failures, news>>,
           UNCHANGED <<twice, torn>>
    PROVE  SentInv'
    BY NoPassIs, QuietHands, QuietStep DEF SentInv, SentTyped, StoreTyped, WorkTyped, PassTyped,
        NewsTyped, AlbumTyped, InQueue, Kept, GroupKnown, BatchKnown, PassKnown, SameHands

LEMMA PassFailsKeeps ==
    ASSUME SentInv, Sent!PassFails
    PROVE  SentInv'
    BY PassEnds DEF Sent!PassFails, Sent!album, Sent!queue, Sent!ghosts, RowStates

LEMMA PassEdits ==
    ASSUME NEW p, PassShape(p), NEW x
    PROVE  /\ LET q == [p EXCEPT !.done = x]
              IN PassShape(q) /\ q.at = p.at /\ q.refs = p.refs /\ q.todo = p.todo /\ q.again = p.again
           /\ LET q == [p EXCEPT !.failed = x]
              IN PassShape(q) /\ q.at = p.at /\ q.refs = p.refs /\ q.todo = p.todo /\ q.again = p.again
           /\ LET q == [p EXCEPT !.cancelled = x]
              IN PassShape(q) /\ q.at = p.at /\ q.refs = p.refs /\ q.todo = p.todo /\ q.again = p.again
    BY DEF PassShape

LEMMA PassAt ==
    ASSUME NEW p, PassShape(p), NEW s \in {"none", "read", "taken"}
    PROVE  LET q == [p EXCEPT !.at = s]
           IN PassShape(q) /\ q.at = s /\ q.refs = p.refs /\ q.todo = p.todo /\ q.again = p.again
BY DEF PassShape

LEMMA PassTodo ==
    ASSUME NEW p, PassShape(p), NEW F \in SUBSET Files
    PROVE  LET q == [p EXCEPT !.todo = F]
           IN PassShape(q) /\ q.at = p.at /\ q.refs = p.refs /\ q.todo = F /\ q.again = p.again
BY DEF PassShape

LEMMA PassAgain ==
    ASSUME NEW p, PassShape(p), NEW F \in SUBSET Files
    PROVE  LET q == [p EXCEPT !.again = F]
           IN PassShape(q) /\ q.at = p.at /\ q.refs = p.refs /\ q.todo = p.todo /\ q.again = F
BY DEF PassShape

LEMMA PassTakesKeeps ==
    ASSUME SentInv, Sent!PassTakes
    PROVE  SentInv'
<1>1. /\ pass.at = "read"
      /\ UNCHANGED <<transfer, ref, path, objects, hand, queues, current, batch, group, tasks, failures, news, torn>>
    BY DEF Sent!PassTakes, Sent!store, Sent!album, Sent!queue
<1>2. CASE group.live
    BY <1>2, <1>1, PassEnds DEF Sent!PassTakes, SentInv, SentTyped, StoreTyped
<1>3. CASE ~group.live
    <2>1. PICK F : F = {f \in Files : pass.refs[f] \in {"pending", "downloading", "saving"}}
        OBVIOUS
    <2>2. PICK c, d, e :
            c = Sent!Count("success") /\ d = Sent!Count("failed") /\ e = Sent!Count("cancelled")
        OBVIOUS
    <2>3. PICK p1 : p1 = [pass EXCEPT !.at = "taken"]
        OBVIOUS
    <2>4. PICK p2 : p2 = [p1 EXCEPT !.todo = F]
        OBVIOUS
    <2>5. PICK p3 : p3 = [p2 EXCEPT !.done = c]
        OBVIOUS
    <2>6. PICK p4 : p4 = [p3 EXCEPT !.failed = d]
        OBVIOUS
    <2>7. /\ F = {f \in Files : pass.refs[f] \in {"pending", "downloading", "saving"}}
          /\ c = Sent!Count("success") /\ d = Sent!Count("failed") /\ e = Sent!Count("cancelled")
          /\ p1 = [pass EXCEPT !.at = "taken"] /\ p2 = [p1 EXCEPT !.todo = F]
          /\ p3 = [p2 EXCEPT !.done = c] /\ p4 = [p3 EXCEPT !.failed = d]
        BY <2>1, <2>2, <2>3, <2>4, <2>5, <2>6
    <2>8. /\ pass' = [p4 EXCEPT !.cancelled = e]
          /\ twice' = twice \cup {f \in pass'.todo : Sent!InHand(f)}
        BY <1>3, <2>7 DEF Sent!PassTakes
    <2>9. PassShape(pass) /\ F \in SUBSET Files
        BY <2>7, PassFields
    <2>10. PassShape(p1) /\ p1.at = "taken" /\ p1.refs = pass.refs /\ p1.todo = pass.todo /\ p1.again = pass.again
        BY <2>7, <2>9, PassAt
    <2>11. PassShape(p2) /\ p2.at = "taken" /\ p2.refs = pass.refs /\ p2.todo = F /\ p2.again = pass.again
        <3>1. LET q == [p1 EXCEPT !.todo = F]
              IN PassShape(q) /\ q.at = p1.at /\ q.refs = p1.refs /\ q.todo = F /\ q.again = p1.again
            BY <2>9, <2>10, PassTodo
        <3> QED BY <2>7, <2>10, <3>1
    <2>12. PassShape(p3) /\ p3.at = "taken" /\ p3.refs = pass.refs /\ p3.todo = F /\ p3.again = pass.again
        <3>1. LET q == [p2 EXCEPT !.done = c]
              IN PassShape(q) /\ q.at = p2.at /\ q.refs = p2.refs /\ q.todo = p2.todo /\ q.again = p2.again
            BY <2>11, PassEdits
        <3> QED BY <2>7, <2>10, <2>11, <3>1
    <2>13. PassShape(p4) /\ p4.at = "taken" /\ p4.refs = pass.refs /\ p4.todo = F /\ p4.again = pass.again
        <3>1. LET q == [p3 EXCEPT !.failed = d]
              IN PassShape(q) /\ q.at = p3.at /\ q.refs = p3.refs /\ q.todo = p3.todo /\ q.again = p3.again
            BY <2>12, PassEdits
        <3> QED BY <2>7, <2>10, <2>12, <3>1
    <2>14. PassShape(pass') /\ pass'.at = "taken" /\ pass'.refs = pass.refs /\ pass'.todo = F
          /\ pass'.again = pass.again
        <3>1. LET q == [p4 EXCEPT !.cancelled = e]
              IN PassShape(q) /\ q.at = p4.at /\ q.refs = p4.refs /\ q.todo = p4.todo /\ q.again = p4.again
            BY <2>13, PassEdits
        <3> QED BY <2>8, <2>13, <3>1
    <2>15. pass'.again = {} /\ tasks = <<>> /\ failures = {}
        BY <1>1, <1>3, <2>14 DEF SentInv, GroupKnown, PassKnown
    <2>16. SentTyped'
        BY <1>1, <2>14 DEF SentInv, SentTyped, StoreTyped, WorkTyped, PassTyped, NewsTyped, AlbumTyped
    <2>17. \A g : /\ (InQueue(g)' <=> InQueue(g)) /\ (Kept(g)' <=> Kept(g))
                  /\ ~Worked(g) /\ ~Worked(g)'
        BY <1>1, <2>15 DEF InQueue, Kept, Worked
    <2>18. GroupKnown' /\ BatchKnown'
        BY <1>1, <2>17 DEF SentInv, GroupKnown, BatchKnown
    <2>19. PassKnown'
        BY <1>1, <1>3, <2>7, <2>14, <2>15, <2>17 DEF SentInv, PassKnown
    <2>20. ASSUME NEW g \in Files \ twice'
           PROVE  Once(g)'
        BY <2>8, <2>14, <2>20, <1>1, <1>3, <2>7, <2>15, <2>17, QuietFile DEF SentInv, AllOnce,
            Sent!InHand, Kept, InQueue, PassKnown, Once, OneHand, Recovered
    <2> QED BY <1>1, <2>16, <2>18, <2>19, <2>20, QuietStep
<1> QED BY <1>2, <1>3

(* A file of the pass is settled, or will be loaded again; its objects may *)
(* be removed or reported.                                                 *)
LEMMA PassFile ==
    ASSUME SentInv, NEW f \in pass.todo, NEW s \in RefStates, s \notin {"none", "saving"}, ref' = Sent!Noted(f, s),
           UNCHANGED <<transfer, path, hand, queues, current, batch, group, tasks, failures, news, twice, torn>>,
           PassTyped', pass'.at = pass.at, pass'.refs = pass.refs, pass'.todo = pass.todo \ {f},
           pass'.again = pass.again \/ (pass'.again = pass.again \cup {f} /\ s = "pending"),
           objects' \in Seq(ObjectRecord), DOMAIN objects' = DOMAIN objects, Len(objects') = Len(objects),
           \A o \in DOMAIN objects :
               /\ objects'[o].file = objects[o].file /\ objects'[o].indexed = objects[o].indexed
               /\ objects[o].told => objects'[o].told
               /\ objects[o].file # f => objects'[o].there = objects[o].there,
           pass.refs[f] = "saving" \/ \A o \in DOMAIN objects : objects'[o].there = objects[o].there,
           \A o \in DOMAIN objects : objects'[o].there = objects[o].there \/ (~objects'[o].there /\ ~objects[o].indexed),
           f \in twice \/ \A o \in DOMAIN objects :
               objects[o].file = f /\ objects'[o].there /\ ~objects[o].indexed /\ path[f] \in {o, 0}
                   /\ pass.refs[f] = "saving"
               => objects'[o].told
    PROVE  SentInv'
<1>1. /\ StoreTyped /\ f \in Files /\ pass.at = "taken" /\ pass.refs[f] \in {"pending", "downloading", "saving"}
    BY PassFields DEF SentInv, SentTyped, PassKnown
<1>2. /\ ref' \in [Files -> RefStates] /\ \A g \in Files : g # f => ref'[g] = ref[g]
      /\ ref'[f] \in {"success", s} /\ (ref[f] # "success" => ref'[f] = s)
    BY <1>1, NotedIs
<1>3. SentTyped'
    BY <1>2 DEF SentInv, SentTyped, StoreTyped, WorkTyped, NewsTyped, AlbumTyped
<1>4. PathsKnown'
    BY <1>1, ObjectsAre DEF SentInv, PathsKnown
<1>5. \A g : /\ (InQueue(g)' <=> InQueue(g)) /\ (Kept(g)' <=> Kept(g)) /\ (Worked(g)' <=> Worked(g))
             /\ (Recovered(g)' => Recovered(g) \/ g = f)
    BY DEF InQueue, Kept, Worked, Recovered
<1>6. \A i \in DOMAIN tasks : TaskSound(tasks[i]) /\ (tasks[i].obj # 0 => tasks[i].obj \in DOMAIN objects)
    BY <1>1, ObjectsAre DEF SentInv, TasksSound, TaskSound
<1>7. TasksSound'
    BY <1>6, <1>1 DEF SentInv, PassKnown, Worked, TaskSound, TasksSound
<1>8. \A o : Sent!Busy(o)' <=> Sent!Busy(o)
    BY DEF Sent!Busy
<1>9. Sent!IndexedIsThere'
    BY <1>8 DEF SentInv, Sent!IndexedIsThere
<1>10. GroupKnown' /\ BatchKnown'
    BY <1>1, <1>2, <1>5 DEF SentInv, BatchKnown, GroupKnown
<1>11. PassKnown'
    BY <1>1, <1>2, <1>5 DEF SentInv, PassKnown
<1>12. ASSUME NEW g \in Files \ twice', g # f
       PROVE  Once(g)'
    BY <1>12, <1>2, <1>5, <1>1, FileStays DEF SentInv, AllOnce, SameHands, SameTasks, Once, OneTask,
        SameObjects
<1>13. ASSUME f \notin twice'
       PROVE  Once(f)'
    <2>1. Once(f) /\ f \in Files \ twice /\ Recovered(f)
        BY <1>1, <1>13 DEF SentInv, AllOnce, Recovered
    <2>2. /\ ~Kept(f) /\ ~Worked(f) /\ f \notin failures /\ f \notin pass.again /\ ref[f] = pass.refs[f]
          /\ (InQueue(f) => hand[f].at \in {"idle", "target"})
        BY <2>1, HeldIs
    <2>3. ref'[f] = s
        BY <1>1, <1>2, <2>2
    <2>4. OneHand(f)'
        BY <1>5, <2>2, <2>3 DEF OneHand
    <2>5. OneTask(f)'
        BY <2>2 DEF OneTask, Worked
    <2>6. OneIndex(f)'
        BY <1>1, <2>1, <2>2 DEF Once, OneIndex
    <2>7. StraysOf(f)'
        <3>1. ASSUME NEW o \in DOMAIN objects, objects'[o].file = f, objects'[o].there, ~objects'[o].indexed,
                     ~objects'[o].told
              PROVE  FALSE
            <4>1. ~Sent!Busy(o)
                BY <1>1, ObjectsAre, <2>2, <3>1, BusyOf DEF SentInv, Worked
            <4>2. CASE objects[o].there
                BY <2>1, <3>1, <4>1, <4>2, <1>13, <2>2 DEF Once, StraysOf
            <4>3. CASE ~objects[o].there
                <5> QED BY <3>1, <4>3
            <4> QED BY <4>2, <4>3
        <3> QED BY <3>1 DEF StraysOf
    <2> QED BY <2>4, <2>5, <2>6, <2>7 DEF Once
<1>14. AllOnce'
    BY <1>12, <1>13 DEF AllOnce
<1> QED BY <1>3, <1>4, <1>7, <1>9, <1>10, <1>11, <1>14 DEF SentInv

LEMMA SameObjectsEdit ==
    ASSUME StoreTyped
    PROVE  objects \in Seq(ObjectRecord) /\ \A o \in DOMAIN objects : objects[o] \in ObjectRecord
BY ObjectsAre DEF StoreTyped

(* What the pass does with one of its files.                               *)
LEMMA PassOne ==
    ASSUME SentInv, NEW f \in pass.todo, NEW x, NEW F \in SUBSET Files
    PROVE  /\ LET q == [pass EXCEPT !.todo = F, !.done = x]
              IN PassShape(q) /\ q.at = pass.at /\ q.refs = pass.refs /\ q.todo = F /\ q.again = pass.again
           /\ LET q == [pass EXCEPT !.todo = F, !.failed = x]
              IN PassShape(q) /\ q.at = pass.at /\ q.refs = pass.refs /\ q.todo = F /\ q.again = pass.again
<1>1. PICK p : p = [pass EXCEPT !.todo = F]
    OBVIOUS
<1>2. PassShape(p) /\ p.at = pass.at /\ p.refs = pass.refs /\ p.todo = F /\ p.again = pass.again
    BY PassFields, PassTodo, <1>1
<1>3. LET q == [p EXCEPT !.done = x]
      IN PassShape(q) /\ q.at = p.at /\ q.refs = p.refs /\ q.todo = p.todo /\ q.again = p.again
    BY <1>2, PassEdits
<1>4. LET q == [p EXCEPT !.failed = x]
      IN PassShape(q) /\ q.at = p.at /\ q.refs = p.refs /\ q.todo = p.todo /\ q.again = p.again
    BY <1>2, PassEdits
<1>5. /\ [pass EXCEPT !.todo = F, !.done = x] = [p EXCEPT !.done = x]
      /\ [pass EXCEPT !.todo = F, !.failed = x] = [p EXCEPT !.failed = x]
    BY <1>1
<1> QED BY <1>2, <1>3, <1>4, <1>5

LEMMA PassMoves ==
    ASSUME SentInv, NEW F \in SUBSET Files, NEW G \in SUBSET Files
    PROVE  LET q == [pass EXCEPT !.todo = F, !.again = G]
           IN PassShape(q) /\ q.at = pass.at /\ q.refs = pass.refs /\ q.todo = F /\ q.again = G
<1>1. PICK p : p = [pass EXCEPT !.todo = F]
    OBVIOUS
<1>2. PassShape(p) /\ p.at = pass.at /\ p.refs = pass.refs /\ p.todo = F /\ p.again = pass.again
    BY PassFields, PassTodo, <1>1
<1>3. LET q == [p EXCEPT !.again = G]
      IN PassShape(q) /\ q.at = p.at /\ q.refs = p.refs /\ q.todo = p.todo /\ q.again = G
    BY <1>2, PassAgain
<1>4. [pass EXCEPT !.todo = F, !.again = G] = [p EXCEPT !.again = G]
    BY <1>1
<1> QED BY <1>2, <1>3, <1>4

LEMMA ResumedKeeps ==
    ASSUME SentInv, NEW f \in Files, Sent!Resumed(f)
    PROVE  SentInv'
<1>1. /\ f \in pass.todo
      /\ UNCHANGED <<transfer, path, hand, queues, current, batch, group, tasks, failures, news, twice, torn>>
    BY DEF Sent!Resumed, Sent!album, Sent!queue, Sent!ghosts
<1>2. /\ StoreTyped /\ objects \in Seq(ObjectRecord) /\ PathsKnown
      /\ pass.todo \in SUBSET Files /\ pass.again \in SUBSET Files
    BY PassFields, SameObjectsEdit DEF SentInv, SentTyped
<1>3. PICK F, G : F = pass.todo \ {f} /\ G = pass.again \cup {f}
    OBVIOUS
<1>4. F \in SUBSET Files /\ G \in SUBSET Files
    BY <1>2, <1>3
<1>5. CASE pass.refs[f] = "saving" /\ Sent!Found(f)
    <2>1. PICK x : x = pass.done + 1
        OBVIOUS
    <2>2. /\ ref' = Sent!Noted(f, "success") /\ pass' = [pass EXCEPT !.todo = F, !.done = x] /\ objects' = objects
        BY <1>3, <1>5, <2>1 DEF Sent!Resumed, Sent!Note
    <2>3. PassShape(pass') /\ pass'.at = pass.at /\ pass'.refs = pass.refs /\ pass'.todo = F
          /\ pass'.again = pass.again
        BY <1>1, <1>4, PassOne, <2>2
    <2>4. f \in twice
        BY <1>5, <1>1, HeldIs DEF Sent!Found, SentInv, AllOnce, Once, OneIndex
    <2>5. "success" \in RefStates /\ "success" \notin {"none", "saving"} /\ PassTyped'
        BY <2>3 DEF RefStates, PassTyped
    <2> QED BY <1>1, <1>2, <1>3, <1>4, <2>2, <2>3, <2>4, <2>5, PassFile
<1>6. CASE ~(pass.refs[f] = "saving" /\ Sent!Found(f))
    <2>1. /\ Sent!Unsure(f) => path[f] # 0
          /\ objects' = IF Sent!Unsure(f) THEN [objects EXCEPT ![path[f]].there = FALSE] ELSE objects
          /\ ref' = Sent!Noted(f, "pending") /\ pass' = [pass EXCEPT !.todo = F, !.again = G]
        BY <1>3, <1>6 DEF Sent!Resumed, Sent!Note
    <2>2. PassShape(pass') /\ pass'.at = pass.at /\ pass'.refs = pass.refs /\ pass'.todo = F /\ pass'.again = G
        <3>1. LET q == [pass EXCEPT !.todo = F, !.again = G]
              IN PassShape(q) /\ q.at = pass.at /\ q.refs = pass.refs /\ q.todo = F /\ q.again = G
            BY <1>4, PassMoves
        <3> QED BY <2>1, <3>1
    <2>3. "pending" \in RefStates /\ "pending" \notin {"none", "saving"} /\ PassTyped'
        BY <2>2 DEF RefStates, PassTyped
    <2>4. CASE pass.refs[f] = "saving"
        <3>1. Sent!Unsure(f) /\ \A o \in DOMAIN objects : objects[o].file = f => ~objects[o].indexed
            BY <1>6, <2>4 DEF Sent!Unsure, Sent!Found
        <3>2. PICK n : n = path[f] /\ n # 0 /\ n \in DOMAIN objects /\ objects[n].file = f
            BY <1>2, <2>1, <3>1, ObjectsAre DEF PathsKnown
        <3>3. objects' = [objects EXCEPT ![n].there = FALSE]
            BY <2>1, <3>1, <3>2
        <3>4. /\ ObjectTurns(n, objects') /\ ~objects'[n].there /\ objects'[n].indexed = objects[n].indexed
            BY <1>2, <3>2, <3>3, ThereEdit
        <3>5. /\ objects' \in Seq(ObjectRecord) /\ DOMAIN objects' = DOMAIN objects /\ Len(objects') = Len(objects)
              /\ \A o \in DOMAIN objects :
                  /\ objects'[o].file = objects[o].file /\ objects'[o].indexed = objects[o].indexed
                  /\ objects[o].told => objects'[o].told
                  /\ objects[o].file # f => objects'[o].there = objects[o].there
            BY <3>2, <3>4 DEF ObjectTurns
        <3>6. \A o \in DOMAIN objects : objects'[o].there = objects[o].there \/ (~objects'[o].there /\ ~objects[o].indexed)
            BY <3>1, <3>2, <3>4 DEF ObjectTurns
        <3>7. \A o \in DOMAIN objects : ~(objects'[o].there /\ path[f] \in {o, 0})
            BY <3>2, <3>4
        <3>8. /\ ref' = Sent!Noted(f, "pending") /\ pass'.todo = pass.todo \ {f}
              /\ pass'.again = pass.again \cup {f}
            BY <1>3, <2>1, <2>2
        <3> QED BY <1>1, <2>2, <2>3, <2>4, <3>5, <3>6, <3>7, <3>8, PassFile
    <2>5. CASE pass.refs[f] # "saving"
        BY <2>1, <2>5, <1>1, <1>2, <1>3, <2>2, <2>3, PassFile DEF Sent!Unsure
    <2> QED BY <2>4, <2>5
<1> QED BY <1>5, <1>6

LEMMA NotResumedKeeps ==
    ASSUME SentInv, NEW f \in Files, Sent!NotResumed(f)
    PROVE  SentInv'
<1>1. PICK F, x : F = pass.todo \ {f} /\ x = pass.failed + 1
    OBVIOUS
<1>2. /\ f \in pass.todo /\ ref' = Sent!Noted(f, "failed") /\ pass' = [pass EXCEPT !.todo = F, !.failed = x]
      /\ objects' = [o \in DOMAIN objects |->
                       IF objects[o].file = f THEN [objects[o] EXCEPT !.told = TRUE] ELSE objects[o]]
      /\ UNCHANGED <<transfer, path, hand, queues, current, batch, group, tasks, failures, news, twice, torn>>
    BY <1>1 DEF Sent!NotResumed, Sent!Note, Sent!album, Sent!queue, Sent!ghosts
<1>3. StoreTyped /\ F \in SUBSET Files
    BY <1>1, PassFields DEF SentInv, SentTyped
<1>4. PassShape(pass') /\ pass'.at = pass.at /\ pass'.refs = pass.refs /\ pass'.todo = F
      /\ pass'.again = pass.again
    BY <1>2, <1>3, PassOne
<1>5. "failed" \in RefStates /\ "failed" \notin {"none", "saving"} /\ PassTyped'
    BY <1>4 DEF RefStates, PassTyped
<1>6. Len(objects) \in Nat /\ DOMAIN objects = 1..Len(objects)
    BY <1>3, ObjectsAre
<1>7. ASSUME NEW o \in DOMAIN objects
      PROVE  /\ objects'[o] \in ObjectRecord /\ objects'[o].file = objects[o].file
             /\ objects'[o].indexed = objects[o].indexed /\ objects'[o].there = objects[o].there
             /\ objects[o].told => objects'[o].told
             /\ objects[o].file = f => objects'[o].told
    BY <1>3, ObjectsAre, <1>2 DEF ObjectRecord
<1>8. objects' \in Seq(ObjectRecord) /\ DOMAIN objects' = DOMAIN objects /\ Len(objects') = Len(objects)
    BY <1>2, <1>6, <1>7, SeqOf
<1> QED BY <1>1, <1>2, <1>4, <1>5, <1>7, <1>8, PassFile

-----------------------------------------------------------------------------
(* The program stops.                                                      *)

LEMMA CrashKeeps ==
    ASSUME SentInv, Sent!Crash
    PROVE  SentInv'
<1>1. /\ torn' = torn \cup {tasks[i].obj : i \in {j \in DOMAIN tasks : tasks[j].at = "undo"}}
      /\ hand' = [f \in Files |-> Sent!Idle]
      /\ queues' = <<>> /\ current' = 0 /\ batch' = Sent!NoBatch
      /\ group' = Sent!NoGroup /\ tasks' = <<>> /\ failures' = {} /\ news' = <<>> /\ pass' = Sent!NoPass
      /\ UNCHANGED <<transfer, ref, path, objects, twice>>
    BY DEF Sent!Crash, Sent!store
<1>2. /\ PassShape(pass') /\ pass'.at = "none" /\ pass'.todo = {} /\ pass'.again = {}
      /\ \A f \in Files : pass'.refs[f] = "none"
    BY <1>1, NoPassIs
<1>3. SentTyped'
    BY <1>1, IdleIs, <1>2 DEF Sent!NoGroup, GroupShape, Sent!NoBatch, BatchRecord, SentInv,
        SentTyped, StoreTyped, WorkTyped, PassTyped, NewsTyped, AlbumTyped
<1>4. PathsKnown'
    BY <1>1 DEF SentInv, PathsKnown
<1>5. TasksSound'
    BY <1>1 DEF TasksSound
<1>6. StoreTyped /\ TasksSound /\ \A o \in DOMAIN objects : o # 0
    BY ObjectsAre DEF SentInv, SentTyped
<1>7. Sent!IndexedIsThere'
    BY <1>6, TaskIs, <1>1 DEF Sent!Busy, TaskSound, SentStages, SentInv, Sent!IndexedIsThere
<1>8. \A g : ~InQueue(g)' /\ ~Worked(g)' /\ ~Recovered(g)' /\ (g \in Files => ~Kept(g)')
    BY <1>1, <1>2, IdleIs DEF InQueue, Worked, Recovered, Kept
<1>9. GroupKnown' /\ BatchKnown' /\ PassKnown'
    BY <1>1, IdleIs, <1>2, <1>8 DEF Sent!NoBatch, GroupKnown, BatchKnown, PassKnown
<1>10. ASSUME NEW f \in Files \ twice'
       PROVE  Once(f)'
    BY <1>1, <1>10, <1>8, <1>6, BusyOf, TaskIs DEF SentInv, AllOnce, OneHand, Recovered, OneTask,
        Worked, Once, OneIndex, TaskSound, RefFits, SentStages, StraysOf
<1> QED BY <1>3, <1>4, <1>5, <1>7, <1>9, <1>10 DEF SentInv, AllOnce

LEMMA SentStarts == Sent!Init => SentInv
    BY NoPassIs, IdleIs DEF Sent!Init, Sent!NoGroup, GroupShape, Sent!NoBatch, BatchRecord,
        RowStates, RefStates, SentTyped, StoreTyped, WorkTyped, PassTyped, NewsTyped, AlbumTyped,
        PathsKnown, TasksSound, Sent!IndexedIsThere, InQueue, Worked, Recovered, Kept, GroupKnown,
        BatchKnown, PassKnown, Once, OneHand, OneTask, OneIndex, StraysOf, SentInv, AllOnce

LEMMA SentStep ==
    ASSUME FinitelySent, SentInv, [Sent!Next]_(Sent!vars)
    PROVE  SentInv'
<1>1. CASE Sent!Persist
    BY <1>1, PersistKeeps
<1>2. CASE Sent!Message
    BY <1>2, ArriveKeeps, RememberKeeps, NoRoomKeeps, JoinKeeps, AdmitKeeps, EnsureKeeps,
        EnqueueKeeps DEF Sent!Message
<1>3. CASE Sent!AlbumStep
    BY <1>3, FireKeeps, AlbumAdmittedKeeps, AlbumEndsKeep, AlbumEnsuredKeeps, AlbumQueuedKeeps DEF Sent!AlbumStep
<1>4. CASE Sent!Work
    BY <1>4, StartKeeps, WriteKeeps, DownloadFailsKeeps, StoreKeeps, FailuresKeep, IndexKeeps,
        IndexLostKeeps, CheckKeeps, UndoKeeps, UndoFailsKeeps, FinishKeeps, FinishFailsKeeps DEF
        Sent!Work
<1>5. CASE Sent!Controls
    BY <1>5, PauseKeeps, CancelKeeps, RetryKeeps DEF Sent!Controls
<1>6. CASE Sent!Pass
    BY <1>6, PassReadsKeeps, PassTakesKeeps, PassFailsKeeps, PassRestoresKeeps, ResumedKeeps, NotResumedKeeps
       DEF Sent!Pass
<1>7. CASE Sent!Crash
    BY <1>7, CrashKeeps
<1>8. CASE UNCHANGED Sent!vars
    BY <1>8, KnownStays, QuietHands, QuietStep DEF Sent!vars, Sent!store, Sent!album, Sent!queue,
        Sent!ghosts, SentInv, SentTyped, StoreTyped, WorkTyped, PassTyped, NewsTyped, AlbumTyped,
        InQueue, Kept, BatchKnown, SameHands
<1> QED BY <1>1, <1>2, <1>3, <1>4, <1>5, <1>6, <1>7, <1>8 DEF Sent!Next

LEMMA SentTells ==
    ASSUME SentInv
    PROVE  Sent!TypeOK /\ Sent!IndexedIsThere /\ Sent!IndexedOnce /\ Sent!StraysAreKnown
    BY ObjectsAre, ObjectFields, AtMostOne, SentCounts DEF SentInv, SentTyped, StoreTyped,
        PathsKnown, RowStates, RefStates, Sent!Final, Sent!Settled, AlbumTyped, WorkTyped,
        BatchRecord, Sent!TypeOK, AllOnce, Once, OneIndex, Sent!IndexedOnce, StraysOf,
        Sent!StraysAreKnown

(* The files that are sent to the bot: what is indexed is in the storage,  *)
(* a file is indexed once and what is not indexed is known, whatever fails *)
(* and whenever the program stops.                                         *)
THEOREM TransfersTheorem ==
    ASSUME FinitelySent
    PROVE  Sent!Spec => [](Sent!TypeOK /\ Sent!IndexedIsThere /\ Sent!IndexedOnce /\ Sent!StraysAreKnown)
<1>1. Sent!Init => SentInv
    BY SentStarts
<1>2. SentInv /\ [Sent!Next]_(Sent!vars) => SentInv'
    BY SentStep
<1>3. SentInv => Sent!TypeOK /\ Sent!IndexedIsThere /\ Sent!IndexedOnce /\ Sent!StraysAreKnown
    BY SentTells
<1> QED BY <1>1, <1>2, <1>3, PTL DEF Sent!Spec
=============================================================================

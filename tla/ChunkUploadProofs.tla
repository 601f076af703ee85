------------------------- MODULE ChunkUploadProofs -------------------------
(***************************************************************************)
(* Proofs about ChunkUpload.  Three things change the row of an upload at  *)
(* will: its requests, the maintenance timer and the user.  The claim of a *)
(* completion is a token in the row, so what a request may do to the row   *)
(* follows from the row alone.  What lies on the storage target does not:  *)
(* a request and several maintenance runs each act on what they have read  *)
(* earlier.  The invariant says why no copy of that is ever too hopeful:   *)
(* "deleted" is written only of what is gone and cannot come back, because *)
(* a request stores once and inserts once, and every note of a path or of  *)
(* a file id is younger than that.                                         *)
(***************************************************************************)
EXTENDS ChunkUpload, FiniteSetTheorems, TLAPS

BeforeSave == {"idle", "claimed", "journaled"}

BeforeInsert == {"idle", "claimed", "journaled", "saved", "marked"}

(* The request has stored its object, or never will.                       *)
PastSave(c) == pc[c] \notin BeforeSave

(* The request has inserted its file row, or never will.                   *)
PastInsert(c) == pc[c] \notin BeforeInsert

(* A reading of a journal row, or the row itself: nothing that it calls    *)
(* deleted is there or can come back, and what it can name was written.    *)
Honest(r, c) ==
    /\ r.object = "deleted" => c \notin object /\ PastSave(c)
    /\ r.index = "deleted" => c \notin row /\ PastInsert(c)
    /\ r.path => PastSave(c)
    /\ r.file => PastInsert(c)

(* The same after a step.                                                  *)
HonestThen(r, c) ==
    /\ r.object = "deleted" => c \notin object' /\ pc'[c] \notin BeforeSave
    /\ r.index = "deleted" => c \notin row' /\ pc'[c] \notin BeforeInsert
    /\ r.path => pc'[c] \notin BeforeSave
    /\ r.file => pc'[c] \notin BeforeInsert

CommittedThen(c) == status'[UploadOf[c]] = "completed" /\ file'[UploadOf[c]] = c

(* A step stores no object and no row a second time, and takes no          *)
(* committed upload back.                                                  *)
Forward ==
    \A c \in Completions :
        /\ PastSave(c) => PastSave(c)' /\ (c \in object' => c \in object)
        /\ PastInsert(c) => PastInsert(c)' /\ (c \in row' => c \in row)
        /\ Committed(c) => Committed(c)'

(* A pending row is resolved when its upload is committed, or when nothing *)
(* of it is left and nothing can come.                                     *)
ResolvedRightly ==
    \A c \in Completions :
        Pending(c) => \/ Pending(c)'
                      \/ Committed(c)
                      \/ Committed(c)'
                      \/ PastInsert(c) /\ c \notin object' \cup row'

(* What a request has done so far.                                         *)
RequestOf(c) ==
    /\ ~PastSave(c) => c \notin object
    /\ pc[c] = "uncertain" \/ ~PastInsert(c) => c \notin row
    /\ pc[c] \in {"journaled", "saved", "marked"} => Pending(c)
    /\ pc[c] \in {"inserted", "ready"} => evidence[c].index = "present"
    /\ pc[c] \in {"undoObject", "undoIndex"} /\ c \in row => evidence[c].index = "present"
    /\ pc[c] = "report" /\ evidence[c].index = "deleted" => c \notin row
    /\ evidence[c].object = "deleted" => c \notin object /\ PastSave(c)
    /\ Committed(c) => pc[c] = "done"

RequestState == \A c \in Completions : RequestOf(c)

JournalHonest == \A c \in Completions : Honest(journal[c], c)

(* A maintenance run acts on a reading that may be old, but stays honest.  *)
ScansHonest ==
    \A m \in Scans :
        scan[m] # Idle => /\ Honest(scan[m], scan[m].row)
                          /\ scan[m].completed => Committed(scan[m].row)

(* A session in completion has all its chunks.                             *)
ChunksWhole == \A u \in Uploads : status[u] = "completing" => recorded[u] = Chunks

SessionInv == TypeOK /\ ChunksWhole /\ ChunksKept /\ BudgetKept

StoreInv == NothingLeftBehind /\ RequestState /\ JournalHonest /\ ScansHonest

IInv == SessionInv /\ StoreInv
-----------------------------------------------------------------------------
(* Types.                                                                  *)
LEMMA RowTypes ==
    /\ NoJournal \in JournalRow
    /\ Resolved \in JournalRow
    /\ [NoJournal EXCEPT !.status = "pending"] \in JournalRow
<1>1. NoJournal \in JournalRow
  BY DEF NoJournal, JournalRow, States
<1>2. \A r \in JournalRow : [r EXCEPT !.status = "resolved"] \in JournalRow
  BY DEF JournalRow
<1>3. \A r \in JournalRow : [r EXCEPT !.status = "pending"] \in JournalRow
  BY DEF JournalRow
<1>4. QED
  BY <1>1, <1>2, <1>3 DEF Resolved

(* What the requests and runs write into a row is a row.                   *)
LEMMA ChangedRowTypes ==
    ASSUME NEW r \in JournalRow
    PROVE  /\ \A o, i \in States : Compensated(r, o, i) \in JournalRow
           /\ Released(r) \in JournalRow
           /\ [Released(r) EXCEPT !.operator = TRUE] \in JournalRow
<1>1. \A o, i \in States : [r EXCEPT !.object = o, !.index = i] \in JournalRow
  BY DEF JournalRow
<1>2. \A o, i \in States : Compensated(r, o, i) \in JournalRow
  BY <1>1, RowTypes DEF Compensated
<1>3. Released(r) \in JournalRow
  BY DEF Released, JournalRow
<1>4. \A s \in JournalRow : [s EXCEPT !.operator = TRUE] \in JournalRow
  BY DEF JournalRow
<1>5. QED
  BY <1>2, <1>3, <1>4

(* The notes of a request keep the type of the journal.                    *)
LEMMA NotedTypes ==
    ASSUME NEW j \in [Completions -> JournalRow], NEW c \in Completions
    PROVE  /\ [j EXCEPT ![c].path = TRUE, ![c].object = "present"]
                \in [Completions -> JournalRow]
           /\ [j EXCEPT ![c].file = TRUE, ![c].index = "present"]
                \in [Completions -> JournalRow]
<1> DEFINE p == [j[c] EXCEPT !.path = TRUE, !.object = "present"]
           f == [j[c] EXCEPT !.file = TRUE, !.index = "present"]
<1>0. p \in JournalRow /\ f \in JournalRow
  BY DEF JournalRow, States
<1>1. [j EXCEPT ![c].path = TRUE, ![c].object = "present"] \in [Completions -> JournalRow]
  <2>1. [j EXCEPT ![c].path = TRUE, ![c].object = "present"] = [j EXCEPT ![c] = p]
    OBVIOUS
  <2> QED BY <1>0, <2>1
<1>2. [j EXCEPT ![c].file = TRUE, ![c].index = "present"] \in [Completions -> JournalRow]
  <2>1. [j EXCEPT ![c].file = TRUE, ![c].index = "present"] = [j EXCEPT ![c] = f]
    OBVIOUS
  <2> QED BY <1>0, <2>1
<1>3. QED
  BY <1>1, <1>2

(* The initial state has the types.                                        *)
LEMMA TypeInit == Init => TypeOK
  BY ChunkAssumption, RowTypes
  DEF Init, TypeOK, Unknown, States, Where, Evidence

(* What a compensating request has found keeps its type.                   *)
LEMMA EvidenceStep ==
    ASSUME evidence \in [Completions -> Evidence], [Next]_vars
    PROVE  evidence' \in [Completions -> Evidence]
<1> DEFINE Goal == evidence' \in [Completions -> Evidence]
<1>1. ASSUME NEW c \in Completions, InsertRow(c) PROVE Goal
  BY <1>1 DEF InsertRow, Evidence, States, Unknown
<1>2. ASSUME NEW c \in Completions, NEW answered \in BOOLEAN, UndoObject(c, answered)
      PROVE  Goal
  BY <1>2 DEF UndoObject, Evidence, States, Unknown
<1>3. ASSUME NEW c \in Completions, NEW answered \in BOOLEAN, UndoIndex(c, answered)
      PROVE  Goal
  BY <1>3 DEF UndoIndex, Evidence, States, Unknown
<1>4. ASSUME NEW c \in Completions, Fail(c) PROVE Goal
  BY <1>4 DEF Fail, Evidence, States, Unknown
<1>5. ASSUME NEW c \in Completions, Claim(c) \/ GiveUp(c) \/ CompleteAsDuplicate(c) \/
             OpenJournal(c) \/ Save(c) \/ MarkObject(c) \/ MarkIndex(c) \/ Commit(c) \/
             CommitRefused(c) \/ Report(c)
      PROVE  UNCHANGED evidence
  BY <1>5 DEF Claim, GiveUp, CompleteAsDuplicate, OpenJournal, Save, MarkObject,
     MarkIndex, Commit, CommitRefused, Report, sessionVars, chunkVars, requestVars,
     storeVars
<1>6. ASSUME NEW m \in Scans, NEW c \in Completions, ClaimRow(m, c)
      PROVE  UNCHANGED evidence
  BY <1>6 DEF ClaimRow, sessionVars, chunkVars, requestVars, storeVars
<1>7. ASSUME NEW m \in Scans, Judge(m) \/ Recheck(m) \/ ScanReport(m) \/ ScanFails(m)
      PROVE  UNCHANGED evidence
  BY <1>7 DEF Judge, Recheck, ScanReport, ScanFails, sessionVars, chunkVars,
     requestVars, storeVars
<1>8. ASSUME NEW m \in Scans, NEW answered \in BOOLEAN, ScanObject(m, answered) \/
             ScanIndex(m, answered)
      PROVE  UNCHANGED evidence
  BY <1>8 DEF ScanObject, ScanIndex, sessionVars, chunkVars, requestVars, storeVars
<1>9. ASSUME NEW u \in Uploads, DeleteExpired(u) \/ RecoverExpired(u) \/ Reserve(u) \/
             Cancel(u) \/ Retry(u) \/ SessionExpires(u)
      PROVE  UNCHANGED evidence
  BY <1>9 DEF DeleteExpired, RecoverExpired, Reserve, Cancel, Retry, SessionExpires,
     sessionVars, chunkVars, requestVars, storeVars
<1>10. ASSUME NEW u \in Uploads, NEW i \in Chunks, BeginChunk(u, i)
       PROVE  UNCHANGED evidence
  BY <1>10 DEF BeginChunk, sessionVars, chunkVars, requestVars, storeVars
<1>11. ASSUME NEW u \in Uploads, NEW i \in Chunks, NEW whole \in BOOLEAN,
              EndChunk(u, i, whole)
       PROVE  UNCHANGED evidence
  BY <1>11 DEF EndChunk, sessionVars, chunkVars, requestVars, storeVars
<1>12. CASE Crash
  BY <1>12 DEF Crash, Unknown, Evidence, States
<1>13. CASE UNCHANGED vars
  BY <1>13 DEF vars, sessionVars, chunkVars, requestVars, storeVars
<1>14. QED
  BY <1>1, <1>2, <1>3, <1>4, <1>5, <1>6, <1>7, <1>8, <1>9, <1>10, <1>11,
     <1>12, <1>13 DEF Next, Completion, Advance, Maintenance, Resolve, Client, Time

(* Every step keeps the type of the journal.                               *)
LEMMA JournalStep ==
    ASSUME journal \in [Completions -> JournalRow], evidence \in [Completions -> Evidence],
           scan \in [Scans -> {Idle} \cup Reading], [Next]_vars
    PROVE  journal' \in [Completions -> JournalRow]
<1> DEFINE Goal == journal' \in [Completions -> JournalRow]
<1>1. ASSUME NEW c \in Completions, OpenJournal(c) PROVE Goal
  BY <1>1, RowTypes DEF OpenJournal
<1>2. ASSUME NEW c \in Completions, MarkObject(c) PROVE Goal
  <2>1. [journal EXCEPT ![c].path = TRUE, ![c].object = "present"] \in [Completions -> JournalRow]
    BY NotedTypes
  <2>2. QED
    BY <1>2, <2>1 DEF MarkObject
<1>3. ASSUME NEW c \in Completions, MarkIndex(c) PROVE Goal
  <2>1. [journal EXCEPT ![c].file = TRUE, ![c].index = "present"] \in [Completions -> JournalRow]
    BY NotedTypes
  <2>2. QED
    BY <1>3, <2>1 DEF MarkIndex
<1>4. ASSUME NEW c \in Completions, Commit(c) PROVE Goal
  BY <1>4, RowTypes DEF Commit
<1>5. ASSUME NEW c \in Completions, Report(c) PROVE Goal
  <2>1. evidence[c].object \in States /\ evidence[c].index \in States
    BY DEF Evidence
  <2>2. "unknown" \in States /\ "deleted" \in States
    BY DEF States
  <2>3. Compensated(journal[c], "unknown", "deleted") \in JournalRow
    BY <2>2, ChangedRowTypes
  <2>4. Compensated(journal[c], evidence[c].object, evidence[c].index) \in JournalRow
    BY <2>1, ChangedRowTypes
  <2>5. QED
    BY <1>5, <2>3, <2>4 DEF Report
<1>6. ASSUME NEW m \in Scans, NEW c \in Completions, ClaimRow(m, c) PROVE Goal
  BY <1>6 DEF ClaimRow, JournalRow
<1>7. ASSUME NEW m \in Scans, Judge(m) PROVE Goal
  <2>1. scan[m].row \in Completions
    BY <1>7 DEF Judge, Idle, Reading
  <2>2. journal[scan[m].row] \in JournalRow
    BY <2>1
  <2>3. QED
    BY <1>7, <2>1, <2>2, RowTypes, ChangedRowTypes DEF Judge, UpdateOwned, KeepLease
<1>8. ASSUME NEW m \in Scans, Recheck(m) PROVE Goal
  BY <1>8 DEF Recheck, KeepLease
<1>9. ASSUME NEW m \in Scans, ScanReport(m) PROVE Goal
  <2>1. scan[m] \in Reading
    BY <1>9 DEF ScanReport, Idle
  <2>2. scan[m].row \in Completions /\ scan[m].object \in States
          /\ scan[m].index \in States
    BY <2>1 DEF Reading
  <2>3. Compensated(journal[scan[m].row], scan[m].object, scan[m].index) \in JournalRow
    BY <2>2, ChangedRowTypes
  <2>4. QED
    BY <1>9, <2>2, <2>3, ChangedRowTypes DEF ScanReport, UpdateOwned
<1>10. ASSUME NEW u \in Uploads, DeleteExpired(u) PROVE Goal
  BY <1>10, RowTypes DEF DeleteExpired
<1>11. ASSUME NEW c \in Completions, Claim(c) \/ GiveUp(c) \/ CompleteAsDuplicate(c) \/
              Save(c) \/ InsertRow(c) \/ CommitRefused(c) \/ Fail(c)
       PROVE  UNCHANGED journal
  BY <1>11 DEF Claim, GiveUp, CompleteAsDuplicate, Save, InsertRow, CommitRefused,
     Fail, sessionVars, chunkVars, requestVars, storeVars
<1>12. ASSUME NEW c \in Completions, NEW answered \in BOOLEAN, UndoObject(c, answered)
              \/ UndoIndex(c, answered)
       PROVE  UNCHANGED journal
  BY <1>12 DEF UndoObject, UndoIndex, sessionVars, chunkVars, requestVars, storeVars
<1>13. ASSUME NEW m \in Scans, NEW answered \in BOOLEAN, ScanObject(m, answered) \/
              ScanIndex(m, answered)
       PROVE  UNCHANGED journal
  BY <1>13 DEF ScanObject, ScanIndex, sessionVars, chunkVars, requestVars, storeVars
<1>14. ASSUME NEW m \in Scans, ScanFails(m) PROVE UNCHANGED journal
  BY <1>14 DEF ScanFails, sessionVars, chunkVars, requestVars, storeVars
<1>15. ASSUME NEW u \in Uploads, RecoverExpired(u) \/ Reserve(u) \/ Cancel(u) \/
              Retry(u) \/ SessionExpires(u)
       PROVE  UNCHANGED journal
  BY <1>15 DEF RecoverExpired, Reserve, Cancel, Retry, SessionExpires, sessionVars,
     chunkVars, requestVars, storeVars
<1>16. ASSUME NEW u \in Uploads, NEW i \in Chunks, BeginChunk(u, i)
       PROVE  UNCHANGED journal
  BY <1>16 DEF BeginChunk, sessionVars, chunkVars, requestVars, storeVars
<1>17. ASSUME NEW u \in Uploads, NEW i \in Chunks, NEW whole \in BOOLEAN,
              EndChunk(u, i, whole)
       PROVE  UNCHANGED journal
  BY <1>17 DEF EndChunk, sessionVars, chunkVars, requestVars, storeVars
<1>18. CASE Crash
  BY <1>18 DEF Crash
<1>19. CASE UNCHANGED vars
  BY <1>19 DEF vars, sessionVars, chunkVars, requestVars, storeVars
<1>20. QED
  BY <1>1, <1>2, <1>3, <1>4, <1>5, <1>6, <1>7, <1>8, <1>9, <1>10, <1>11,
     <1>12, <1>13, <1>14, <1>15, <1>16, <1>17, <1>18, <1>19 DEF Next, Completion,
     Advance, Maintenance, Resolve, Client, Time

(* Every step keeps the type of the maintenance runs.                      *)
LEMMA ScanStep ==
    ASSUME scan \in [Scans -> {Idle} \cup Reading], journal \in [Completions -> JournalRow], [Next]_vars
    PROVE  scan' \in [Scans -> {Idle} \cup Reading]
<1> DEFINE Goal == scan' \in [Scans -> {Idle} \cup Reading]
<1>1. ASSUME NEW m \in Scans, NEW c \in Completions, ClaimRow(m, c) PROVE Goal
  BY <1>1 DEF ClaimRow, JournalRow, Reading
<1>2. ASSUME NEW m \in Scans, Judge(m) PROVE Goal
  BY <1>2 DEF Judge, Idle, Reading, ScanEnds, ScanTo, KeepLease
<1>3. ASSUME NEW m \in Scans, NEW answered \in BOOLEAN, ScanObject(m, answered)
      PROVE  Goal
  <2>1. scan[m] \in Reading
    BY <1>3 DEF ScanObject, Idle
  <2>2. \A r \in Reading : \A x \in States :
            [r EXCEPT !.at = "recheck", !.object = x] \in Reading
    BY DEF Reading
  <2>3. scan[m].object \in States /\ "deleted" \in States /\ "unknown" \in States
    BY <2>1 DEF Reading, States
  <2>4. QED
    BY <1>3, <2>1, <2>2, <2>3 DEF ScanObject
<1>4. ASSUME NEW m \in Scans, Recheck(m) PROVE Goal
  BY <1>4 DEF Recheck, Idle, Reading, ScanEnds, ScanTo, KeepLease
<1>5. ASSUME NEW m \in Scans, NEW answered \in BOOLEAN, ScanIndex(m, answered)
      PROVE  Goal
  <2>1. scan[m] \in Reading
    BY <1>5 DEF ScanIndex, Idle
  <2>2. \A r \in Reading : \A x \in States :
            [r EXCEPT !.at = "report", !.index = x] \in Reading
    BY DEF Reading
  <2>3. scan[m].index \in States /\ "deleted" \in States /\ "unknown" \in States
    BY <2>1 DEF Reading, States
  <2>4. QED
    BY <1>5, <2>1, <2>2, <2>3 DEF ScanIndex
<1>6. ASSUME NEW m \in Scans, ScanReport(m) PROVE Goal
  BY <1>6 DEF ScanReport, ScanEnds
<1>7. ASSUME NEW m \in Scans, ScanFails(m) PROVE Goal
  BY <1>7 DEF ScanFails, ScanEnds
<1>8. ASSUME NEW c \in Completions, Claim(c) \/ GiveUp(c) \/ CompleteAsDuplicate(c) \/
             OpenJournal(c) \/ Save(c) \/ MarkObject(c) \/ InsertRow(c) \/ MarkIndex(c)
             \/ Commit(c) \/ CommitRefused(c) \/ Report(c) \/ Fail(c)
      PROVE  UNCHANGED scan
  BY <1>8 DEF Claim, GiveUp, CompleteAsDuplicate, OpenJournal, Save, MarkObject,
     InsertRow, MarkIndex, Commit, CommitRefused, Report, Fail, sessionVars, chunkVars,
     requestVars, storeVars
<1>9. ASSUME NEW c \in Completions, NEW answered \in BOOLEAN, UndoObject(c, answered)
             \/ UndoIndex(c, answered)
      PROVE  UNCHANGED scan
  BY <1>9 DEF UndoObject, UndoIndex, sessionVars, chunkVars, requestVars, storeVars
<1>10. ASSUME NEW u \in Uploads, DeleteExpired(u) \/ RecoverExpired(u) \/ Reserve(u) \/
              Cancel(u) \/ Retry(u) \/ SessionExpires(u)
       PROVE  UNCHANGED scan
  BY <1>10 DEF DeleteExpired, RecoverExpired, Reserve, Cancel, Retry, SessionExpires,
     sessionVars, chunkVars, requestVars, storeVars
<1>11. ASSUME NEW u \in Uploads, NEW i \in Chunks, BeginChunk(u, i) PROVE UNCHANGED scan
  BY <1>11 DEF BeginChunk, sessionVars, chunkVars, requestVars, storeVars
<1>12. ASSUME NEW u \in Uploads, NEW i \in Chunks, NEW whole \in BOOLEAN,
              EndChunk(u, i, whole)
       PROVE  UNCHANGED scan
  BY <1>12 DEF EndChunk, sessionVars, chunkVars, requestVars, storeVars
<1>13. CASE Crash
  BY <1>13 DEF Crash
<1>14. CASE UNCHANGED vars
  BY <1>14 DEF vars, sessionVars, chunkVars, requestVars, storeVars
<1>15. QED
  BY <1>1, <1>2, <1>3, <1>4, <1>5, <1>6, <1>7, <1>8, <1>9, <1>10, <1>11,
     <1>12, <1>13, <1>14 DEF Next, Completion, Advance, Maintenance, Resolve, Client,
     Time

(* Every step keeps the types.                                             *)
LEMMA TypeStep == TypeOK /\ [Next]_vars => TypeOK'
<1> SUFFICES ASSUME TypeOK, [Next]_vars PROVE TypeOK'
  OBVIOUS
<1>a. evidence' \in [Completions -> Evidence]
      /\ journal' \in [Completions -> JournalRow]
      /\ scan' \in [Scans -> {Idle} \cup Reading]
  BY EvidenceStep, JournalStep, ScanStep DEF TypeOK
<1> USE <1>a, ChunkAssumption
<1> USE DEF TypeOK, Goto, Fault, sessionVars, chunkVars, requestVars, storeVars, Where
<1>1. ASSUME NEW c \in Completions, Claim(c) PROVE TypeOK'
  BY <1>1 DEF Claim
<1>2. ASSUME NEW c \in Completions, GiveUp(c) PROVE TypeOK'
  BY <1>2 DEF GiveUp
<1>3. ASSUME NEW c \in Completions, CompleteAsDuplicate(c) PROVE TypeOK'
  BY <1>3 DEF CompleteAsDuplicate
<1>4. ASSUME NEW c \in Completions, OpenJournal(c) PROVE TypeOK'
  BY <1>4 DEF OpenJournal
<1>5. ASSUME NEW c \in Completions, Save(c) PROVE TypeOK'
  BY <1>5 DEF Save
<1>6. ASSUME NEW c \in Completions, MarkObject(c) PROVE TypeOK'
  BY <1>6 DEF MarkObject
<1>7. ASSUME NEW c \in Completions, InsertRow(c) PROVE TypeOK'
  BY <1>7 DEF InsertRow
<1>8. ASSUME NEW c \in Completions, MarkIndex(c) PROVE TypeOK'
  BY <1>8 DEF MarkIndex
<1>9. ASSUME NEW c \in Completions, Commit(c) PROVE TypeOK'
  BY <1>9 DEF Commit
<1>10. ASSUME NEW c \in Completions, CommitRefused(c) PROVE TypeOK'
  BY <1>10 DEF CommitRefused
<1>11. ASSUME NEW c \in Completions, NEW answered \in BOOLEAN, UndoObject(c, answered)
       PROVE  TypeOK'
  BY <1>11 DEF UndoObject
<1>12. ASSUME NEW c \in Completions, NEW answered \in BOOLEAN, UndoIndex(c, answered)
       PROVE  TypeOK'
  BY <1>12 DEF UndoIndex
<1>13. ASSUME NEW c \in Completions, Report(c) PROVE TypeOK'
  BY <1>13 DEF Report
<1>14. ASSUME NEW c \in Completions, Fail(c) PROVE TypeOK'
  BY <1>14 DEF Fail
<1>15. ASSUME NEW m \in Scans, NEW c \in Completions, ClaimRow(m, c) PROVE TypeOK'
  BY <1>15 DEF ClaimRow
<1>16. ASSUME NEW m \in Scans, Judge(m) PROVE TypeOK'
  BY <1>16 DEF Judge
<1>17. ASSUME NEW m \in Scans, NEW answered \in BOOLEAN, ScanObject(m, answered)
       PROVE  TypeOK'
  BY <1>17 DEF ScanObject
<1>18. ASSUME NEW m \in Scans, Recheck(m) PROVE TypeOK'
  BY <1>18 DEF Recheck
<1>19. ASSUME NEW m \in Scans, NEW answered \in BOOLEAN, ScanIndex(m, answered)
       PROVE  TypeOK'
  BY <1>19 DEF ScanIndex
<1>20. ASSUME NEW m \in Scans, ScanReport(m) PROVE TypeOK'
  BY <1>20 DEF ScanReport
<1>21. ASSUME NEW m \in Scans, ScanFails(m) PROVE TypeOK'
  BY <1>21 DEF ScanFails
<1>22. ASSUME NEW u \in Uploads, DeleteExpired(u) PROVE TypeOK'
  BY <1>22 DEF DeleteExpired
<1>23. ASSUME NEW u \in Uploads, RecoverExpired(u) PROVE TypeOK'
  BY <1>23 DEF RecoverExpired
<1>24. ASSUME NEW u \in Uploads, Reserve(u) PROVE TypeOK'
  BY <1>24 DEF Reserve
<1>25. ASSUME NEW u \in Uploads, NEW i \in Chunks, BeginChunk(u, i) PROVE TypeOK'
  BY <1>25 DEF BeginChunk
<1>26. ASSUME NEW u \in Uploads, NEW i \in Chunks, NEW whole \in BOOLEAN,
              EndChunk(u, i, whole)
       PROVE  TypeOK'
  BY <1>26 DEF EndChunk
<1>27. ASSUME NEW u \in Uploads, Cancel(u) PROVE TypeOK'
  BY <1>27 DEF Cancel
<1>28. ASSUME NEW u \in Uploads, Retry(u) PROVE TypeOK'
  BY <1>28 DEF Retry
<1>29. ASSUME NEW u \in Uploads, SessionExpires(u) PROVE TypeOK'
  BY <1>29 DEF SessionExpires
<1>30. CASE Crash
  BY <1>30 DEF Crash, Running
<1>31. CASE UNCHANGED vars
  BY <1>31 DEF vars, sessionVars, chunkVars, requestVars, storeVars
<1>32. QED
  BY <1>1, <1>2, <1>3, <1>4, <1>5, <1>6, <1>7, <1>8, <1>9, <1>10, <1>11,
     <1>12, <1>13, <1>14, <1>15, <1>16, <1>17, <1>18, <1>19, <1>20, <1>21, <1>22,
     <1>23, <1>24, <1>25, <1>26, <1>27, <1>28, <1>29, <1>30, <1>31 DEF Next,
     Completion, Advance, Maintenance, Resolve, Client, Time

-----------------------------------------------------------------------------
(* Sessions.                                                               *)
LEMMA SessionInit == Init => ChunksWhole /\ ChunksKept /\ BudgetKept
<1> SUFFICES ASSUME Init PROVE ChunksWhole /\ ChunksKept /\ BudgetKept
  OBVIOUS
<1>1. ChunksWhole /\ ChunksKept /\ Reserving = {}
  BY DEF Init, ChunksWhole, ChunksKept, Reserving, Alive
<1>2. QED
  BY <1>1, FS_EmptySet, ChunkAssumption DEF BudgetKept

(* Of a session in completion no chunk is written, and the directory goes  *)
(* only with a session that is over.                                       *)
LEMMA ChunksStep ==
    ASSUME TypeOK, ChunksWhole, ChunksKept, [Next]_vars
    PROVE  (ChunksWhole /\ ChunksKept)'
<1> DEFINE Goal == (ChunksWhole /\ ChunksKept)'
<1> USE DEF TypeOK, ChunksWhole, ChunksKept, Alive
<1>1. ASSUME NEW c \in Completions, Claim(c) PROVE Goal
  BY <1>1 DEF Claim, chunkVars
<1>2. ASSUME NEW c \in Completions, CompleteAsDuplicate(c) PROVE Goal
  BY <1>2 DEF CompleteAsDuplicate, sessionVars
<1>3. ASSUME NEW c \in Completions, Commit(c) PROVE Goal
  BY <1>3 DEF Commit
<1>4. ASSUME NEW c \in Completions, Fail(c) PROVE Goal
  BY <1>4 DEF Fail, Holds, chunkVars
<1>5. ASSUME NEW u \in Uploads, DeleteExpired(u) PROVE Goal
  BY <1>5 DEF DeleteExpired
<1>6. ASSUME NEW u \in Uploads, RecoverExpired(u) PROVE Goal
  BY <1>6 DEF RecoverExpired, chunkVars
<1>7. ASSUME NEW u \in Uploads, Reserve(u) PROVE Goal
  BY <1>7 DEF Reserve
<1>8. ASSUME NEW u \in Uploads, NEW i \in Chunks, NEW whole \in BOOLEAN,
             EndChunk(u, i, whole)
      PROVE  Goal
  BY <1>8 DEF EndChunk, sessionVars
<1>9. ASSUME NEW u \in Uploads, Cancel(u) PROVE Goal
  BY <1>9 DEF Cancel
<1>10. ASSUME NEW u \in Uploads, Retry(u) PROVE Goal
  BY <1>10 DEF Retry, chunkVars
<1>11. ASSUME NEW u \in Uploads, SessionExpires(u) PROVE Goal
  BY <1>11 DEF SessionExpires, chunkVars
<1>12. ASSUME NEW c \in Completions, GiveUp(c) \/ OpenJournal(c) \/ Save(c) \/
              MarkObject(c) \/ InsertRow(c) \/ MarkIndex(c) \/ CommitRefused(c) \/
              Report(c)
       PROVE  UNCHANGED <<status, recorded, directory>>
  BY <1>12 DEF GiveUp, OpenJournal, Save, MarkObject, InsertRow, MarkIndex,
     CommitRefused, Report, sessionVars, chunkVars, requestVars, storeVars
<1>13. ASSUME NEW c \in Completions, NEW answered \in BOOLEAN, UndoObject(c, answered)
              \/ UndoIndex(c, answered)
       PROVE  UNCHANGED <<status, recorded, directory>>
  BY <1>13 DEF UndoObject, UndoIndex, sessionVars, chunkVars, requestVars, storeVars
<1>14. ASSUME NEW m \in Scans, NEW c \in Completions, ClaimRow(m, c)
       PROVE  UNCHANGED <<status, recorded, directory>>
  BY <1>14 DEF ClaimRow, sessionVars, chunkVars, requestVars, storeVars
<1>15. ASSUME NEW m \in Scans, Judge(m) \/ Recheck(m) \/ ScanReport(m) \/ ScanFails(m)
       PROVE  UNCHANGED <<status, recorded, directory>>
  BY <1>15 DEF Judge, Recheck, ScanReport, ScanFails, sessionVars, chunkVars,
     requestVars, storeVars
<1>16. ASSUME NEW m \in Scans, NEW answered \in BOOLEAN, ScanObject(m, answered) \/
              ScanIndex(m, answered)
       PROVE  UNCHANGED <<status, recorded, directory>>
  BY <1>16 DEF ScanObject, ScanIndex, sessionVars, chunkVars, requestVars, storeVars
<1>17. ASSUME NEW u \in Uploads, NEW i \in Chunks, BeginChunk(u, i)
       PROVE  UNCHANGED <<status, recorded, directory>>
  BY <1>17 DEF BeginChunk, sessionVars, chunkVars, requestVars, storeVars
<1>18. CASE Crash
  BY <1>18 DEF Crash, sessionVars
<1>19. CASE UNCHANGED vars
  BY <1>19 DEF vars, sessionVars, chunkVars, requestVars, storeVars
<1>20. QED
  BY <1>1, <1>2, <1>3, <1>4, <1>5, <1>6, <1>7, <1>8, <1>9, <1>10, <1>11,
     <1>12, <1>13, <1>14, <1>15, <1>16, <1>17, <1>18, <1>19 DEF Next, Completion,
     Advance, Maintenance, Resolve, Client, Time

(* Only a reservation takes part of the budget.                            *)
LEMMA BudgetStep ==
    ASSUME TypeOK, BudgetKept, [Next]_vars
    PROVE  BudgetKept'
<1> DEFINE Shrinks == Reserving' \subseteq Reserving
<1>a. Reserving \subseteq Uploads /\ IsFiniteSet(Reserving) /\ Cardinality(Reserving) \in Nat
  BY ChunkAssumption, FS_Subset, FS_CardinalityType DEF Reserving
<1>b. ASSUME Shrinks PROVE BudgetKept'
  <2>1. Cardinality(Reserving') <= Cardinality(Reserving) /\ Cardinality(Reserving') \in Nat
    BY <1>a, <1>b, FS_Subset, FS_CardinalityType
  <2>2. QED
    BY <1>a, <2>1, ChunkAssumption DEF BudgetKept
<1>c. ASSUME NEW u \in Uploads, Reserve(u) PROVE BudgetKept'
  <2>1. Reserving' \subseteq Reserving \cup {u}
    BY <1>c DEF Reserve, Reserving, Alive, TypeOK
  <2>2. IsFiniteSet(Reserving \cup {u}) /\ Cardinality(Reserving \cup {u}) <= Cardinality(Reserving) + 1
        /\ Cardinality(Reserving \cup {u}) \in Nat
    <3>1. IsFiniteSet(Reserving \cup {u})
          /\ Cardinality(Reserving \cup {u})
               = IF u \in Reserving THEN Cardinality(Reserving) ELSE Cardinality(Reserving) + 1
      BY <1>a, FS_AddElement
    <3>2. QED
      BY <1>a, <3>1
  <2>3. Cardinality(Reserving') <= Cardinality(Reserving \cup {u}) /\ Cardinality(Reserving') \in Nat
    BY <2>1, <2>2, FS_Subset, FS_CardinalityType
  <2>4. Cardinality(Reserving) < Budget
    BY <1>c DEF Reserve
  <2>5. QED
    BY <1>a, <2>2, <2>3, <2>4, ChunkAssumption DEF BudgetKept
<1>d. ASSUME \A u \in Uploads : ~Reserve(u) PROVE Shrinks
  <2> USE <1>d DEF TypeOK, Reserving, Alive
  <2>1. ASSUME NEW c \in Completions, Claim(c) PROVE Shrinks
    BY <2>1 DEF Claim, chunkVars
  <2>2. ASSUME NEW c \in Completions, CompleteAsDuplicate(c) PROVE Shrinks
    BY <2>2 DEF CompleteAsDuplicate
  <2>3. ASSUME NEW c \in Completions, Commit(c) PROVE Shrinks
    BY <2>3 DEF Commit
  <2>4. ASSUME NEW c \in Completions, Fail(c) PROVE Shrinks
    BY <2>4 DEF Fail, Holds
  <2>5. ASSUME NEW u \in Uploads, DeleteExpired(u) PROVE Shrinks
    BY <2>5 DEF DeleteExpired
  <2>6. ASSUME NEW u \in Uploads, RecoverExpired(u) PROVE Shrinks
    BY <2>6 DEF RecoverExpired
  <2>7. ASSUME NEW u \in Uploads, Reserve(u) PROVE Shrinks
    BY <2>7 DEF Reserve
  <2>8. ASSUME NEW u \in Uploads, Cancel(u) PROVE Shrinks
    BY <2>8 DEF Cancel
  <2>9. ASSUME NEW u \in Uploads, Retry(u) PROVE Shrinks
    BY <2>9 DEF Retry
  <2>10. ASSUME NEW u \in Uploads, SessionExpires(u) PROVE Shrinks
    BY <2>10 DEF SessionExpires
  <2>11. ASSUME NEW c \in Completions, GiveUp(c) \/ OpenJournal(c) \/ Save(c) \/
                MarkObject(c) \/ InsertRow(c) \/ MarkIndex(c) \/ CommitRefused(c) \/
                Report(c)
         PROVE  UNCHANGED <<status, expired>>
    BY <2>11 DEF GiveUp, OpenJournal, Save, MarkObject, InsertRow, MarkIndex,
       CommitRefused, Report, sessionVars, chunkVars, requestVars, storeVars
  <2>12. ASSUME NEW c \in Completions, NEW answered \in BOOLEAN, UndoObject(c, answered)
                \/ UndoIndex(c, answered)
         PROVE  UNCHANGED <<status, expired>>
    BY <2>12 DEF UndoObject, UndoIndex, sessionVars, chunkVars, requestVars, storeVars
  <2>13. ASSUME NEW m \in Scans, NEW c \in Completions, ClaimRow(m, c)
         PROVE  UNCHANGED <<status, expired>>
    BY <2>13 DEF ClaimRow, sessionVars, chunkVars, requestVars, storeVars
  <2>14. ASSUME NEW m \in Scans, Judge(m) \/ Recheck(m) \/ ScanReport(m) \/ ScanFails(m)
         PROVE  UNCHANGED <<status, expired>>
    BY <2>14 DEF Judge, Recheck, ScanReport, ScanFails, sessionVars, chunkVars,
       requestVars, storeVars
  <2>15. ASSUME NEW m \in Scans, NEW answered \in BOOLEAN, ScanObject(m, answered) \/
                ScanIndex(m, answered)
         PROVE  UNCHANGED <<status, expired>>
    BY <2>15 DEF ScanObject, ScanIndex, sessionVars, chunkVars, requestVars, storeVars
  <2>16. ASSUME NEW u \in Uploads, NEW i \in Chunks, BeginChunk(u, i)
         PROVE  UNCHANGED <<status, expired>>
    BY <2>16 DEF BeginChunk, sessionVars, chunkVars, requestVars, storeVars
  <2>17. ASSUME NEW u \in Uploads, NEW i \in Chunks, NEW whole \in BOOLEAN,
                EndChunk(u, i, whole)
         PROVE  UNCHANGED <<status, expired>>
    BY <2>17 DEF EndChunk, sessionVars, chunkVars, requestVars, storeVars
  <2>18. CASE Crash
    BY <2>18 DEF Crash, sessionVars
  <2>19. CASE UNCHANGED vars
    BY <2>19 DEF vars, sessionVars, chunkVars, requestVars, storeVars
  <2>20. QED
    BY <2>1, <2>2, <2>3, <2>4, <2>5, <2>6, <2>7, <2>8, <2>9, <2>10, <2>11,
       <2>12, <2>13, <2>14, <2>15, <2>16, <2>17, <2>18, <2>19 DEF Next, Completion,
       Advance, Maintenance, Resolve, Client, Time
<1>e. QED
  BY <1>b, <1>c, <1>d

(* A request ends as the one that stores only by a transaction that finds  *)
(* its own claim in the row, and the row was claimed with all its chunks.  *)
LEMMA HolderStep ==
    ASSUME TypeOK, ChunksWhole, [Next]_vars
    PROVE  StoredByHolder
<1> DEFINE Quiet == \A u \in Uploads : status'[u] = "completed" => status[u] = "completed"
<1> USE DEF TypeOK, StoredByHolder
<1>1. ASSUME NEW c \in Completions, CompleteAsDuplicate(c) PROVE StoredByHolder
  BY <1>1, ChunkAssumption DEF CompleteAsDuplicate, Holds, Running, Goto, ChunksWhole
<1>2. ASSUME NEW c \in Completions, Commit(c) PROVE StoredByHolder
  BY <1>2, ChunkAssumption DEF Commit, Holds, Running, Goto, ChunksWhole
<1>3. ASSUME NEW c \in Completions, Claim(c) \/ GiveUp(c) \/ OpenJournal(c) \/ Save(c)
             \/ MarkObject(c) \/ InsertRow(c) \/ MarkIndex(c) \/ CommitRefused(c) \/
             Report(c) \/ Fail(c)
      PROVE  Quiet
  BY <1>3 DEF Claim, GiveUp, OpenJournal, Save, MarkObject, InsertRow, MarkIndex,
     CommitRefused, Report, Fail, sessionVars, chunkVars, requestVars, storeVars
<1>4. ASSUME NEW c \in Completions, NEW answered \in BOOLEAN, UndoObject(c, answered)
             \/ UndoIndex(c, answered)
      PROVE  Quiet
  BY <1>4 DEF UndoObject, UndoIndex, sessionVars, chunkVars, requestVars, storeVars
<1>5. ASSUME NEW m \in Scans, NEW c \in Completions, ClaimRow(m, c) PROVE Quiet
  BY <1>5 DEF ClaimRow, sessionVars, chunkVars, requestVars, storeVars
<1>6. ASSUME NEW m \in Scans, Judge(m) \/ Recheck(m) \/ ScanReport(m) \/ ScanFails(m)
      PROVE  Quiet
  BY <1>6 DEF Judge, Recheck, ScanReport, ScanFails, sessionVars, chunkVars,
     requestVars, storeVars
<1>7. ASSUME NEW m \in Scans, NEW answered \in BOOLEAN, ScanObject(m, answered) \/
             ScanIndex(m, answered)
      PROVE  Quiet
  BY <1>7 DEF ScanObject, ScanIndex, sessionVars, chunkVars, requestVars, storeVars
<1>8. ASSUME NEW u \in Uploads, DeleteExpired(u) \/ RecoverExpired(u) \/ Reserve(u) \/
             Cancel(u) \/ Retry(u) \/ SessionExpires(u)
      PROVE  Quiet
  BY <1>8 DEF DeleteExpired, RecoverExpired, Reserve, Cancel, Retry, SessionExpires,
     sessionVars, chunkVars, requestVars, storeVars
<1>9. ASSUME NEW u \in Uploads, NEW i \in Chunks, BeginChunk(u, i) PROVE Quiet
  BY <1>9 DEF BeginChunk, sessionVars, chunkVars, requestVars, storeVars
<1>10. ASSUME NEW u \in Uploads, NEW i \in Chunks, NEW whole \in BOOLEAN,
              EndChunk(u, i, whole)
       PROVE  Quiet
  BY <1>10 DEF EndChunk, sessionVars, chunkVars, requestVars, storeVars
<1>11. CASE Crash
  BY <1>11 DEF Crash, sessionVars
<1>12. CASE UNCHANGED vars
  BY <1>12 DEF vars, sessionVars, chunkVars, requestVars, storeVars
<1> HIDE DEF TypeOK
<1>13. QED
  BY <1>1, <1>2, <1>3, <1>4, <1>5, <1>6, <1>7, <1>8, <1>9, <1>10, <1>11,
     <1>12 DEF Next, Completion, Advance, Maintenance, Resolve, Client, Time

-----------------------------------------------------------------------------
(* The promise.                                                            *)
LEMMA PromiseInit == Init => Outcome!Init
<1> SUFFICES ASSUME Init PROVE Outcome!Init
  OBVIOUS
<1>1. \A u \in Uploads : OutcomeOf(u) = "none"
  BY DEF Init, OutcomeOf, Alive
<1>2. QED
  BY <1>1 DEF Init, Outcome!Init

(* Every step of the sessions is one of the promise or changes nothing of it.*)
LEMMA PromiseStep ==
    ASSUME TypeOK, [Next]_vars
    PROVE  [Outcome!Next]_(Outcome!vars)
<1> DEFINE Step == [Outcome!Next]_(Outcome!vars)
<1> DEFINE Same(V) == \A v \in V : OutcomeOf(v)' = OutcomeOf(v)
<1> DEFINE Quiet == file' = file /\ Same(Uploads)
<1>a. Quiet => Step
  BY DEF Outcome!vars
<1>b. ASSUME NEW u \in Uploads, file' = file, Same(Uploads \ {u}),
             OutcomeOf(u) = "none" /\ OutcomeOf(u)' = "open"
      PROVE  Step
  BY <1>b DEF Outcome!Next, Outcome!Open
<1>c. ASSUME NEW u \in Uploads, NEW f \in Completions \cup {Duplicate},
             file' = [file EXCEPT ![u] = f], Same(Uploads \ {u}),
             OutcomeOf(u) = "open" /\ OutcomeOf(u)' = "stored"
      PROVE  Step
  BY <1>c DEF Outcome!Next, Outcome!Store
<1>d. ASSUME NEW u \in Uploads, file' = file, Same(Uploads \ {u}),
             OutcomeOf(u) = "open" /\ OutcomeOf(u)' = "dropped"
      PROVE  Step
  BY <1>d DEF Outcome!Next, Outcome!Drop
<1> SUFFICES Step
  OBVIOUS
<1> HIDE DEF Step
<1> USE DEF TypeOK, OutcomeOf, Alive
<1>e. UNCHANGED <<status, file>> => Step
  BY <1>a
<1>1. ASSUME NEW c \in Completions, Claim(c) PROVE Step
  BY <1>1, <1>a DEF Claim
<1>2. ASSUME NEW c \in Completions, CompleteAsDuplicate(c) PROVE Step
  <2>1. ASSUME Holds(c) PROVE Step
    BY <1>2, <2>1, <1>c, ChunkAssumption DEF CompleteAsDuplicate, Holds
  <2>2. ASSUME ~Holds(c) PROVE UNCHANGED <<status, file>>
    BY <1>2, <2>2 DEF CompleteAsDuplicate
  <2>3. QED
    BY <1>e, <2>1, <2>2
<1>3. ASSUME NEW c \in Completions, Commit(c) PROVE Step
  <2>1. UploadOf[c] \in Uploads
    BY ChunkAssumption
  <2>2. Same(Uploads \ {UploadOf[c]}) /\ OutcomeOf(UploadOf[c]) = "open"
            /\ OutcomeOf(UploadOf[c])' = "stored" /\ file' = [file EXCEPT ![UploadOf[c]] = c]
    BY <1>3, <2>1 DEF Commit, Holds
  <2>3. QED
    BY <1>c, <2>1, <2>2
<1>4. ASSUME NEW c \in Completions, Fail(c) PROVE Step
  BY <1>4, <1>a DEF Fail, Holds
<1>5. ASSUME NEW u \in Uploads, DeleteExpired(u) PROVE Step
  BY <1>5, <1>a, <1>d DEF DeleteExpired
<1>6. ASSUME NEW u \in Uploads, RecoverExpired(u) PROVE Step
  BY <1>6, <1>a DEF RecoverExpired
<1>7. ASSUME NEW u \in Uploads, Reserve(u) PROVE Step
  BY <1>7, <1>b DEF Reserve
<1>8. ASSUME NEW u \in Uploads, Cancel(u) PROVE Step
  BY <1>8, <1>d DEF Cancel
<1>9. ASSUME NEW u \in Uploads, Retry(u) PROVE Step
  BY <1>9, <1>a DEF Retry
<1>10. ASSUME NEW c \in Completions, GiveUp(c) \/ OpenJournal(c) \/ Save(c) \/
              MarkObject(c) \/ InsertRow(c) \/ MarkIndex(c) \/ CommitRefused(c) \/
              Report(c)
       PROVE  UNCHANGED <<status, file>>
  BY <1>10 DEF GiveUp, OpenJournal, Save, MarkObject, InsertRow, MarkIndex,
     CommitRefused, Report, sessionVars, chunkVars, requestVars, storeVars
<1>11. ASSUME NEW c \in Completions, NEW answered \in BOOLEAN, UndoObject(c, answered)
              \/ UndoIndex(c, answered)
       PROVE  UNCHANGED <<status, file>>
  BY <1>11 DEF UndoObject, UndoIndex, sessionVars, chunkVars, requestVars, storeVars
<1>12. ASSUME NEW m \in Scans, NEW c \in Completions, ClaimRow(m, c)
       PROVE  UNCHANGED <<status, file>>
  BY <1>12 DEF ClaimRow, sessionVars, chunkVars, requestVars, storeVars
<1>13. ASSUME NEW m \in Scans, Judge(m) \/ Recheck(m) \/ ScanReport(m) \/ ScanFails(m)
       PROVE  UNCHANGED <<status, file>>
  BY <1>13 DEF Judge, Recheck, ScanReport, ScanFails, sessionVars, chunkVars,
     requestVars, storeVars
<1>14. ASSUME NEW m \in Scans, NEW answered \in BOOLEAN, ScanObject(m, answered) \/
              ScanIndex(m, answered)
       PROVE  UNCHANGED <<status, file>>
  BY <1>14 DEF ScanObject, ScanIndex, sessionVars, chunkVars, requestVars, storeVars
<1>15. ASSUME NEW u \in Uploads, NEW i \in Chunks, BeginChunk(u, i)
       PROVE  UNCHANGED <<status, file>>
  BY <1>15 DEF BeginChunk, sessionVars, chunkVars, requestVars, storeVars
<1>16. ASSUME NEW u \in Uploads, NEW i \in Chunks, NEW whole \in BOOLEAN,
              EndChunk(u, i, whole)
       PROVE  UNCHANGED <<status, file>>
  BY <1>16 DEF EndChunk, sessionVars, chunkVars, requestVars, storeVars
<1>17. ASSUME NEW u \in Uploads, SessionExpires(u) PROVE UNCHANGED <<status, file>>
  BY <1>17 DEF SessionExpires, sessionVars, chunkVars, requestVars, storeVars
<1>18. CASE Crash
  BY <1>18, <1>e DEF Crash, sessionVars
<1>19. CASE UNCHANGED vars
  BY <1>19, <1>e DEF vars, sessionVars, chunkVars, requestVars, storeVars
<1> HIDE DEF TypeOK, OutcomeOf
<1>20. QED
  BY <1>1, <1>2, <1>3, <1>4, <1>5, <1>6, <1>7, <1>8, <1>9, <1>10, <1>11,
     <1>12, <1>13, <1>14, <1>15, <1>16, <1>17, <1>18, <1>19, <1>e DEF Next, Completion,
     Advance, Maintenance, Resolve, Client, Time

-----------------------------------------------------------------------------
(* What is stored.                                                         *)
LEMMA ForwardStep ==
    ASSUME TypeOK, [Next]_vars
    PROVE  Forward
<1> USE DEF Forward, TypeOK, PastSave, BeforeSave, PastInsert, BeforeInsert, Committed, Goto
<1>1. ASSUME NEW c \in Completions, Claim(c) PROVE Forward
  BY <1>1 DEF Claim, sessionVars, requestVars, storeVars
<1>2. ASSUME NEW c \in Completions, GiveUp(c) PROVE Forward
  BY <1>2 DEF GiveUp, sessionVars, requestVars, storeVars
<1>3. ASSUME NEW c \in Completions, CompleteAsDuplicate(c) PROVE Forward
  <2>1. \A d \in Completions : PastSave(d) => PastSave(d)'
          /\ (d \in object' => d \in object)
    BY <1>3 DEF CompleteAsDuplicate, sessionVars, requestVars, storeVars
  <2>2. \A d \in Completions : PastInsert(d) => PastInsert(d)'
          /\ (d \in row' => d \in row)
    BY <1>3 DEF CompleteAsDuplicate, sessionVars, requestVars, storeVars
  <2>3. \A d \in Completions : Committed(d) => Committed(d)'
    BY <1>3, ChunkAssumption DEF CompleteAsDuplicate, Holds, sessionVars
  <2>4. QED
    BY <2>1, <2>2, <2>3
<1>4. ASSUME NEW c \in Completions, OpenJournal(c) PROVE Forward
  BY <1>4 DEF OpenJournal, sessionVars, requestVars, storeVars
<1>5. ASSUME NEW c \in Completions, Save(c) PROVE Forward
  <2>1. pc[c] = "journaled" /\ pc'[c] \in {"saved", "uncertain"}
          /\ object' \subseteq object \cup {c}
    BY <1>5 DEF Save
  <2>2. \A d \in Completions : d # c => pc'[d] = pc[d]
    BY <1>5 DEF Save
  <2>3. UNCHANGED <<row, status, file>>
    BY <1>5 DEF Save, sessionVars
  <2>4. QED
    BY <2>1, <2>2, <2>3
<1>6. ASSUME NEW c \in Completions, MarkObject(c) PROVE Forward
  BY <1>6 DEF MarkObject, sessionVars, requestVars, storeVars
<1>7. ASSUME NEW c \in Completions, InsertRow(c) PROVE Forward
  BY <1>7 DEF InsertRow, sessionVars, requestVars, storeVars
<1>8. ASSUME NEW c \in Completions, MarkIndex(c) PROVE Forward
  BY <1>8 DEF MarkIndex, sessionVars, requestVars, storeVars
<1>9. ASSUME NEW c \in Completions, Commit(c) PROVE Forward
  BY <1>9 DEF Commit, Holds, storeVars
<1>10. ASSUME NEW c \in Completions, CommitRefused(c) PROVE Forward
  BY <1>10 DEF CommitRefused, sessionVars, requestVars, storeVars
<1>11. ASSUME NEW c \in Completions, NEW answered \in BOOLEAN, UndoObject(c, answered)
       PROVE  Forward
  BY <1>11 DEF UndoObject, sessionVars, requestVars, storeVars
<1>12. ASSUME NEW c \in Completions, NEW answered \in BOOLEAN, UndoIndex(c, answered)
       PROVE  Forward
  BY <1>12 DEF UndoIndex, sessionVars, requestVars, storeVars
<1>13. ASSUME NEW c \in Completions, Report(c) PROVE Forward
  BY <1>13 DEF Report, sessionVars, requestVars, storeVars
<1>14. ASSUME NEW c \in Completions, Fail(c) PROVE Forward
  <2>1. \A d \in Completions : PastSave(d) => PastSave(d)'
          /\ (d \in object' => d \in object)
    BY <1>14 DEF Fail, sessionVars, requestVars, storeVars
  <2>2. \A d \in Completions : PastInsert(d) => PastInsert(d)'
          /\ (d \in row' => d \in row)
    BY <1>14 DEF Fail, sessionVars, requestVars, storeVars
  <2>3. \A d \in Completions : Committed(d) => Committed(d)'
    BY <1>14, ChunkAssumption DEF Fail, Holds, sessionVars
  <2>4. QED
    BY <2>1, <2>2, <2>3
<1>15. ASSUME NEW m \in Scans, NEW answered \in BOOLEAN, ScanObject(m, answered)
       PROVE  Forward
  BY <1>15 DEF ScanObject, sessionVars, requestVars, storeVars
<1>16. ASSUME NEW m \in Scans, NEW answered \in BOOLEAN, ScanIndex(m, answered)
       PROVE  Forward
  BY <1>16 DEF ScanIndex, sessionVars, requestVars, storeVars
<1>17. ASSUME NEW u \in Uploads, DeleteExpired(u) PROVE Forward
  BY <1>17 DEF DeleteExpired, sessionVars, requestVars, storeVars
<1>18. ASSUME NEW u \in Uploads, RecoverExpired(u) PROVE Forward
  BY <1>18 DEF RecoverExpired, sessionVars, requestVars, storeVars
<1>19. ASSUME NEW u \in Uploads, Reserve(u) PROVE Forward
  BY <1>19 DEF Reserve, sessionVars, requestVars, storeVars
<1>20. ASSUME NEW u \in Uploads, Cancel(u) PROVE Forward
  BY <1>20 DEF Cancel, sessionVars, requestVars, storeVars
<1>21. ASSUME NEW u \in Uploads, Retry(u) PROVE Forward
  BY <1>21 DEF Retry, sessionVars, requestVars, storeVars
<1>22. ASSUME NEW m \in Scans, NEW c \in Completions, ClaimRow(m, c)
       PROVE  UNCHANGED <<pc, object, row, status, file>>
  BY <1>22 DEF ClaimRow, sessionVars, chunkVars, requestVars, storeVars
<1>23. ASSUME NEW m \in Scans, Judge(m) \/ Recheck(m) \/ ScanReport(m) \/ ScanFails(m)
       PROVE  UNCHANGED <<pc, object, row, status, file>>
  BY <1>23 DEF Judge, Recheck, ScanReport, ScanFails, sessionVars, chunkVars,
     requestVars, storeVars
<1>24. ASSUME NEW u \in Uploads, NEW i \in Chunks, BeginChunk(u, i)
       PROVE  UNCHANGED <<pc, object, row, status, file>>
  BY <1>24 DEF BeginChunk, sessionVars, chunkVars, requestVars, storeVars
<1>25. ASSUME NEW u \in Uploads, NEW i \in Chunks, NEW whole \in BOOLEAN,
              EndChunk(u, i, whole)
       PROVE  UNCHANGED <<pc, object, row, status, file>>
  BY <1>25 DEF EndChunk, sessionVars, chunkVars, requestVars, storeVars
<1>26. ASSUME NEW u \in Uploads, SessionExpires(u)
       PROVE  UNCHANGED <<pc, object, row, status, file>>
  BY <1>26 DEF SessionExpires, sessionVars, chunkVars, requestVars, storeVars
<1>27. CASE Crash
  BY <1>27 DEF Crash, Running, sessionVars, storeVars
<1>28. CASE UNCHANGED vars
  BY <1>28 DEF vars, sessionVars, chunkVars, requestVars, storeVars
<1> HIDE DEF Forward
<1>q. UNCHANGED <<pc, object, row, status, file>> => Forward
  BY DEF Forward
<1> HIDE DEF TypeOK, PastSave, BeforeSave, PastInsert, BeforeInsert, Committed
<1>29. QED
  BY <1>1, <1>2, <1>3, <1>4, <1>5, <1>6, <1>7, <1>8, <1>9, <1>10, <1>11,
     <1>12, <1>13, <1>14, <1>15, <1>16, <1>17, <1>18, <1>19, <1>20, <1>21, <1>22,
     <1>23, <1>24, <1>25, <1>26, <1>27, <1>28, <1>q DEF Next, Completion, Advance,
     Maintenance, Resolve, Client, Time

(* An honest reading stays honest: what it calls deleted does not return.  *)
LEMMA HonestForward ==
    ASSUME Forward, NEW c \in Completions, NEW r, Honest(r, c)
    PROVE  HonestThen(r, c)
  BY DEF Forward, Honest, HonestThen, PastSave, PastInsert

(* What a changed journal row says.                                        *)
LEMMA ChangedRows ==
    ASSUME NEW r \in JournalRow, NEW x \in States, NEW y \in States
    PROVE  /\ Compensated(r, x, y) = Resolved
                \/ /\ Compensated(r, x, y).object = x /\ Compensated(r, x, y).index = y
                   /\ Compensated(r, x, y).path = r.path /\ Compensated(r, x, y).file = r.file
                   /\ Compensated(r, x, y).status = r.status
           /\ Compensated(r, x, y) = Resolved => (x = "deleted" /\ y = "deleted") \/ r.status # "pending"
           /\ Released(r).object = r.object /\ Released(r).index = r.index
           /\ Released(r).path = r.path /\ Released(r).file = r.file
           /\ Released(r).status = r.status
           /\ \A b \in BOOLEAN :
                 /\ [r EXCEPT !.operator = b].object = r.object
                 /\ [r EXCEPT !.operator = b].index = r.index
                 /\ [r EXCEPT !.operator = b].path = r.path
                 /\ [r EXCEPT !.operator = b].file = r.file
                 /\ [r EXCEPT !.operator = b].status = r.status
           /\ \A k \in Scans :
                 /\ [r EXCEPT !.holder = k].object = r.object
                 /\ [r EXCEPT !.holder = k].index = r.index
                 /\ [r EXCEPT !.holder = k].path = r.path
                 /\ [r EXCEPT !.holder = k].file = r.file
                 /\ [r EXCEPT !.holder = k].status = r.status
<1>1. Resolved.status = "resolved"
  BY DEF Resolved, NoJournal
<1>2. [r EXCEPT !.object = x, !.index = y].status = r.status
      /\ [r EXCEPT !.object = x, !.index = y].object = x
      /\ [r EXCEPT !.object = x, !.index = y].index = y
      /\ [r EXCEPT !.object = x, !.index = y].path = r.path
      /\ [r EXCEPT !.object = x, !.index = y].file = r.file
  BY DEF JournalRow
<1>3. QED
  BY <1>1, <1>2 DEF Compensated, Released, JournalRow

(* What an honest reading or row becomes.                                  *)
LEMMA HonestRows ==
    ASSUME NEW c \in Completions, NEW r, NEW s,
           HonestThen(r, c), s.object = r.object, s.index = r.index,
           s.path = r.path, s.file = r.file
    PROVE  HonestThen(s, c)
  BY DEF HonestThen

(* A row that says nothing is honest.                                      *)
LEMMA HonestEmpty ==
    ASSUME NEW c \in Completions
    PROVE  /\ HonestThen(NoJournal, c) /\ HonestThen(Resolved, c)
           /\ HonestThen([NoJournal EXCEPT !.status = "pending"], c)
<1>1. \A r \in {NoJournal, Resolved, [NoJournal EXCEPT !.status = "pending"]} :
         r.object = "unknown" /\ r.index = "unknown" /\ r.path = FALSE /\ r.file = FALSE
  BY DEF NoJournal, Resolved
<1>2. QED
  BY <1>1 DEF HonestThen

(* The readings stay honest when one run changes its own.                  *)
LEMMA ScanMoves ==
    ASSUME TypeOK, Forward, ScansHonest, NEW m \in Scans,
           \A k \in Scans \ {m} : scan'[k] = scan[k],
           scan'[m] # Idle => /\ scan'[m].row \in Completions
                              /\ HonestThen(scan'[m], scan'[m].row)
                              /\ scan'[m].completed => CommittedThen(scan'[m].row)
    PROVE  ScansHonest'
<1> SUFFICES ASSUME NEW k \in Scans, scan'[k] # Idle
             PROVE  /\ HonestThen(scan'[k], scan'[k].row)
                    /\ scan'[k].completed => CommittedThen(scan'[k].row)
  BY DEF ScansHonest, Honest, HonestThen, CommittedThen, Committed, PastSave, PastInsert
<1>1. CASE k = m
  BY <1>1
<1>2. CASE k # m
  <2>1. scan'[k] = scan[k] /\ scan[k] # Idle
    BY <1>2
  <2>2. scan[k].row \in Completions
    BY <2>1 DEF TypeOK, Reading
  <2>3. Honest(scan[k], scan[k].row) /\ (scan[k].completed => Committed(scan[k].row))
    BY <2>1 DEF ScansHonest
  <2>4. HonestThen(scan[k], scan[k].row)
    BY <2>2, <2>3, HonestForward
  <2>5. scan[k].completed => CommittedThen(scan[k].row)
    BY <2>2, <2>3 DEF Forward, Committed, CommittedThen
  <2>6. QED
    BY <2>1, <2>4, <2>5
<1>3. QED
  BY <1>1, <1>2

(* What a run has read stays true when it goes on.                         *)
LEMMA ScanStays ==
    ASSUME TypeOK, Forward, ScansHonest, NEW m \in Scans, scan[m] # Idle
    PROVE  /\ scan[m] \in Reading /\ scan[m].row \in Completions
           /\ Honest(scan[m], scan[m].row)
           /\ HonestThen(scan[m], scan[m].row)
           /\ scan[m].completed => Committed(scan[m].row) /\ CommittedThen(scan[m].row)
<1>1. scan[m] \in Reading
  BY DEF TypeOK
<1>2. scan[m].row \in Completions
  BY <1>1 DEF Reading
<1>3. Honest(scan[m], scan[m].row) /\ (scan[m].completed => Committed(scan[m].row))
  BY DEF ScansHonest
<1>4. QED
  BY <1>1, <1>2, <1>3, HonestForward DEF Forward, Committed, CommittedThen

(* Every step keeps the readings of the maintenance runs honest.           *)
LEMMA ScansStep ==
    ASSUME TypeOK, Forward, JournalHonest, ScansHonest, [Next]_vars
    PROVE  ScansHonest'
<1> DEFINE Quiet == UNCHANGED scan
<1>q. Quiet => ScansHonest'
  <2> SUFFICES ASSUME Quiet, NEW k \in Scans, scan'[k] # Idle
               PROVE  /\ HonestThen(scan'[k], scan'[k].row)
                      /\ scan'[k].completed => CommittedThen(scan'[k].row)
    BY DEF ScansHonest, Honest, HonestThen, CommittedThen, Committed, PastSave, PastInsert
  <2>1. QED
    BY ScanStays
<1>1. ASSUME NEW m \in Scans, NEW c \in Completions, ClaimRow(m, c) PROVE ScansHonest'
  <2>1. \A k \in Scans \ {m} : scan'[k] = scan[k]
    BY <1>1 DEF ClaimRow, TypeOK
  <2>2. scan'[m].row = c /\ scan'[m].object = journal[c].object
          /\ scan'[m].index = journal[c].index /\ scan'[m].path = journal[c].path
          /\ scan'[m].file = journal[c].file /\ (scan'[m].completed => Committed(c))
    BY <1>1 DEF ClaimRow, TypeOK, Committed
  <2>3. HonestThen(journal[c], c)
    BY HonestForward DEF JournalHonest
  <2>4. HonestThen(scan'[m], c)
    BY <2>2, <2>3, HonestRows
  <2>5. scan'[m].completed => CommittedThen(c)
    BY <2>2 DEF Forward, Committed, CommittedThen
  <2>6. QED
    BY <2>1, <2>2, <2>4, <2>5, ScanMoves
<1>2. ASSUME NEW m \in Scans, Judge(m) PROVE ScansHonest'
  <2>1. scan[m] # Idle
    BY <1>2 DEF Judge, Idle
  <2>2. \A k \in Scans \ {m} : scan'[k] = scan[k]
    BY <1>2 DEF Judge, KeepLease, ScanTo, ScanEnds, TypeOK
  <2>3. \/ scan'[m] = Idle
        \/ \E x : scan'[m] = [scan[m] EXCEPT !.at = x]
    BY <1>2 DEF Judge, KeepLease, ScanTo, ScanEnds, TypeOK
  <2>4. scan'[m] # Idle => /\ scan'[m].row = scan[m].row /\ scan'[m].completed = scan[m].completed
                           /\ scan'[m].object = scan[m].object /\ scan'[m].index = scan[m].index
                           /\ scan'[m].path = scan[m].path /\ scan'[m].file = scan[m].file
    BY <2>1, <2>3, ScanStays DEF Reading
  <2>5. scan'[m] # Idle => HonestThen(scan'[m], scan'[m].row)
    BY <2>1, <2>4, ScanStays, HonestRows
  <2>6. QED
    BY <2>1, <2>2, <2>4, <2>5, ScanStays, ScanMoves
<1>3. ASSUME NEW m \in Scans, NEW answered \in BOOLEAN, ScanObject(m, answered)
      PROVE  ScansHonest'
  <2>1. scan[m] # Idle
    BY <1>3 DEF ScanObject, Idle
  <2>2. \A k \in Scans \ {m} : scan'[k] = scan[k]
    BY <1>3 DEF ScanObject, TypeOK
  <2>3. scan'[m].row = scan[m].row /\ scan'[m].completed = scan[m].completed
          /\ scan'[m].index = scan[m].index /\ scan'[m].path = scan[m].path
          /\ scan'[m].file = scan[m].file
    BY <1>3, <2>1, ScanStays DEF ScanObject, TypeOK, Reading
  <2>4. scan'[m].object = IF ~(scan[m].path /\ scan[m].object # "deleted") THEN scan[m].object
            ELSE IF answered THEN "deleted" ELSE "unknown"
    BY <1>3, <2>1, ScanStays DEF ScanObject, TypeOK, Reading
  <2>5. scan[m].path /\ scan[m].object # "deleted"
          /\ answered => scan[m].row \notin object'
    BY <1>3 DEF ScanObject
  <2>6. HonestThen(scan'[m], scan[m].row)
    BY <2>1, <2>3, <2>4, <2>5, ScanStays DEF HonestThen
  <2>7. QED
    BY <2>1, <2>2, <2>3, <2>6, ScanStays, ScanMoves
<1>4. ASSUME NEW m \in Scans, Recheck(m) PROVE ScansHonest'
  <2>1. scan[m] # Idle
    BY <1>4 DEF Recheck, Idle
  <2>2. \A k \in Scans \ {m} : scan'[k] = scan[k]
    BY <1>4 DEF Recheck, KeepLease, ScanTo, ScanEnds, TypeOK
  <2>3. \/ scan'[m] = Idle
        \/ \E x : scan'[m] = [scan[m] EXCEPT !.at = x]
    BY <1>4 DEF Recheck, KeepLease, ScanTo, ScanEnds, TypeOK
  <2>4. scan'[m] # Idle => /\ scan'[m].row = scan[m].row /\ scan'[m].completed = scan[m].completed
                           /\ scan'[m].object = scan[m].object /\ scan'[m].index = scan[m].index
                           /\ scan'[m].path = scan[m].path /\ scan'[m].file = scan[m].file
    BY <2>1, <2>3, ScanStays DEF Reading
  <2>5. scan'[m] # Idle => HonestThen(scan'[m], scan'[m].row)
    BY <2>1, <2>4, ScanStays, HonestRows
  <2>6. QED
    BY <2>1, <2>2, <2>4, <2>5, ScanStays, ScanMoves
<1>5. ASSUME NEW m \in Scans, NEW answered \in BOOLEAN, ScanIndex(m, answered)
      PROVE  ScansHonest'
  <2>1. scan[m] # Idle
    BY <1>5 DEF ScanIndex, Idle
  <2>2. \A k \in Scans \ {m} : scan'[k] = scan[k]
    BY <1>5 DEF ScanIndex, TypeOK
  <2>3. scan'[m].row = scan[m].row /\ scan'[m].completed = scan[m].completed
          /\ scan'[m].object = scan[m].object /\ scan'[m].path = scan[m].path
          /\ scan'[m].file = scan[m].file
    BY <1>5, <2>1, ScanStays DEF ScanIndex, TypeOK, Reading
  <2>4. scan'[m].index = IF ~(scan[m].file /\ scan[m].index # "deleted") THEN scan[m].index
            ELSE IF answered THEN "deleted" ELSE "unknown"
    BY <1>5, <2>1, ScanStays DEF ScanIndex, TypeOK, Reading
  <2>5. scan[m].file /\ scan[m].index # "deleted"
          /\ answered => scan[m].row \notin row'
    BY <1>5 DEF ScanIndex
  <2>6. HonestThen(scan'[m], scan[m].row)
    BY <2>1, <2>3, <2>4, <2>5, ScanStays DEF HonestThen
  <2>7. QED
    BY <2>1, <2>2, <2>3, <2>6, ScanStays, ScanMoves
<1>6. ASSUME NEW m \in Scans, ScanReport(m) PROVE ScansHonest'
  <2>1. \A k \in Scans \ {m} : scan'[k] = scan[k]
    BY <1>6 DEF ScanReport, ScanEnds, TypeOK
  <2>2. scan'[m] = Idle
    BY <1>6 DEF ScanReport, ScanEnds, TypeOK
  <2>3. QED
    BY <2>1, <2>2, ScanMoves
<1>7. ASSUME NEW m \in Scans, ScanFails(m) PROVE ScansHonest'
  <2>1. \A k \in Scans \ {m} : scan'[k] = scan[k]
    BY <1>7 DEF ScanFails, ScanEnds, TypeOK
  <2>2. scan'[m] = Idle
    BY <1>7 DEF ScanFails, ScanEnds, TypeOK
  <2>3. QED
    BY <2>1, <2>2, ScanMoves
<1>8. ASSUME NEW c \in Completions, Claim(c) \/ GiveUp(c) \/ CompleteAsDuplicate(c) \/
             OpenJournal(c) \/ Save(c) \/ MarkObject(c) \/ InsertRow(c) \/ MarkIndex(c)
             \/ Commit(c) \/ CommitRefused(c) \/ Report(c) \/ Fail(c)
      PROVE  Quiet
  BY <1>8 DEF Claim, GiveUp, CompleteAsDuplicate, OpenJournal, Save, MarkObject,
     InsertRow, MarkIndex, Commit, CommitRefused, Report, Fail, sessionVars, chunkVars,
     requestVars, storeVars
<1>9. ASSUME NEW c \in Completions, NEW answered \in BOOLEAN, UndoObject(c, answered)
             \/ UndoIndex(c, answered)
      PROVE  Quiet
  BY <1>9 DEF UndoObject, UndoIndex, sessionVars, chunkVars, requestVars, storeVars
<1>10. ASSUME NEW u \in Uploads, DeleteExpired(u) \/ RecoverExpired(u) \/ Reserve(u) \/
              Cancel(u) \/ Retry(u) \/ SessionExpires(u)
       PROVE  Quiet
  BY <1>10 DEF DeleteExpired, RecoverExpired, Reserve, Cancel, Retry, SessionExpires,
     sessionVars, chunkVars, requestVars, storeVars
<1>11. ASSUME NEW u \in Uploads, NEW i \in Chunks, BeginChunk(u, i) PROVE Quiet
  BY <1>11 DEF BeginChunk, sessionVars, chunkVars, requestVars, storeVars
<1>12. ASSUME NEW u \in Uploads, NEW i \in Chunks, NEW whole \in BOOLEAN,
              EndChunk(u, i, whole)
       PROVE  Quiet
  BY <1>12 DEF EndChunk, sessionVars, chunkVars, requestVars, storeVars
<1>13. CASE Crash
  BY <1>13, <1>q DEF Crash, ScansHonest, Idle
<1>14. CASE UNCHANGED vars
  BY <1>14, <1>q DEF vars, sessionVars, chunkVars, requestVars, storeVars
<1> HIDE DEF Quiet
<1>15. QED
  BY <1>1, <1>2, <1>3, <1>4, <1>5, <1>6, <1>7, <1>8, <1>9, <1>10, <1>11,
     <1>12, <1>13, <1>14, <1>q DEF Next, Completion, Advance, Maintenance, Resolve,
     Client, Time

(* The rows stay honest when one of them changes.                          *)
LEMMA RowMoves ==
    ASSUME Forward, JournalHonest, NEW c \in Completions,
           \A d \in Completions \ {c} : journal'[d] = journal[d],
           HonestThen(journal'[c], c)
    PROVE  JournalHonest'
<1> SUFFICES ASSUME NEW d \in Completions PROVE HonestThen(journal'[d], d)
  BY DEF JournalHonest, Honest, HonestThen, PastSave, PastInsert
<1>1. QED
  BY HonestForward DEF JournalHonest

(* The maintenance run that holds a row writes what it found.              *)
LEMMA OwnedRow ==
    ASSUME TypeOK, Forward, JournalHonest, NEW m \in Scans, NEW c \in Completions, NEW r,
           UpdateOwned(m, c, r), HonestThen(r, c)
    PROVE  JournalHonest'
<1>1. journal'[c] = r \/ journal'[c] = journal[c]
  BY DEF UpdateOwned, TypeOK
<1>2. \A d \in Completions \ {c} : journal'[d] = journal[d]
  BY DEF UpdateOwned, TypeOK
<1>3. HonestThen(journal[c], c)
  BY HonestForward DEF JournalHonest
<1>4. QED
  BY <1>1, <1>2, <1>3, RowMoves

(* What the notes of a request leave of its journal row.                   *)
LEMMA NotedRow ==
    ASSUME TypeOK, NEW c \in Completions
    PROVE  /\ [journal EXCEPT ![c].path = TRUE, ![c].object = "present"][c].object = "present"
           /\ [journal EXCEPT ![c].path = TRUE, ![c].object = "present"][c].index = journal[c].index
           /\ [journal EXCEPT ![c].path = TRUE, ![c].object = "present"][c].file = journal[c].file
           /\ [journal EXCEPT ![c].path = TRUE, ![c].object = "present"][c].status = journal[c].status
           /\ [journal EXCEPT ![c].file = TRUE, ![c].index = "present"][c].status = journal[c].status
           /\ [journal EXCEPT ![c].file = TRUE, ![c].index = "present"][c].index = "present"
           /\ [journal EXCEPT ![c].file = TRUE, ![c].index = "present"][c].object = journal[c].object
           /\ [journal EXCEPT ![c].file = TRUE, ![c].index = "present"][c].path = journal[c].path
<1>1. journal \in [Completions -> JournalRow]
  BY DEF TypeOK
<1>2. QED
  BY <1>1 DEF JournalRow

(* A request that goes on moves only itself.                               *)
LEMMA MovedRequest ==
    ASSUME TypeOK, NEW c \in Completions, NEW where, Goto(c, where)
    PROVE  pc'[c] = where /\ \A d \in Completions \ {c} : pc'[d] = pc[d]
  BY DEF TypeOK, Goto

(* A row is honest that says deleted only of what is gone for good.        *)
LEMMA CompensatedHonest ==
    ASSUME NEW c \in Completions, NEW r \in JournalRow, HonestThen(r, c),
           NEW x \in States, NEW y \in States,
           x = "deleted" => c \notin object' /\ pc'[c] \notin BeforeSave,
           y = "deleted" => c \notin row' /\ pc'[c] \notin BeforeInsert
    PROVE  HonestThen(Compensated(r, x, y), c)
<1>1. CASE Compensated(r, x, y) = Resolved
  BY <1>1, HonestEmpty
<1>2. CASE Compensated(r, x, y) # Resolved
  <2> DEFINE s == Compensated(r, x, y)
  <2>1. s.object = x /\ s.index = y /\ s.path = r.path /\ s.file = r.file
    BY <1>2, ChangedRows
  <2>2. QED
    BY <2>1 DEF HonestThen
<1>3. QED
  BY <1>1, <1>2

(* Every step keeps the journal honest.                                    *)
LEMMA JournalHonestStep ==
    ASSUME TypeOK, Forward, RequestState, JournalHonest, ScansHonest, [Next]_vars
    PROVE  JournalHonest'
<1> DEFINE Quiet == UNCHANGED journal
<1>q. Quiet => JournalHonest'
  <2> SUFFICES ASSUME Quiet, NEW d \in Completions PROVE HonestThen(journal'[d], d)
    BY DEF JournalHonest, Honest, HonestThen, PastSave, PastInsert
  <2>1. QED
    BY HonestForward DEF JournalHonest
<1>1. ASSUME NEW c \in Completions, OpenJournal(c) PROVE JournalHonest'
  <2>1. \A d \in Completions \ {c} : journal'[d] = journal[d]
    BY <1>1 DEF OpenJournal, TypeOK
  <2>2. journal \in [Completions -> JournalRow] /\ journal[c] \in JournalRow
          /\ HonestThen(journal[c], c)
    BY HonestForward DEF JournalHonest, TypeOK
  <2>3. HonestThen(journal'[c], c)
    BY <1>1, <2>2, HonestEmpty DEF OpenJournal, TypeOK
  <2>4. QED
    BY <2>1, <2>3, RowMoves
<1>2. ASSUME NEW c \in Completions, MarkObject(c) PROVE JournalHonest'
  <2>1. \A d \in Completions \ {c} : journal'[d] = journal[d]
    BY <1>2 DEF MarkObject, TypeOK
  <2>2. journal \in [Completions -> JournalRow] /\ journal[c] \in JournalRow
          /\ HonestThen(journal[c], c)
    BY HonestForward DEF JournalHonest, TypeOK
  <2>3. journal' = journal \/ (journal' = [journal EXCEPT ![c].path = TRUE, ![c].object = "present"] /\ pc'[c] = "marked")
    BY <1>2, MovedRequest DEF MarkObject
  <2>4. \/ journal'[c] = journal[c]
        \/ /\ pc'[c] \notin BeforeSave /\ journal'[c].file = journal[c].file /\ journal'[c].index = journal[c].index /\ journal'[c].object = "present"
    BY <2>2, <2>3, NotedRow DEF BeforeSave
  <2>5. HonestThen(journal'[c], c)
    BY <2>2, <2>4 DEF HonestThen, BeforeSave, BeforeInsert
  <2>6. QED
    BY <2>1, <2>5, RowMoves
<1>3. ASSUME NEW c \in Completions, MarkIndex(c) PROVE JournalHonest'
  <2>1. \A d \in Completions \ {c} : journal'[d] = journal[d]
    BY <1>3 DEF MarkIndex, TypeOK
  <2>2. journal \in [Completions -> JournalRow] /\ journal[c] \in JournalRow
          /\ HonestThen(journal[c], c)
    BY HonestForward DEF JournalHonest, TypeOK
  <2>3. journal' = journal \/ (journal' = [journal EXCEPT ![c].file = TRUE, ![c].index = "present"] /\ pc'[c] = "ready")
    BY <1>3, MovedRequest DEF MarkIndex
  <2>4. \/ journal'[c] = journal[c]
        \/ /\ pc'[c] \notin BeforeInsert /\ journal'[c].path = journal[c].path /\ journal'[c].object = journal[c].object /\ journal'[c].index = "present"
    BY <2>2, <2>3, NotedRow DEF BeforeInsert
  <2>5. HonestThen(journal'[c], c)
    BY <2>2, <2>4 DEF HonestThen, BeforeSave, BeforeInsert
  <2>6. QED
    BY <2>1, <2>5, RowMoves
<1>4. ASSUME NEW c \in Completions, Commit(c) PROVE JournalHonest'
  <2>1. \A d \in Completions \ {c} : journal'[d] = journal[d]
    BY <1>4 DEF Commit, TypeOK
  <2>2. HonestThen(journal'[c], c)
    BY <1>4, HonestEmpty DEF Commit, TypeOK
  <2>3. QED
    BY <2>1, <2>2, RowMoves
<1>5. ASSUME NEW c \in Completions, Report(c) PROVE JournalHonest'
  <2>1. \A d \in Completions \ {c} : journal'[d] = journal[d]
    BY <1>5 DEF Report, TypeOK
  <2>2. journal \in [Completions -> JournalRow] /\ journal[c] \in JournalRow
          /\ HonestThen(journal[c], c)
    BY HonestForward DEF JournalHonest, TypeOK
  <2>3. pc[c] \in {"report", "uncertain"} /\ pc'[c] = "failing"
          /\ UNCHANGED <<object, row>>
    BY <1>5 DEF Report, Goto, TypeOK, storeVars
  <2>4. evidence[c].object \in States /\ evidence[c].index \in States
    BY DEF TypeOK, Evidence
  <2>5. journal' = journal
            \/ journal' = [journal EXCEPT ![c] = IF pc[c] = "uncertain" THEN Compensated(journal[c], "unknown", "deleted")
            ELSE Compensated(journal[c], evidence[c].object, evidence[c].index)]
    BY <1>5 DEF Report
  <2>6. \/ journal'[c] = journal[c]
        \/ pc[c] = "uncertain" /\ journal'[c] = Compensated(journal[c], "unknown", "deleted")
        \/ pc[c] = "report" /\ journal'[c] = Compensated(journal[c], evidence[c].object, evidence[c].index)
    BY <2>2, <2>3, <2>5
  <2>7. pc[c] = "uncertain" => HonestThen(Compensated(journal[c], "unknown", "deleted"), c)
    BY <2>2, <2>3, CompensatedHonest DEF States, RequestState, RequestOf, BeforeSave,
       BeforeInsert
  <2>8. pc[c] = "report" => HonestThen(Compensated(journal[c], evidence[c].object, evidence[c].index), c)
    BY <2>2, <2>3, <2>4, CompensatedHonest DEF RequestState, RequestOf, BeforeSave,
       BeforeInsert
  <2>9. QED
    BY <2>1, <2>2, <2>6, <2>7, <2>8, RowMoves
<1>6. ASSUME NEW m \in Scans, NEW c \in Completions, ClaimRow(m, c) PROVE JournalHonest'
  <2>1. \A d \in Completions \ {c} : journal'[d] = journal[d]
    BY <1>6 DEF ClaimRow, TypeOK
  <2>2. journal \in [Completions -> JournalRow] /\ journal[c] \in JournalRow
          /\ HonestThen(journal[c], c)
    BY HonestForward DEF JournalHonest, TypeOK
  <2>3. journal'[c] = [journal[c] EXCEPT !.holder = m]
    BY <1>6 DEF ClaimRow, TypeOK
  <2>4. \A r \in JournalRow : LET s == [r EXCEPT !.holder = m] IN s.object = r.object
          /\ s.index = r.index /\ s.path = r.path /\ s.file = r.file
    BY DEF JournalRow
  <2>5. HonestThen([journal[c] EXCEPT !.holder = m], c)
    BY <2>2, <2>4, HonestRows
  <2>6. QED
    BY <2>1, <2>3, <2>5, RowMoves
<1>7. ASSUME NEW m \in Scans, Judge(m) PROVE JournalHonest'
  <2>1. scan[m] # Idle
    BY <1>7 DEF Judge, Idle
  <2>2. scan[m].row \in Completions
    BY <2>1, ScanStays
  <2>3. journal[scan[m].row] \in JournalRow
          /\ HonestThen(journal[scan[m].row], scan[m].row)
    BY <2>2, HonestForward DEF JournalHonest, TypeOK
  <2>4. Released(journal[scan[m].row]) \in JournalRow
          /\ HonestThen(Released(journal[scan[m].row]), scan[m].row)
    BY <2>2, <2>3, ChangedRows, ChangedRowTypes, HonestRows DEF States
  <2>5. HonestThen([Released(journal[scan[m].row]) EXCEPT !.operator = TRUE], scan[m].row)
    BY <2>2, <2>4, ChangedRows, HonestRows DEF States
  <2>6. \/ UpdateOwned(m, scan[m].row, Resolved)
        \/ UpdateOwned(m, scan[m].row, [Released(journal[scan[m].row]) EXCEPT !.operator = TRUE])
        \/ UNCHANGED journal
    BY <1>7 DEF Judge, KeepLease
  <2>7. QED
    BY <2>2, <2>5, <2>6, HonestEmpty, OwnedRow, <1>q
<1>8. ASSUME NEW m \in Scans, ScanReport(m) PROVE JournalHonest'
  <2>1. scan[m] # Idle
    BY <1>8 DEF ScanReport, Idle
  <2>2. scan[m].row \in Completions /\ scan[m].object \in States
          /\ scan[m].index \in States
    BY <2>1, ScanStays DEF Reading
  <2>3. journal[scan[m].row] \in JournalRow
          /\ HonestThen(journal[scan[m].row], scan[m].row)
    BY <2>2, HonestForward DEF JournalHonest, TypeOK
  <2>4. HonestThen(Compensated(journal[scan[m].row], scan[m].object, scan[m].index), scan[m].row)
    BY <2>1, <2>2, <2>3, ScanStays, CompensatedHonest DEF HonestThen
  <2>5. Compensated(journal[scan[m].row], scan[m].object, scan[m].index) \in JournalRow
    BY <2>2, <2>3, ChangedRowTypes
  <2>6. \A r \in JournalRow : Released(r).object = r.object
          /\ Released(r).index = r.index /\ Released(r).path = r.path
          /\ Released(r).file = r.file
    BY ChangedRows DEF States
  <2>7. HonestThen(Released(Compensated(journal[scan[m].row], scan[m].object, scan[m].index)), scan[m].row)
    BY <2>2, <2>4, <2>5, <2>6, HonestRows
  <2>8. QED
    BY <1>8, <2>2, <2>7, OwnedRow DEF ScanReport
<1>9. ASSUME NEW u \in Uploads, DeleteExpired(u) PROVE JournalHonest'
  <2>1. \A d \in Completions : journal'[d] = NoJournal \/ journal'[d] = journal[d]
    BY <1>9 DEF DeleteExpired, TypeOK
  <2>2. \A d \in Completions : HonestThen(journal'[d], d)
    BY <2>1, HonestEmpty, HonestForward DEF JournalHonest
  <2>3. QED
    BY <2>2 DEF JournalHonest, Honest, HonestThen, PastSave, PastInsert
<1>10. ASSUME NEW c \in Completions, Claim(c) \/ GiveUp(c) \/ CompleteAsDuplicate(c) \/
              Save(c) \/ InsertRow(c) \/ CommitRefused(c) \/ Fail(c)
       PROVE  Quiet
  BY <1>10 DEF Claim, GiveUp, CompleteAsDuplicate, Save, InsertRow, CommitRefused,
     Fail, KeepLease, sessionVars, chunkVars, requestVars, storeVars
<1>11. ASSUME NEW c \in Completions, NEW answered \in BOOLEAN, UndoObject(c, answered)
              \/ UndoIndex(c, answered)
       PROVE  Quiet
  BY <1>11 DEF UndoObject, UndoIndex, KeepLease, sessionVars, chunkVars, requestVars,
     storeVars
<1>12. ASSUME NEW m \in Scans, NEW answered \in BOOLEAN, ScanObject(m, answered) \/
              ScanIndex(m, answered)
       PROVE  Quiet
  BY <1>12 DEF ScanObject, ScanIndex, KeepLease, sessionVars, chunkVars, requestVars,
     storeVars
<1>13. ASSUME NEW m \in Scans, Recheck(m) \/ ScanFails(m) PROVE Quiet
  BY <1>13 DEF Recheck, ScanFails, KeepLease, sessionVars, chunkVars, requestVars,
     storeVars
<1>14. ASSUME NEW u \in Uploads, RecoverExpired(u) \/ Reserve(u) \/ Cancel(u) \/
              Retry(u) \/ SessionExpires(u)
       PROVE  Quiet
  BY <1>14 DEF RecoverExpired, Reserve, Cancel, Retry, SessionExpires, KeepLease,
     sessionVars, chunkVars, requestVars, storeVars
<1>15. ASSUME NEW u \in Uploads, NEW i \in Chunks, BeginChunk(u, i) PROVE Quiet
  BY <1>15 DEF BeginChunk, KeepLease, sessionVars, chunkVars, requestVars, storeVars
<1>16. ASSUME NEW u \in Uploads, NEW i \in Chunks, NEW whole \in BOOLEAN,
              EndChunk(u, i, whole)
       PROVE  Quiet
  BY <1>16 DEF EndChunk, KeepLease, sessionVars, chunkVars, requestVars, storeVars
<1>17. CASE Crash
  BY <1>17, <1>q DEF Crash, storeVars
<1>18. CASE UNCHANGED vars
  BY <1>18, <1>q DEF vars, KeepLease, sessionVars, chunkVars, requestVars, storeVars
<1> HIDE DEF Quiet
<1>19. QED
  BY <1>1, <1>2, <1>3, <1>4, <1>5, <1>6, <1>7, <1>8, <1>9, <1>10, <1>11,
     <1>12, <1>13, <1>14, <1>15, <1>16, <1>17, <1>18, <1>q DEF Next, Completion,
     Advance, Maintenance, Resolve, Client, Time

(* Only the rows of one request change, and rightly.                       *)
LEMMA RowResolved ==
    ASSUME NEW c \in Completions, \A d \in Completions \ {c} : journal'[d] = journal[d],
           Pending(c) => \/ journal'[c].status = "pending"
                         \/ Committed(c)
                         \/ Committed(c)'
                         \/ PastInsert(c) /\ c \notin object' \cup row'
    PROVE  ResolvedRightly
  BY DEF ResolvedRightly, Pending

(* A run that holds a row resolves it only when it may.                    *)
LEMMA OwnedResolved ==
    ASSUME TypeOK, NEW m \in Scans, NEW c \in Completions, NEW r, UpdateOwned(m, c, r),
           Pending(c) => \/ r.status = "pending"
                         \/ Committed(c)
                         \/ PastInsert(c) /\ c \notin object' \cup row'
    PROVE  ResolvedRightly
<1>1. journal'[c] = r \/ journal'[c] = journal[c]
  BY DEF UpdateOwned, TypeOK
<1>2. \A d \in Completions \ {c} : journal'[d] = journal[d]
  BY DEF UpdateOwned, TypeOK
<1>3. QED
  BY <1>1, <1>2, RowResolved DEF Pending

(* Every step resolves pending rows rightly.                               *)
LEMMA ResolvedStep ==
    ASSUME TypeOK, Forward, RequestState, ScansHonest, [Next]_vars
    PROVE  ResolvedRightly
<1> DEFINE Quiet == UNCHANGED journal
<1>q. Quiet => ResolvedRightly
  BY DEF ResolvedRightly, Pending
<1>1. ASSUME NEW c \in Completions, OpenJournal(c) PROVE ResolvedRightly
  <2>1. \A d \in Completions \ {c} : journal'[d] = journal[d]
    BY <1>1 DEF OpenJournal, TypeOK
  <2>2. journal'[c] = journal[c] \/ journal'[c] = [NoJournal EXCEPT !.status = "pending"]
    BY <1>1 DEF OpenJournal, TypeOK
  <2>3. [NoJournal EXCEPT !.status = "pending"].status = "pending"
    BY DEF NoJournal
  <2>4. QED
    BY <2>1, <2>2, <2>3, RowResolved DEF Pending
<1>2. ASSUME NEW c \in Completions, MarkObject(c) PROVE ResolvedRightly
  <2>1. \A d \in Completions \ {c} : journal'[d] = journal[d]
    BY <1>2 DEF MarkObject, TypeOK
  <2>2. journal' = journal \/ journal' = [journal EXCEPT ![c].path = TRUE, ![c].object = "present"]
    BY <1>2 DEF MarkObject
  <2>3. journal'[c].status = journal[c].status
    BY <2>2, NotedRow
  <2>4. QED
    BY <2>1, <2>3, RowResolved DEF Pending
<1>3. ASSUME NEW c \in Completions, MarkIndex(c) PROVE ResolvedRightly
  <2>1. \A d \in Completions \ {c} : journal'[d] = journal[d]
    BY <1>3 DEF MarkIndex, TypeOK
  <2>2. journal' = journal \/ journal' = [journal EXCEPT ![c].file = TRUE, ![c].index = "present"]
    BY <1>3 DEF MarkIndex
  <2>3. journal'[c].status = journal[c].status
    BY <2>2, NotedRow
  <2>4. QED
    BY <2>1, <2>3, RowResolved DEF Pending
<1>4. ASSUME NEW c \in Completions, Commit(c) PROVE ResolvedRightly
  <2>1. \A d \in Completions \ {c} : journal'[d] = journal[d]
    BY <1>4 DEF Commit, TypeOK
  <2>2. Committed(c)'
    BY <1>4, ChunkAssumption DEF Commit, Committed, TypeOK
  <2>3. QED
    BY <2>1, <2>2, RowResolved
<1>5. ASSUME NEW c \in Completions, Report(c) PROVE ResolvedRightly
  <2>1. \A d \in Completions \ {c} : journal'[d] = journal[d]
    BY <1>5 DEF Report, TypeOK
  <2>2. journal \in [Completions -> JournalRow] /\ journal[c] \in JournalRow
    BY DEF TypeOK
  <2>3. pc[c] \in {"report", "uncertain"} /\ UNCHANGED <<object, row>>
    BY <1>5 DEF Report, storeVars
  <2>4. evidence[c].object \in States /\ evidence[c].index \in States
    BY DEF TypeOK, Evidence
  <2>5. journal' = journal
            \/ journal' = [journal EXCEPT ![c] = IF pc[c] = "uncertain" THEN Compensated(journal[c], "unknown", "deleted")
            ELSE Compensated(journal[c], evidence[c].object, evidence[c].index)]
    BY <1>5 DEF Report
  <2>6. \/ journal'[c] = journal[c]
        \/ pc[c] = "uncertain" /\ journal'[c] = Compensated(journal[c], "unknown", "deleted")
        \/ pc[c] = "report" /\ journal'[c] = Compensated(journal[c], evidence[c].object, evidence[c].index)
    BY <2>2, <2>3, <2>5
  <2>7. Pending(c) => Compensated(journal[c], "unknown", "deleted").status = "pending"
    BY <2>2, ChangedRows DEF Pending, States
  <2>8. Pending(c) /\ pc[c] = "report" => \/ Compensated(journal[c], evidence[c].object, evidence[c].index).status = "pending"
                                          \/ c \notin object \cup row
    BY <2>2, <2>4, ChangedRows DEF Pending, RequestState, RequestOf
  <2>9. QED
    BY <2>1, <2>3, <2>6, <2>7, <2>8, RowResolved DEF Pending, PastInsert, BeforeInsert
<1>6. ASSUME NEW m \in Scans, NEW c \in Completions, ClaimRow(m, c)
      PROVE  ResolvedRightly
  <2>1. \A d \in Completions \ {c} : journal'[d] = journal[d]
    BY <1>6 DEF ClaimRow, TypeOK
  <2>2. journal \in [Completions -> JournalRow] /\ journal[c] \in JournalRow
    BY DEF TypeOK
  <2>3. journal'[c] = [journal[c] EXCEPT !.holder = m]
    BY <1>6 DEF ClaimRow, TypeOK
  <2>4. \A r \in JournalRow : [r EXCEPT !.holder = m].status = r.status
    BY DEF JournalRow
  <2>5. QED
    BY <2>1, <2>2, <2>3, <2>4, RowResolved DEF Pending
<1>7. ASSUME NEW m \in Scans, Judge(m) PROVE ResolvedRightly
  <2>1. scan[m] # Idle
    BY <1>7 DEF Judge, Idle
  <2>2. scan[m].row \in Completions /\ (scan[m].completed => Committed(scan[m].row))
    BY <2>1, ScanStays
  <2>3. journal[scan[m].row] \in JournalRow
          /\ Released(journal[scan[m].row]) \in JournalRow
    BY <2>2, ChangedRowTypes DEF TypeOK
  <2>4. [Released(journal[scan[m].row]) EXCEPT !.operator = TRUE].status = journal[scan[m].row].status
    BY <2>3, ChangedRows DEF States
  <2>5. \/ scan[m].completed /\ UpdateOwned(m, scan[m].row, Resolved)
        \/ UpdateOwned(m, scan[m].row, [Released(journal[scan[m].row]) EXCEPT !.operator = TRUE])
        \/ UNCHANGED journal
    BY <1>7 DEF Judge, KeepLease
  <2>6. QED
    BY <2>2, <2>4, <2>5, OwnedResolved, <1>q DEF Pending
<1>8. ASSUME NEW m \in Scans, ScanReport(m) PROVE ResolvedRightly
  <2>1. scan[m] # Idle
    BY <1>8 DEF ScanReport, Idle
  <2>2. scan[m].row \in Completions /\ scan[m].object \in States
          /\ scan[m].index \in States
    BY <2>1, ScanStays DEF Reading
  <2>3. journal[scan[m].row] \in JournalRow
          /\ Compensated(journal[scan[m].row], scan[m].object, scan[m].index) \in JournalRow
    BY <2>2, ChangedRowTypes DEF TypeOK
  <2>4. Pending(scan[m].row) => \/ Compensated(journal[scan[m].row], scan[m].object, scan[m].index).status = "pending"
                                \/ scan[m].object = "deleted" /\ scan[m].index = "deleted"
    BY <2>2, <2>3, ChangedRows DEF Pending
  <2>5. \A r \in JournalRow : Released(r).status = r.status
    BY ChangedRows DEF States
  <2>6. scan[m].object = "deleted"
          /\ scan[m].index = "deleted" => PastInsert(scan[m].row)
          /\ scan[m].row \notin object' \cup row'
    BY <1>8, <2>1, ScanStays DEF Honest, ScanReport, storeVars
  <2>7. UpdateOwned(m, scan[m].row, Released(Compensated(journal[scan[m].row], scan[m].object, scan[m].index)))
    BY <1>8 DEF ScanReport
  <2>8. QED
    BY <2>2, <2>3, <2>4, <2>5, <2>6, <2>7, OwnedResolved
<1>9. ASSUME NEW u \in Uploads, DeleteExpired(u) PROVE ResolvedRightly
  <2>1. \A d \in Completions : Pending(d) => journal'[d] = journal[d]
    BY <1>9 DEF DeleteExpired, PendingFor, TypeOK
  <2>2. QED
    BY <2>1 DEF ResolvedRightly, Pending
<1>10. ASSUME NEW c \in Completions, Claim(c) \/ GiveUp(c) \/ CompleteAsDuplicate(c) \/
              Save(c) \/ InsertRow(c) \/ CommitRefused(c) \/ Fail(c)
       PROVE  Quiet
  BY <1>10 DEF Claim, GiveUp, CompleteAsDuplicate, Save, InsertRow, CommitRefused,
     Fail, KeepLease, sessionVars, chunkVars, requestVars, storeVars
<1>11. ASSUME NEW c \in Completions, NEW answered \in BOOLEAN, UndoObject(c, answered)
              \/ UndoIndex(c, answered)
       PROVE  Quiet
  BY <1>11 DEF UndoObject, UndoIndex, KeepLease, sessionVars, chunkVars, requestVars,
     storeVars
<1>12. ASSUME NEW m \in Scans, NEW answered \in BOOLEAN, ScanObject(m, answered) \/
              ScanIndex(m, answered)
       PROVE  Quiet
  BY <1>12 DEF ScanObject, ScanIndex, KeepLease, sessionVars, chunkVars, requestVars,
     storeVars
<1>13. ASSUME NEW m \in Scans, Recheck(m) \/ ScanFails(m) PROVE Quiet
  BY <1>13 DEF Recheck, ScanFails, KeepLease, sessionVars, chunkVars, requestVars,
     storeVars
<1>14. ASSUME NEW u \in Uploads, RecoverExpired(u) \/ Reserve(u) \/ Cancel(u) \/
              Retry(u) \/ SessionExpires(u)
       PROVE  Quiet
  BY <1>14 DEF RecoverExpired, Reserve, Cancel, Retry, SessionExpires, KeepLease,
     sessionVars, chunkVars, requestVars, storeVars
<1>15. ASSUME NEW u \in Uploads, NEW i \in Chunks, BeginChunk(u, i) PROVE Quiet
  BY <1>15 DEF BeginChunk, KeepLease, sessionVars, chunkVars, requestVars, storeVars
<1>16. ASSUME NEW u \in Uploads, NEW i \in Chunks, NEW whole \in BOOLEAN,
              EndChunk(u, i, whole)
       PROVE  Quiet
  BY <1>16 DEF EndChunk, KeepLease, sessionVars, chunkVars, requestVars, storeVars
<1>17. CASE Crash
  BY <1>17, <1>q DEF Crash, storeVars
<1>18. CASE UNCHANGED vars
  BY <1>18, <1>q DEF vars, KeepLease, sessionVars, chunkVars, requestVars, storeVars
<1> HIDE DEF Quiet
<1>19. QED
  BY <1>1, <1>2, <1>3, <1>4, <1>5, <1>6, <1>7, <1>8, <1>9, <1>10, <1>11,
     <1>12, <1>13, <1>14, <1>15, <1>16, <1>17, <1>18, <1>q DEF Next, Completion,
     Advance, Maintenance, Resolve, Client, Time

(* An upload is committed only by a request that ends.                     *)
LEMMA CommittedBack ==
    ASSUME TypeOK, [Next]_vars
    PROVE  \A d \in Completions : CommittedThen(d) => Committed(d) \/ pc'[d] = "done"
<1> DEFINE Back == \A d \in Completions : CommittedThen(d) => Committed(d) \/ pc'[d] = "done"
<1> DEFINE Quiet == UNCHANGED <<status, file>>
<1>q. Quiet => Back
  BY DEF CommittedThen, Committed
<1> SUFFICES Back
  OBVIOUS
<1>t. /\ status \in [Uploads -> {"none", "open", "completing", "completed",
                                 "cancelled", "failed", "deleted"}]
      /\ file \in [Uploads -> Completions \cup {NoOne, Duplicate}]
      /\ pc \in [Completions -> Where]
  BY DEF TypeOK
<1> USE <1>t, ChunkAssumption DEF CommittedThen, Committed
<1>1. ASSUME NEW c \in Completions, Claim(c) PROVE Back
  BY <1>1 DEF Claim
<1>2. ASSUME NEW c \in Completions, CompleteAsDuplicate(c) PROVE Back
  BY <1>2 DEF CompleteAsDuplicate
<1>3. ASSUME NEW c \in Completions, Commit(c) PROVE Back
  BY <1>3 DEF Commit, Goto
<1>4. ASSUME NEW c \in Completions, Fail(c) PROVE Back
  BY <1>4 DEF Fail, Holds
<1>5. ASSUME NEW u \in Uploads, DeleteExpired(u) PROVE Back
  BY <1>5 DEF DeleteExpired
<1>6. ASSUME NEW u \in Uploads, RecoverExpired(u) PROVE Back
  BY <1>6 DEF RecoverExpired
<1>7. ASSUME NEW u \in Uploads, Reserve(u) PROVE Back
  BY <1>7 DEF Reserve
<1>8. ASSUME NEW u \in Uploads, Cancel(u) PROVE Back
  BY <1>8 DEF Cancel
<1>9. ASSUME NEW u \in Uploads, Retry(u) PROVE Back
  BY <1>9 DEF Retry
<1>10. ASSUME NEW c \in Completions, GiveUp(c) \/ OpenJournal(c) \/ Save(c) \/
              MarkObject(c) \/ InsertRow(c) \/ MarkIndex(c) \/ CommitRefused(c) \/
              Report(c)
       PROVE  Quiet
  BY <1>10 DEF GiveUp, OpenJournal, Save, MarkObject, InsertRow, MarkIndex,
     CommitRefused, Report, sessionVars, chunkVars, requestVars, storeVars
<1>11. ASSUME NEW c \in Completions, NEW answered \in BOOLEAN, UndoObject(c, answered)
              \/ UndoIndex(c, answered)
       PROVE  Quiet
  BY <1>11 DEF UndoObject, UndoIndex, sessionVars, chunkVars, requestVars, storeVars
<1>12. ASSUME NEW m \in Scans, NEW c \in Completions, ClaimRow(m, c) PROVE Quiet
  BY <1>12 DEF ClaimRow, sessionVars, chunkVars, requestVars, storeVars
<1>13. ASSUME NEW m \in Scans, Judge(m) \/ Recheck(m) \/ ScanReport(m) \/ ScanFails(m)
       PROVE  Quiet
  BY <1>13 DEF Judge, Recheck, ScanReport, ScanFails, sessionVars, chunkVars,
     requestVars, storeVars
<1>14. ASSUME NEW m \in Scans, NEW answered \in BOOLEAN, ScanObject(m, answered) \/
              ScanIndex(m, answered)
       PROVE  Quiet
  BY <1>14 DEF ScanObject, ScanIndex, sessionVars, chunkVars, requestVars, storeVars
<1>15. ASSUME NEW u \in Uploads, NEW i \in Chunks, BeginChunk(u, i) PROVE Quiet
  BY <1>15 DEF BeginChunk, sessionVars, chunkVars, requestVars, storeVars
<1>16. ASSUME NEW u \in Uploads, NEW i \in Chunks, NEW whole \in BOOLEAN,
              EndChunk(u, i, whole)
       PROVE  Quiet
  BY <1>16 DEF EndChunk, sessionVars, chunkVars, requestVars, storeVars
<1>17. ASSUME NEW u \in Uploads, SessionExpires(u) PROVE Quiet
  BY <1>17 DEF SessionExpires, sessionVars, chunkVars, requestVars, storeVars
<1>18. CASE Crash
  BY <1>18, <1>q DEF Crash, sessionVars
<1>19. CASE UNCHANGED vars
  BY <1>19, <1>q DEF vars, sessionVars, chunkVars, requestVars, storeVars
<1> HIDE <1>t, ChunkAssumption DEF Quiet, Back, CommittedThen, Committed
<1>20. QED
  BY <1>1, <1>2, <1>3, <1>4, <1>5, <1>6, <1>7, <1>8, <1>9, <1>10, <1>11,
     <1>12, <1>13, <1>14, <1>15, <1>16, <1>17, <1>18, <1>19, <1>q DEF Next, Completion,
     Advance, Maintenance, Resolve, Client, Time

(* A request that is left alone.                                           *)
Alone(d) ==
    /\ pc'[d] = pc[d] /\ evidence'[d] = evidence[d]
    /\ d \in object' => d \in object
    /\ d \in row' => d \in row

(* The state of a request that is left alone stays as the invariant says.  *)
LEMMA RequestAlone ==
    ASSUME Forward, ResolvedRightly, RequestState, NEW d \in Completions, Alone(d),
           CommittedThen(d) => Committed(d) \/ pc'[d] = "done"
    PROVE  RequestOf(d)'
<1> USE DEF Alone
<1>1. RequestOf(d)
  BY DEF RequestState
<1>2. CommittedThen(d) => pc[d] = "done"
  BY <1>1 DEF RequestOf
<1>3. pc[d] \in {"journaled", "saved", "marked"} => Pending(d)'
  BY <1>1, <1>2 DEF RequestOf, ResolvedRightly, Committed, CommittedThen, PastInsert, BeforeInsert
<1>4. QED
  BY <1>1, <1>2, <1>3 DEF RequestOf, PastSave, PastInsert, Committed, CommittedThen

(* One request changes and the others are left alone.                      *)
LEMMA RequestMoves ==
    ASSUME Forward, ResolvedRightly, RequestState, NEW c \in Completions,
           \A d \in Completions : CommittedThen(d) => Committed(d) \/ pc'[d] = "done",
           \A d \in Completions \ {c} : Alone(d),
           RequestOf(c)'
    PROVE  RequestState'
  BY RequestAlone DEF RequestState

(* What a request that goes on must show of its new state.                 *)
LEMMA RequestGoes ==
    ASSUME Forward, ResolvedRightly, RequestState, NEW c \in Completions,
           \A d \in Completions : CommittedThen(d) => Committed(d) \/ pc'[d] = "done",
           \A d \in Completions \ {c} : Alone(d),
           pc[c] # "done",
           pc'[c] \in BeforeSave => c \notin object',
           pc'[c] = "uncertain" \/ pc'[c] \in BeforeInsert => c \notin row',
           pc'[c] \in {"journaled", "saved", "marked"} => Pending(c)',
           pc'[c] \in {"inserted", "ready"} => evidence'[c].index = "present",
           pc'[c] \in {"undoObject", "undoIndex"} /\ c \in row' => evidence'[c].index = "present",
           pc'[c] = "report" /\ evidence'[c].index = "deleted" => c \notin row',
           evidence'[c].object = "deleted" => c \notin object' /\ pc'[c] \notin BeforeSave
    PROVE  RequestState'
<1>1. CommittedThen(c) => pc'[c] = "done"
  BY DEF RequestState, RequestOf
<1>2. RequestOf(c)'
  BY <1>1 DEF RequestOf, PastSave, PastInsert, Committed, CommittedThen
<1>3. QED
  BY <1>2, RequestMoves

(* Every step keeps what the invariant says of the requests.               *)
LEMMA RequestStep ==
    ASSUME TypeOK, Forward, ResolvedRightly, RequestState, [Next]_vars
    PROVE  RequestState'
<1> DEFINE Quiet == UNCHANGED <<pc, evidence, object, row>>
<1>q. (\A d \in Completions : Alone(d)) => RequestState'
  BY RequestAlone, CommittedBack DEF RequestState
<1>r. Quiet => \A d \in Completions : Alone(d)
  BY DEF Alone
<1>1. ASSUME NEW c \in Completions, Claim(c) PROVE RequestState'
  <2>1. pc[c] \in {"idle"} /\ pc'[c] \in {"claimed"} /\ RequestOf(c)
    BY <1>1, MovedRequest DEF Claim, RequestState
  <2>2. \A d \in Completions \ {c} : Alone(d)
    BY <1>1, MovedRequest DEF Claim, Alone, requestVars, storeVars, TypeOK
  <2>3. UNCHANGED <<evidence, object, row>>
    BY <1>1 DEF Claim, requestVars, storeVars
  <2>4. QED
    BY <2>1, <2>2, <2>3, CommittedBack, RequestGoes DEF RequestOf, PastSave,
       PastInsert, BeforeSave, BeforeInsert
<1>2. ASSUME NEW c \in Completions, GiveUp(c) PROVE RequestState'
  <2>1. pc[c] \in {"claimed"} /\ pc'[c] \in {"failing"} /\ RequestOf(c)
    BY <1>2, MovedRequest DEF GiveUp, RequestState
  <2>2. \A d \in Completions \ {c} : Alone(d)
    BY <1>2, MovedRequest DEF GiveUp, Alone, requestVars, storeVars, TypeOK
  <2>3. UNCHANGED <<evidence, object, row>>
    BY <1>2 DEF GiveUp, requestVars, storeVars
  <2>4. QED
    BY <2>1, <2>2, <2>3, CommittedBack, RequestGoes DEF RequestOf, PastSave,
       PastInsert, BeforeSave, BeforeInsert
<1>3. ASSUME NEW c \in Completions, CompleteAsDuplicate(c) PROVE RequestState'
  <2>1. pc[c] \in {"claimed"} /\ pc'[c] \in {"done", "failing"} /\ RequestOf(c)
    BY <1>3, MovedRequest DEF CompleteAsDuplicate, RequestState
  <2>2. \A d \in Completions \ {c} : Alone(d)
    BY <1>3, MovedRequest DEF CompleteAsDuplicate, Alone, requestVars, storeVars,
       TypeOK
  <2>3. UNCHANGED <<evidence, object, row>>
    BY <1>3 DEF CompleteAsDuplicate, requestVars, storeVars
  <2>4. QED
    BY <2>1, <2>2, <2>3, CommittedBack, RequestGoes DEF RequestOf, PastSave,
       PastInsert, BeforeSave, BeforeInsert
<1>4. ASSUME NEW c \in Completions, OpenJournal(c) PROVE RequestState'
  <2>1. pc[c] \in {"claimed"} /\ pc'[c] \in {"journaled", "failing"} /\ RequestOf(c)
    BY <1>4, MovedRequest DEF OpenJournal, RequestState
  <2>2. \A d \in Completions \ {c} : Alone(d)
    BY <1>4, MovedRequest DEF OpenJournal, Alone, requestVars, storeVars, TypeOK
  <2>3. UNCHANGED <<evidence, object, row>>
    BY <1>4 DEF OpenJournal, requestVars, storeVars
  <2>4. pc'[c] = "journaled" => journal'[c] = [NoJournal EXCEPT !.status = "pending"]
    BY <1>4, MovedRequest DEF OpenJournal, TypeOK
  <2>5. pc'[c] = "journaled" => Pending(c)'
    BY <2>4 DEF Pending, NoJournal
  <2>6. QED
    BY <2>1, <2>2, <2>3, <2>4, <2>5, CommittedBack, RequestGoes DEF RequestOf,
       PastSave, PastInsert, BeforeSave, BeforeInsert
<1>5. ASSUME NEW c \in Completions, Save(c) PROVE RequestState'
  <2>1. pc[c] \in {"journaled"} /\ pc'[c] \in {"saved", "uncertain"} /\ RequestOf(c)
    BY <1>5, MovedRequest DEF Save, RequestState
  <2>2. \A d \in Completions \ {c} : Alone(d)
    BY <1>5, MovedRequest DEF Save, Alone, requestVars, storeVars, TypeOK
  <2>3. UNCHANGED <<evidence, row>>
    BY <1>5 DEF Save, requestVars, storeVars
  <2>4. Pending(c)'
    BY <2>1, CommittedBack DEF RequestOf, ResolvedRightly, Committed, CommittedThen,
       PastInsert, BeforeInsert
  <2>5. QED
    BY <2>1, <2>2, <2>3, <2>4, CommittedBack, RequestGoes DEF RequestOf, PastSave,
       PastInsert, BeforeSave, BeforeInsert
<1>6. ASSUME NEW c \in Completions, MarkObject(c) PROVE RequestState'
  <2>1. pc[c] \in {"saved"} /\ pc'[c] \in {"marked", "undoObject"} /\ RequestOf(c)
    BY <1>6, MovedRequest DEF MarkObject, RequestState
  <2>2. \A d \in Completions \ {c} : Alone(d)
    BY <1>6, MovedRequest DEF MarkObject, Alone, requestVars, storeVars, TypeOK
  <2>3. UNCHANGED <<evidence, object, row>>
    BY <1>6 DEF MarkObject, requestVars, storeVars
  <2>4. Pending(c)'
    BY <2>1, CommittedBack DEF RequestOf, ResolvedRightly, Committed, CommittedThen,
       PastInsert, BeforeInsert
  <2>5. QED
    BY <2>1, <2>2, <2>3, <2>4, CommittedBack, RequestGoes DEF RequestOf, PastSave,
       PastInsert, BeforeSave, BeforeInsert
<1>7. ASSUME NEW c \in Completions, InsertRow(c) PROVE RequestState'
  <2>1. pc[c] \in {"marked"} /\ pc'[c] \in {"inserted", "undoObject"} /\ RequestOf(c)
    BY <1>7, MovedRequest DEF InsertRow, RequestState
  <2>2. \A d \in Completions \ {c} : Alone(d)
    BY <1>7, MovedRequest DEF InsertRow, Alone, requestVars, storeVars, TypeOK
  <2>3. UNCHANGED object
    BY <1>7 DEF InsertRow
  <2>4. \/ UNCHANGED <<row, evidence>> /\ pc'[c] = "undoObject"
        \/ pc'[c] = "inserted" /\ evidence' = [evidence EXCEPT ![c].index = "present"]
    BY <1>7, MovedRequest DEF InsertRow
  <2>5. evidence \in [Completions -> Evidence]
    BY DEF TypeOK
  <2>6. pc'[c] = "inserted" => evidence'[c].index = "present"
          /\ evidence'[c].object = evidence[c].object
    BY <2>4, <2>5 DEF Evidence
  <2>7. QED
    BY <2>1, <2>2, <2>3, <2>4, <2>5, <2>6, CommittedBack, RequestGoes DEF RequestOf,
       PastSave, PastInsert, BeforeSave, BeforeInsert
<1>8. ASSUME NEW c \in Completions, MarkIndex(c) PROVE RequestState'
  <2>1. pc[c] \in {"inserted"} /\ pc'[c] \in {"ready", "undoObject"} /\ RequestOf(c)
    BY <1>8, MovedRequest DEF MarkIndex, RequestState
  <2>2. \A d \in Completions \ {c} : Alone(d)
    BY <1>8, MovedRequest DEF MarkIndex, Alone, requestVars, storeVars, TypeOK
  <2>3. UNCHANGED <<evidence, object, row>>
    BY <1>8 DEF MarkIndex, requestVars, storeVars
  <2>4. QED
    BY <2>1, <2>2, <2>3, CommittedBack, RequestGoes DEF RequestOf, PastSave,
       PastInsert, BeforeSave, BeforeInsert
<1>9. ASSUME NEW c \in Completions, Commit(c) PROVE RequestState'
  <2>1. pc[c] \in {"ready"} /\ pc'[c] \in {"done"} /\ RequestOf(c)
    BY <1>9, MovedRequest DEF Commit, RequestState
  <2>2. \A d \in Completions \ {c} : Alone(d)
    BY <1>9, MovedRequest DEF Commit, Alone, requestVars, storeVars, TypeOK
  <2>3. UNCHANGED <<evidence, object, row>>
    BY <1>9 DEF Commit, requestVars, storeVars
  <2>4. QED
    BY <2>1, <2>2, <2>3, CommittedBack, RequestGoes DEF RequestOf, PastSave,
       PastInsert, BeforeSave, BeforeInsert
<1>10. ASSUME NEW c \in Completions, CommitRefused(c) PROVE RequestState'
  <2>1. pc[c] \in {"ready"} /\ pc'[c] \in {"undoObject"} /\ RequestOf(c)
    BY <1>10, MovedRequest DEF CommitRefused, RequestState
  <2>2. \A d \in Completions \ {c} : Alone(d)
    BY <1>10, MovedRequest DEF CommitRefused, Alone, requestVars, storeVars, TypeOK
  <2>3. UNCHANGED <<evidence, object, row>>
    BY <1>10 DEF CommitRefused, requestVars, storeVars
  <2>4. QED
    BY <2>1, <2>2, <2>3, CommittedBack, RequestGoes DEF RequestOf, PastSave,
       PastInsert, BeforeSave, BeforeInsert
<1>11. ASSUME NEW c \in Completions, NEW answered \in BOOLEAN, UndoObject(c, answered)
       PROVE  RequestState'
  <2>1. pc[c] \in {"undoObject"} /\ pc'[c] \in {"undoIndex"} /\ RequestOf(c)
    BY <1>11, MovedRequest DEF UndoObject, RequestState
  <2>2. \A d \in Completions \ {c} : Alone(d)
    BY <1>11, MovedRequest DEF UndoObject, Alone, requestVars, storeVars, TypeOK
  <2>3. UNCHANGED row /\ evidence'[c].index = evidence[c].index
    BY <1>11 DEF UndoObject, TypeOK, Evidence
  <2>4. evidence'[c].object = "deleted" => c \notin object'
    BY <1>11 DEF UndoObject, TypeOK, Evidence
  <2>5. QED
    BY <2>1, <2>2, <2>3, <2>4, CommittedBack, RequestGoes DEF RequestOf, PastSave,
       PastInsert, BeforeSave, BeforeInsert
<1>12. ASSUME NEW c \in Completions, NEW answered \in BOOLEAN, UndoIndex(c, answered)
       PROVE  RequestState'
  <2>1. pc[c] \in {"undoIndex"} /\ pc'[c] \in {"report"} /\ RequestOf(c)
    BY <1>12, MovedRequest DEF UndoIndex, RequestState
  <2>2. \A d \in Completions \ {c} : Alone(d)
    BY <1>12, MovedRequest DEF UndoIndex, Alone, requestVars, storeVars, TypeOK
  <2>3. UNCHANGED object /\ evidence'[c].object = evidence[c].object
    BY <1>12 DEF UndoIndex, TypeOK, Evidence
  <2>4. evidence'[c].index = "deleted" => c \notin row'
    BY <1>12, <2>1 DEF UndoIndex, TypeOK, Evidence, RequestOf
  <2>5. QED
    BY <2>1, <2>2, <2>3, <2>4, CommittedBack, RequestGoes DEF RequestOf, PastSave,
       PastInsert, BeforeSave, BeforeInsert
<1>13. ASSUME NEW c \in Completions, Report(c) PROVE RequestState'
  <2>1. pc[c] \in {"report", "uncertain"} /\ pc'[c] \in {"failing"} /\ RequestOf(c)
    BY <1>13, MovedRequest DEF Report, RequestState
  <2>2. \A d \in Completions \ {c} : Alone(d)
    BY <1>13, MovedRequest DEF Report, Alone, requestVars, storeVars, TypeOK
  <2>3. UNCHANGED <<evidence, object, row>>
    BY <1>13 DEF Report, requestVars, storeVars
  <2>4. QED
    BY <2>1, <2>2, <2>3, CommittedBack, RequestGoes DEF RequestOf, PastSave,
       PastInsert, BeforeSave, BeforeInsert
<1>14. ASSUME NEW c \in Completions, Fail(c) PROVE RequestState'
  <2>1. pc[c] \in {"failing"} /\ pc'[c] \in {"done"} /\ RequestOf(c)
    BY <1>14, MovedRequest DEF Fail, RequestState
  <2>2. \A d \in Completions \ {c} : Alone(d)
    BY <1>14, MovedRequest DEF Fail, Alone, requestVars, storeVars, TypeOK
  <2>3. UNCHANGED <<object, row>>
    BY <1>14 DEF Fail, requestVars, storeVars
  <2>4. evidence'[c].object = "unknown"
    BY <1>14 DEF Fail, TypeOK, Unknown
  <2>5. QED
    BY <2>1, <2>2, <2>3, <2>4, CommittedBack, RequestGoes DEF RequestOf, PastSave,
       PastInsert, BeforeSave, BeforeInsert
<1>15. ASSUME NEW m \in Scans, NEW answered \in BOOLEAN, ScanObject(m, answered)
       PROVE  RequestState'
  <2>1. \A d \in Completions : Alone(d)
    BY <1>15 DEF ScanObject, Alone, requestVars, TypeOK
  <2>2. QED
    BY <2>1, <1>q
<1>16. ASSUME NEW m \in Scans, NEW answered \in BOOLEAN, ScanIndex(m, answered)
       PROVE  RequestState'
  <2>1. \A d \in Completions : Alone(d)
    BY <1>16 DEF ScanIndex, Alone, requestVars, TypeOK
  <2>2. QED
    BY <2>1, <1>q
<1>17. ASSUME NEW m \in Scans, NEW c \in Completions, ClaimRow(m, c) PROVE Quiet
  BY <1>17 DEF ClaimRow, sessionVars, chunkVars, requestVars, storeVars
<1>18. ASSUME NEW m \in Scans, Judge(m) \/ Recheck(m) \/ ScanReport(m) \/ ScanFails(m)
       PROVE  Quiet
  BY <1>18 DEF Judge, Recheck, ScanReport, ScanFails, sessionVars, chunkVars,
     requestVars, storeVars
<1>19. ASSUME NEW u \in Uploads, DeleteExpired(u) \/ RecoverExpired(u) \/ Reserve(u) \/
              Cancel(u) \/ Retry(u) \/ SessionExpires(u)
       PROVE  Quiet
  BY <1>19 DEF DeleteExpired, RecoverExpired, Reserve, Cancel, Retry, SessionExpires,
     sessionVars, chunkVars, requestVars, storeVars
<1>20. ASSUME NEW u \in Uploads, NEW i \in Chunks, BeginChunk(u, i) PROVE Quiet
  BY <1>20 DEF BeginChunk, sessionVars, chunkVars, requestVars, storeVars
<1>21. ASSUME NEW u \in Uploads, NEW i \in Chunks, NEW whole \in BOOLEAN,
              EndChunk(u, i, whole)
       PROVE  Quiet
  BY <1>21 DEF EndChunk, sessionVars, chunkVars, requestVars, storeVars
<1>22. CASE Crash
  <2>1. UNCHANGED <<object, row, status, file, journal>>
    BY <1>22 DEF Crash, sessionVars, storeVars
  <2>2. \A d \in Completions : /\ evidence'[d].object = "unknown"
                              /\ pc'[d] = IF Running(d) THEN "done" ELSE pc[d]
    BY <1>22 DEF Crash, Unknown
  <2>3. \A d \in Completions : RequestOf(d)
    BY DEF RequestState
  <2>4. \A d \in Completions : pc'[d] \in {"idle", "done"}
    BY <2>2 DEF Running
  <2>5. \A d \in Completions : pc'[d] = "idle" => pc[d] = "idle"
    BY <2>2
  <2>6. \A d \in Completions : Committed(d)' => Committed(d)
    BY <2>1 DEF Committed
  <2>7. \A d \in Completions : RequestOf(d)'
    BY <2>1, <2>2, <2>3, <2>4, <2>5, <2>6 DEF RequestOf, PastSave, PastInsert, BeforeSave, BeforeInsert, Running
  <2>8. QED
    BY <2>7 DEF RequestState
<1>23. CASE UNCHANGED vars
  BY <1>23, <1>q, <1>r DEF vars, sessionVars, chunkVars, requestVars, storeVars
<1> HIDE DEF Quiet
<1>24. QED
  BY <1>1, <1>2, <1>3, <1>4, <1>5, <1>6, <1>7, <1>8, <1>9, <1>10, <1>11,
     <1>12, <1>13, <1>14, <1>15, <1>16, <1>17, <1>18, <1>19, <1>20, <1>21, <1>22,
     <1>23, <1>q, <1>r DEF Next, Completion, Advance, Maintenance, Resolve, Client,
     Time

(* What is stored is new only of a request whose journal row is pending.   *)
LEMMA StoredPending ==
    ASSUME RequestState, [Next]_vars
    PROVE  \A d \in Completions :
              d \in object' \cup row' => d \in object \cup row \/ Pending(d)'
<1> DEFINE Goal == \A d \in Completions :
                      d \in object' \cup row' => d \in object \cup row \/ Pending(d)'
<1> DEFINE Quiet == object' \subseteq object /\ row' \subseteq row
<1>q. Quiet => Goal
  OBVIOUS
<1> SUFFICES Goal
  OBVIOUS
<1>1. ASSUME NEW c \in Completions, Save(c) PROVE Goal
  <2>1. \A d \in Completions \ {c} : d \in object' \cup row' => d \in object \cup row
    BY <1>1 DEF Save
  <2>2. Pending(c)'
    BY <1>1 DEF Save, RequestState, RequestOf, Pending
  <2>3. QED
    BY <2>1, <2>2
<1>2. ASSUME NEW c \in Completions, InsertRow(c) PROVE Goal
  <2>1. \A d \in Completions \ {c} : d \in object' \cup row' => d \in object \cup row
    BY <1>2 DEF InsertRow
  <2>2. Pending(c)'
    BY <1>2 DEF InsertRow, RequestState, RequestOf, Pending
  <2>3. QED
    BY <2>1, <2>2
<1>3. ASSUME NEW c \in Completions, Claim(c) \/ GiveUp(c) \/ CompleteAsDuplicate(c) \/
             OpenJournal(c) \/ MarkObject(c) \/ MarkIndex(c) \/ Commit(c) \/
             CommitRefused(c) \/ Report(c) \/ Fail(c)
      PROVE  Quiet
  BY <1>3 DEF Claim, GiveUp, CompleteAsDuplicate, OpenJournal, MarkObject, MarkIndex,
     Commit, CommitRefused, Report, Fail, sessionVars, chunkVars, requestVars,
     storeVars
<1>4. ASSUME NEW c \in Completions, NEW answered \in BOOLEAN, UndoObject(c, answered)
             \/ UndoIndex(c, answered)
      PROVE  Quiet
  BY <1>4 DEF UndoObject, UndoIndex, sessionVars, chunkVars, requestVars, storeVars
<1>5. ASSUME NEW m \in Scans, NEW c \in Completions, ClaimRow(m, c) PROVE Quiet
  BY <1>5 DEF ClaimRow, sessionVars, chunkVars, requestVars, storeVars
<1>6. ASSUME NEW m \in Scans, Judge(m) \/ Recheck(m) \/ ScanReport(m) \/ ScanFails(m)
      PROVE  Quiet
  BY <1>6 DEF Judge, Recheck, ScanReport, ScanFails, sessionVars, chunkVars,
     requestVars, storeVars
<1>7. ASSUME NEW m \in Scans, NEW answered \in BOOLEAN, ScanObject(m, answered) \/
             ScanIndex(m, answered)
      PROVE  Quiet
  BY <1>7 DEF ScanObject, ScanIndex, sessionVars, chunkVars, requestVars, storeVars
<1>8. ASSUME NEW u \in Uploads, DeleteExpired(u) \/ RecoverExpired(u) \/ Reserve(u) \/
             Cancel(u) \/ Retry(u) \/ SessionExpires(u)
      PROVE  Quiet
  BY <1>8 DEF DeleteExpired, RecoverExpired, Reserve, Cancel, Retry, SessionExpires,
     sessionVars, chunkVars, requestVars, storeVars
<1>9. ASSUME NEW u \in Uploads, NEW i \in Chunks, BeginChunk(u, i) PROVE Quiet
  BY <1>9 DEF BeginChunk, sessionVars, chunkVars, requestVars, storeVars
<1>10. ASSUME NEW u \in Uploads, NEW i \in Chunks, NEW whole \in BOOLEAN,
              EndChunk(u, i, whole)
       PROVE  Quiet
  BY <1>10 DEF EndChunk, sessionVars, chunkVars, requestVars, storeVars
<1>11. CASE Crash
  BY <1>11, <1>q DEF Crash, storeVars
<1>12. CASE UNCHANGED vars
  BY <1>12, <1>q DEF vars, sessionVars, chunkVars, requestVars, storeVars
<1> HIDE DEF Quiet, Goal
<1>13. QED
  BY <1>1, <1>2, <1>3, <1>4, <1>5, <1>6, <1>7, <1>8, <1>9, <1>10, <1>11,
     <1>12, <1>q DEF Next, Completion, Advance, Maintenance, Resolve, Client, Time

(* Nothing is left behind by any step.                                     *)
LEMMA NothingStep ==
    ASSUME TypeOK, Forward, ResolvedRightly, RequestState, NothingLeftBehind, [Next]_vars
    PROVE  NothingLeftBehind'
<1> SUFFICES ASSUME NEW c \in object' \cup row'
             PROVE  (Committed(c) \/ Pending(c))'
  BY DEF NothingLeftBehind
<1>1. c \in Completions
  BY TypeStep DEF TypeOK
<1>2. CASE c \in object \cup row
  BY <1>1, <1>2 DEF NothingLeftBehind, Forward, ResolvedRightly
<1>3. CASE c \notin object \cup row
  BY <1>1, <1>3, StoredPending
<1>4. QED
  BY <1>2, <1>3

(* The initial state stores nothing.                                       *)
LEMMA StoreInit == Init => StoreInv
<1> SUFFICES ASSUME Init PROVE StoreInv
  OBVIOUS
<1>1. \A c \in Completions : pc[c] = "idle" /\ c \notin object /\ c \notin row
  BY DEF Init
<1>2. \A c \in Completions : evidence[c].object = "unknown" /\ evidence[c].index = "unknown"
  BY DEF Init, Unknown
<1>3. \A c \in Completions : /\ journal[c].object = "unknown" /\ journal[c].index = "unknown"
                             /\ journal[c].path = FALSE /\ journal[c].file = FALSE
  BY DEF Init, NoJournal
<1>4. \A u \in Uploads : status[u] = "none"
  BY DEF Init
<1>5. NothingLeftBehind
  BY DEF Init, NothingLeftBehind
<1>6. RequestState
  BY <1>1, <1>2, <1>4, ChunkAssumption
  DEF RequestState, RequestOf, PastSave, PastInsert, BeforeSave, BeforeInsert, Committed
<1>7. JournalHonest
  BY <1>3 DEF JournalHonest, Honest
<1>8. ScansHonest
  BY DEF Init, ScansHonest
<1>9. QED
  BY <1>5, <1>6, <1>7, <1>8 DEF StoreInv

(* Every step keeps the invariant of what is stored.                       *)
LEMMA StoreStep == TypeOK /\ StoreInv /\ [Next]_vars => StoreInv'
<1> SUFFICES ASSUME TypeOK, StoreInv, [Next]_vars PROVE StoreInv'
  OBVIOUS
<1>1. Forward
  BY ForwardStep
<1>2. ResolvedRightly
  BY <1>1, ResolvedStep DEF StoreInv
<1>3. QED
  BY <1>1, <1>2, ScansStep, JournalHonestStep, RequestStep, NothingStep DEF StoreInv

-----------------------------------------------------------------------------
(* The invariant is inductive.                                             *)
LEMMA Invariant == Spec => []IInv
<1>1. Init => IInv
  BY TypeInit, SessionInit, StoreInit DEF IInv, SessionInv
<1>2. IInv /\ [Next]_vars => IInv'
  BY TypeStep, ChunksStep, BudgetStep, StoreStep DEF IInv, SessionInv
<1>3. QED
  BY <1>1, <1>2, PTL DEF Spec

(* The variables of the uploads hold what their comments say.              *)
THEOREM TypeCorrect == Spec => []TypeOK
  BY Invariant, PTL DEF IInv, SessionInv

(* A session that can still be completed or retried keeps its chunks on    *)
(* disk, whatever cancels, expires, fails or recovers.                     *)
THEOREM ChunksStay == Spec => []ChunksKept
  BY Invariant, PTL DEF IInv, SessionInv

(* However many uploads are reserved, cancelled, retried and recovered,    *)
(* those that can still grow fit the temporary budget.                     *)
THEOREM BudgetStays == Spec => []BudgetKept
  BY Invariant, PTL DEF IInv, SessionInv

(* No object and no file row is left behind: what is stored is the file of *)
(* a completed upload or a pending journal row knows of it, with any       *)
(* number of requests, maintenance runs, crashes and failing calls.        *)
THEOREM NothingLeft == Spec => []NothingLeftBehind
  BY Invariant, PTL DEF IInv, StoreInv

(* Only the holder of the claim stores an upload, with all its chunks.     *)
THEOREM HolderStores == Spec => OnlyHolderStores
<1>1. IInv /\ [Next]_vars => [StoredByHolder]_vars
  BY HolderStep DEF IInv, SessionInv
<1>2. QED
  BY <1>1, Invariant, PTL DEF Spec, OnlyHolderStores

(* The rows of the database implement the promise of UploadOutcome: an     *)
(* upload is stored once, as one file, or dropped for good.                *)
THEOREM PromiseKept == Spec => KeepsPromise
<1>1. IInv /\ [Next]_vars => [Outcome!Next]_(Outcome!vars)
  BY PromiseStep DEF IInv, SessionInv
<1>2. QED
  BY <1>1, Invariant, PromiseInit, PTL DEF Spec, KeepsPromise, Outcome!Spec
=============================================================================

---------------------------- MODULE ChunkUpload ----------------------------
(***************************************************************************)
(* Resumable uploads from the browser: chunkUploadSessions.ts,             *)
(* chunkUploadReconciliation.ts and the handlers of routes/chunkedUpload.ts. *)
(*                                                                         *)
(* A session and its chunks are rows of the database; the chunks are files *)
(* in a directory of the session.  A completion request claims the session *)
(* with a token and a lease, opens a journal row, saves the merged object  *)
(* on the storage target, inserts the file row and commits; when a step    *)
(* fails it compensates.  A maintenance timer resolves pending journal     *)
(* rows, deletes expired sessions and recovers expired completions.  Each  *)
(* SQL statement, transaction or call of a storage target is one step; the *)
(* process may crash between any two.  A statement that reports an error   *)
(* has had no effect; a storage call that reports one may have had it.     *)
(* Every such fault is counted, and a behaviour has MaxFaults of them.     *)
(***************************************************************************)
EXTENDS Naturals, FiniteSets

CONSTANTS
    Uploads,
    Chunks,         \* the chunk indexes of an upload
    Completions,    \* completion requests; each is its own completion token
    UploadOf,       \* the session each request completes
    Scans,          \* maintenance runs that resolve a journal row
    NoOne,          \* no token, no lease holder, no file
    Duplicate,      \* the id of a file that was there before
    Budget,         \* how many uploads fit the temporary budget
    MaxFaults       \* bound: crashes, failing statements and calls, lost leases

ASSUME ChunkAssumption ==
    /\ IsFiniteSet(Uploads)
    /\ UploadOf \in [Completions -> Uploads]
    /\ Budget \in Nat
    /\ MaxFaults \in Nat
    /\ NoOne \notin Completions \cup Scans
    /\ Duplicate \notin Completions \cup {NoOne}

VARIABLES
    status,         \* of each session
    token,          \* completion_token
    file,           \* completed_file_id
    expired,        \* sessions whose expires_at has passed
    recorded,       \* chunk rows of each session
    directory,      \* sessions whose chunk directory is complete
    locks,          \* .lock files of the chunks
    writing,        \* chunks a request is writing
    pc,             \* where each completion request is
    evidence,       \* what a compensating completion has found
    object,         \* completions whose object is on the storage target
    row,            \* completions whose row is in files
    journal,        \* the journal row of each completion
    scan,           \* where each maintenance run is
    faults

sessionVars == <<status, token, file, expired>>
chunkVars == <<recorded, directory, locks, writing>>
requestVars == <<pc, evidence>>
storeVars == <<object, row>>
vars == <<sessionVars, chunkVars, requestVars, storeVars, journal, scan, faults>>

-----------------------------------------------------------------------------
States == {"unknown", "present", "deleted"}

NoJournal == [status |-> "none", object |-> "unknown", index |-> "unknown",
              path |-> FALSE, file |-> FALSE, operator |-> FALSE,
              holder |-> NoOne]

JournalRow ==
    [status : {"none", "pending", "resolved"}, object : States, index : States,
     path : BOOLEAN, file : BOOLEAN, operator : BOOLEAN,
     holder : Scans \cup {NoOne}]

(* What else a resolved row says is never read again.                      *)
Resolved == [NoJournal EXCEPT !.status = "resolved"]

Idle == [at |-> "idle"]

(* What a maintenance run has read of a row, and how far it is.            *)
Reading ==
    [at : {"claimed", "object", "recheck", "index", "report"}, row : Completions,
     object : States, index : States, path : BOOLEAN, file : BOOLEAN,
     completed : BOOLEAN]

Evidence == [object : States, index : States]

Pending(c) == journal[c].status = "pending"
Running(c) == pc[c] \notin {"idle", "done"}
Holds(c) == status[UploadOf[c]] = "completing" /\ token[UploadOf[c]] = c

PendingFor(u) == \E c \in Completions : UploadOf[c] = u /\ Pending(c)

Alive(u) == status[u] \in {"open", "completing", "failed"}

(* A step that goes wrong without a reason in the modelled state is a fault. *)
Fault(wrong) ==
    /\ wrong => faults < MaxFaults
    /\ faults' = IF wrong THEN faults + 1 ELSE faults

-----------------------------------------------------------------------------
(* Sessions and chunks.                                                    *)

(* Mutant of Reserve: only sessions that still receive chunks count.       *)
ReserveOpenOnly(u) ==
    /\ status[u] = "none"
    /\ Cardinality({v \in Uploads : status[v] = "open" /\ v \notin expired}) < Budget
    /\ status' = [status EXCEPT ![u] = "open"]
    /\ directory' = directory \cup {u}
    /\ UNCHANGED <<token, file, expired, recorded, locks, writing,
                   requestVars, storeVars, journal, scan, faults>>

(* Unfinished sessions that have not expired.                              *)
Reserving == {u \in Uploads : Alive(u) /\ u \notin expired}

(* reserveSession                                                          *)
Reserve(u) ==
    /\ status[u] = "none"
    /\ Cardinality(Reserving) < Budget
    /\ status' = [status EXCEPT ![u] = "open"]
    /\ directory' = directory \cup {u}
    /\ UNCHANGED <<token, file, expired, recorded, locks, writing,
                   requestVars, storeVars, journal, scan, faults>>

(* writeChunk: a request finds the session open and the chunk unknown, and *)
(* creates the lock file of the chunk.                                     *)
BeginChunk(u, i) ==
    /\ status[u] = "open"
    /\ i \notin recorded[u]
    /\ <<u, i>> \notin locks \cup writing
    /\ locks' = locks \cup {<<u, i>>}
    /\ writing' = writing \cup {<<u, i>>}
    /\ UNCHANGED <<sessionVars, recorded, directory, requestVars, storeVars,
                   journal, scan, faults>>

(* The chunk arrived whole and is recorded while the session is open and   *)
(* in time, or it is refused or broken and its file removed.               *)
EndChunk(u, i, whole) ==
    /\ <<u, i>> \in writing
    /\ locks' = locks \ {<<u, i>>}
    /\ writing' = writing \ {<<u, i>>}
    /\ recorded' = IF whole /\ status[u] = "open" /\ u \notin expired
                   THEN [recorded EXCEPT ![u] = @ \cup {i}] ELSE recorded
    /\ UNCHANGED <<sessionVars, directory, requestVars, storeVars, journal, scan, faults>>

(* Mutant of Cancel: any session can be cancelled.                         *)
CancelAnything(u) ==
    /\ status[u] # "none"
    /\ status' = [status EXCEPT ![u] = "cancelled"]
    /\ token' = [token EXCEPT ![u] = NoOne]
    /\ directory' = directory \ {u}
    /\ UNCHANGED <<file, expired, recorded, locks, writing, requestVars, storeVars,
                   journal, scan, faults>>

(* cancel                                                                  *)
Cancel(u) ==
    /\ status[u] \in {"open", "failed"}
    /\ status' = [status EXCEPT ![u] = "cancelled"]
    /\ token' = [token EXCEPT ![u] = NoOne]
    /\ directory' = directory \ {u}
    /\ UNCHANGED <<file, expired, recorded, locks, writing, requestVars, storeVars,
                   journal, scan, faults>>

(* reopenFailed: not while a journal row of the session is pending.        *)
Retry(u) ==
    /\ status[u] = "failed"
    /\ u \notin expired
    /\ ~PendingFor(u)
    /\ status' = [status EXCEPT ![u] = "open"]
    /\ UNCHANGED <<token, file, expired, chunkVars, requestVars, storeVars,
                   journal, scan, faults>>

-----------------------------------------------------------------------------
(* A completion request.                                                   *)

Goto(c, where) == pc' = [pc EXCEPT ![c] = where]

(* claimCompletion                                                         *)
Claim(c) ==
    LET u == UploadOf[c]
    IN /\ pc[c] = "idle"
       /\ status[u] = "open"
       /\ token[u] = NoOne
       /\ recorded[u] = Chunks
       /\ status' = [status EXCEPT ![u] = "completing"]
       /\ token' = [token EXCEPT ![u] = c]
       /\ Goto(c, "claimed")
       /\ UNCHANGED <<file, expired, chunkVars, evidence, storeVars, journal, scan, faults>>

(* Before anything was stored the request gives up: the account or the     *)
(* target does not take writes, or the chunks cannot be merged.            *)
GiveUp(c) ==
    /\ pc[c] = "claimed"
    /\ Goto(c, "failing")
    /\ UNCHANGED <<sessionVars, chunkVars, evidence, storeVars,
                   journal, scan, faults>>

(* Mutant of CompleteAsDuplicate: the session stores its own id.           *)
CompleteAsItself(c) ==
    LET u == UploadOf[c]
    IN /\ pc[c] = "claimed"
       /\ u \in directory
       /\ Holds(c)
       /\ status' = [status EXCEPT ![u] = "completed"]
       /\ file' = [file EXCEPT ![u] = u]
       /\ directory' = directory \ {u}
       /\ Goto(c, "done")
       /\ UNCHANGED <<token, expired, recorded, locks, writing, evidence,
                      storeVars, journal, scan, faults>>

(* markCompleted with a file that is already stored.                       *)
CompleteAsDuplicate(c) ==
    LET u == UploadOf[c]
    IN /\ pc[c] = "claimed"
       /\ u \in directory
       /\ IF Holds(c)
          THEN /\ status' = [status EXCEPT ![u] = "completed"]
               /\ file' = [file EXCEPT ![u] = Duplicate]
               /\ directory' = directory \ {u}
               /\ Goto(c, "done")
          ELSE /\ Goto(c, "failing")
               /\ UNCHANGED <<status, file, directory>>
       /\ UNCHANGED <<token, expired, recorded, locks, writing, evidence,
                      storeVars, journal, scan, faults>>

(* beginChunkCompletionReconciliation, which needs the session's row.      *)
OpenJournal(c) ==
    /\ pc[c] = "claimed"
    /\ UploadOf[c] \in directory
    /\ IF status[UploadOf[c]] # "deleted"
       THEN /\ journal' = [journal EXCEPT ![c] = [NoJournal EXCEPT !.status = "pending"]]
            /\ Goto(c, "journaled")
       ELSE /\ Goto(c, "failing")
            /\ UNCHANGED journal
    /\ UNCHANGED <<sessionVars, chunkVars, evidence, storeVars, scan, faults>>

(* saveFile: the object is stored, or the call fails and it may be.        *)
Save(c) ==
    /\ pc[c] = "journaled"
    /\ \/ /\ object' = object \cup {c}
          /\ Goto(c, "saved")
          /\ Fault(FALSE)
       \/ /\ object' \in {object, object \cup {c}}
          /\ Goto(c, "uncertain")
          /\ Fault(TRUE)
    /\ UNCHANGED <<sessionVars, chunkVars, evidence, row, journal, scan>>

(* markChunkReconciliationObjectPresent                                    *)
MarkObject(c) ==
    /\ pc[c] = "saved"
    /\ \/ /\ Pending(c)
          /\ journal' = [journal EXCEPT ![c].path = TRUE, ![c].object = "present"]
          /\ Goto(c, "marked")
          /\ Fault(FALSE)
       \/ /\ Goto(c, "undoObject")
          /\ Fault(Pending(c))
          /\ UNCHANGED journal
    /\ UNCHANGED <<sessionVars, chunkVars, evidence, storeVars, scan>>

(* INSERT INTO files                                                       *)
InsertRow(c) ==
    /\ pc[c] = "marked"
    /\ \/ /\ row' = row \cup {c}
          /\ evidence' = [evidence EXCEPT ![c].index = "present"]
          /\ Goto(c, "inserted")
          /\ Fault(FALSE)
       \/ /\ Goto(c, "undoObject")
          /\ Fault(TRUE)
          /\ UNCHANGED <<row, evidence>>
    /\ UNCHANGED <<sessionVars, chunkVars, object, journal, scan>>

(* markChunkReconciliationIndexPresent                                     *)
MarkIndex(c) ==
    /\ pc[c] = "inserted"
    /\ \/ /\ Pending(c)
          /\ journal' = [journal EXCEPT ![c].file = TRUE, ![c].index = "present"]
          /\ Goto(c, "ready")
          /\ Fault(FALSE)
       \/ /\ Goto(c, "undoObject")
          /\ Fault(Pending(c))
          /\ UNCHANGED journal
    /\ UNCHANGED <<sessionVars, chunkVars, evidence, storeVars, scan>>

(* Mutant of Commit: the claim is not compared.                            *)
CommitAnyClaim(c) ==
    LET u == UploadOf[c]
    IN /\ pc[c] = "ready"
       /\ status[u] = "completing"
       /\ Pending(c)
       /\ status' = [status EXCEPT ![u] = "completed"]
       /\ file' = [file EXCEPT ![u] = c]
       /\ journal' = [journal EXCEPT ![c] = Resolved]
       /\ directory' = directory \ {u}
       /\ Goto(c, "done")
       /\ UNCHANGED <<token, expired, recorded, locks, writing, evidence,
                      storeVars, scan, faults>>

(* completeWithReconciliation: session and journal row in one transaction. *)
Commit(c) ==
    LET u == UploadOf[c]
    IN /\ pc[c] = "ready"
       /\ Holds(c)
       /\ Pending(c)
       /\ status' = [status EXCEPT ![u] = "completed"]
       /\ file' = [file EXCEPT ![u] = c]
       /\ journal' = [journal EXCEPT ![c] = Resolved]
       /\ directory' = directory \ {u}
       /\ Goto(c, "done")
       /\ UNCHANGED <<token, expired, recorded, locks, writing, evidence,
                      storeVars, scan, faults>>

(* The claim or the journal row is gone, the heartbeat has once failed, or *)
(* the transaction fails.                                                  *)
CommitRefused(c) ==
    /\ pc[c] = "ready"
    /\ Goto(c, "undoObject")
    /\ Fault(Holds(c) /\ Pending(c))
    /\ UNCHANGED <<sessionVars, chunkVars, evidence, storeVars, journal, scan>>

(* compensateChunkCompletionFailure: delete the object ...                 *)
UndoObject(c, answered) ==
    /\ pc[c] = "undoObject"
    /\ object' \in IF answered THEN {object \ {c}} ELSE {object, object \ {c}}
    /\ evidence' = [evidence EXCEPT ![c].object = IF answered THEN "deleted" ELSE "unknown"]
    /\ Goto(c, "undoIndex")
    /\ Fault(~answered)
    /\ UNCHANGED <<sessionVars, chunkVars, row, journal, scan>>

(* ... then the file row, if this request has inserted one; none to delete *)
(* counts as an error ...                                                  *)
UndoIndex(c, answered) ==
    LET inserted == evidence[c].index = "present"
    IN /\ pc[c] = "undoIndex"
       /\ row' = IF inserted /\ answered THEN row \ {c} ELSE row
       /\ evidence' = [evidence EXCEPT ![c].index =
                          IF ~inserted \/ (answered /\ c \in row) THEN "deleted" ELSE "unknown"]
       /\ Goto(c, "report")
       /\ Fault(inserted /\ ~answered)
       /\ UNCHANGED <<sessionVars, chunkVars, object, journal, scan>>

(* updateChunkReconciliationAfterCompensation                              *)
Compensated(r, objectState, indexState) ==
    IF objectState = "deleted" /\ indexState = "deleted" THEN Resolved
    ELSE [r EXCEPT !.object = objectState, !.index = indexState]

(* ... and write down what is left.                                        *)
Report(c) ==
    /\ pc[c] \in {"report", "uncertain"}
    /\ \/ /\ Pending(c)
          /\ journal' = [journal EXCEPT ![c] =
                IF pc[c] = "uncertain" THEN Compensated(@, "unknown", "deleted")
                ELSE Compensated(@, evidence[c].object, evidence[c].index)]
          /\ Fault(FALSE)
       \/ /\ Fault(Pending(c))
          /\ UNCHANGED journal
    /\ Goto(c, "failing")
    /\ UNCHANGED <<sessionVars, chunkVars, evidence, storeVars, scan>>

Unknown == [object |-> "unknown", index |-> "unknown"]

(* Mutant of Fail: the chunks are thrown away with the attempt.            *)
FailWithoutChunks(c) ==
    LET u == UploadOf[c]
    IN /\ pc[c] = "failing"
       /\ IF Holds(c)
          THEN /\ status' = [status EXCEPT ![u] = "failed"]
               /\ token' = [token EXCEPT ![u] = NoOne]
               /\ directory' = directory \ {u}
          ELSE UNCHANGED <<status, token, directory>>
       /\ evidence' = [evidence EXCEPT ![c] = Unknown]
       /\ Goto(c, "done")
       /\ UNCHANGED <<file, expired, recorded, locks, writing, storeVars, journal, scan, faults>>

(* markCompletionFailed                                                    *)
Fail(c) ==
    LET u == UploadOf[c]
    IN /\ pc[c] = "failing"
       /\ \/ /\ Holds(c)
             /\ status' = [status EXCEPT ![u] = "failed"]
             /\ token' = [token EXCEPT ![u] = NoOne]
             /\ Fault(FALSE)
          \/ /\ Fault(Holds(c))
             /\ UNCHANGED <<status, token>>
       /\ evidence' = [evidence EXCEPT ![c] = Unknown]
       /\ Goto(c, "done")
       /\ UNCHANGED <<file, expired, chunkVars, storeVars, journal, scan>>

-----------------------------------------------------------------------------
(* Maintenance.                                                            *)

Owned(m, c) == Pending(c) /\ journal[c].holder = m

Works(m, c) == scan[m] # Idle /\ scan[m].row = c

(* claimChunkReconciliations, for one pending row that no operator has to  *)
(* look at and no run holds a lease on: what the run reads now it acts on  *)
(* later.  The lease of a run that still works on the row has been lost.   *)
ClaimRow(m, c) ==
    LET u == UploadOf[c]
    IN /\ scan[m] = Idle
       /\ Pending(c) /\ ~journal[c].operator
       /\ Fault(\E other \in Scans : Works(other, c) /\ Owned(other, c))
       /\ journal' = [journal EXCEPT ![c].holder = m]
       /\ scan' = [scan EXCEPT ![m] =
                     [at |-> "claimed", row |-> c,
                      object |-> journal[c].object, index |-> journal[c].index,
                      path |-> journal[c].path, file |-> journal[c].file,
                      completed |-> status[u] = "completed" /\ file[u] = c]]
       /\ UNCHANGED <<sessionVars, chunkVars, requestVars, storeVars>>

(* A row that is no longer held by m stays as it is.                       *)
UpdateOwned(m, c, r) ==
    journal' = IF Owned(m, c) THEN [journal EXCEPT ![c] = r] ELSE journal

Released(r) == [r EXCEPT !.holder = NoOne]

ScanTo(m, where) == scan' = [scan EXCEPT ![m].at = where]
ScanEnds(m) == scan' = [scan EXCEPT ![m] = Idle]

(* ownsChunkReconciliationLease, before each of the two deletions.         *)
KeepLease(m, next) ==
    /\ IF Owned(m, scan[m].row) THEN ScanTo(m, next) ELSE ScanEnds(m)
    /\ UNCHANGED journal

(* resolveClaimedChunkReconciliation: what can be decided at once ...      *)
Judge(m) ==
    LET s == scan[m]
        c == s.row
    IN /\ s.at = "claimed"
       /\ IF s.completed /\ s.object = "present" /\ s.index = "present"
          THEN /\ UpdateOwned(m, c, Resolved)
               /\ ScanEnds(m)
          ELSE IF s.object = "unknown" /\ ~s.path
          THEN /\ UpdateOwned(m, c, [Released(journal[c]) EXCEPT !.operator = TRUE])
               /\ ScanEnds(m)
          ELSE KeepLease(m, "object")
       /\ UNCHANGED <<sessionVars, chunkVars, requestVars, storeVars, faults>>

(* ... then the object is deleted ...                                      *)
ScanObject(m, answered) ==
    LET s == scan[m]
        c == s.row
        due == s.path /\ s.object # "deleted"
    IN /\ s.at = "object"
       /\ object' \in IF ~due THEN {object}
                      ELSE IF answered THEN {object \ {c}} ELSE {object, object \ {c}}
       /\ scan' = [scan EXCEPT ![m].at = "recheck",
                               ![m].object = IF ~due THEN @
                                             ELSE IF answered THEN "deleted" ELSE "unknown"]
       /\ Fault(due /\ ~answered)
       /\ UNCHANGED <<sessionVars, chunkVars, requestVars, row, journal>>

Recheck(m) ==
    /\ scan[m].at = "recheck"
    /\ KeepLease(m, "index")
    /\ UNCHANGED <<sessionVars, chunkVars, requestVars, storeVars, faults>>

(* ... the file row ...                                                    *)
ScanIndex(m, answered) ==
    LET s == scan[m]
        c == s.row
        due == s.file /\ s.index # "deleted"
    IN /\ s.at = "index"
       /\ row' = IF due /\ answered THEN row \ {c} ELSE row
       /\ scan' = [scan EXCEPT ![m].at = "report",
                               ![m].index = IF ~due THEN @
                                            ELSE IF answered THEN "deleted" ELSE "unknown"]
       /\ Fault(due /\ ~answered)
       /\ UNCHANGED <<sessionVars, chunkVars, requestVars, object, journal>>

(* ... and what is left is written down.                                   *)
ScanReport(m) ==
    LET s == scan[m]
        c == s.row
    IN /\ s.at = "report"
       /\ UpdateOwned(m, c, Released(Compensated(journal[c], s.object, s.index)))
       /\ ScanEnds(m)
       /\ UNCHANGED <<sessionVars, chunkVars, requestVars, storeVars, faults>>

(* A statement of the run fails: the row keeps its lease.                  *)
ScanFails(m) ==
    /\ scan[m] # Idle
    /\ ScanEnds(m)
    /\ Fault(TRUE)
    /\ UNCHANGED <<sessionVars, chunkVars, requestVars, storeVars, journal>>

(* Mutant of DeleteExpired: pending journal rows go with the session.      *)
DeleteExpiredAtOnce(u) ==
    /\ status[u] \in {"open", "failed", "cancelled"}
    /\ u \in expired
    /\ status' = [status EXCEPT ![u] = "deleted"]
    /\ recorded' = [recorded EXCEPT ![u] = {}]
    /\ directory' = directory \ {u}
    /\ journal' = [c \in Completions |-> IF UploadOf[c] = u THEN NoJournal ELSE journal[c]]
    /\ UNCHANGED <<token, file, expired, locks, writing, requestVars, storeVars,
                   scan, faults>>

(* deleteExpiredSessions; chunk and journal rows go with the session.      *)
DeleteExpired(u) ==
    /\ status[u] \in {"open", "failed", "cancelled"}
    /\ u \in expired
    /\ ~PendingFor(u)
    /\ status' = [status EXCEPT ![u] = "deleted"]
    /\ recorded' = [recorded EXCEPT ![u] = {}]
    /\ directory' = directory \ {u}
    /\ journal' = [c \in Completions |-> IF UploadOf[c] = u THEN NoJournal ELSE journal[c]]
    /\ UNCHANGED <<token, file, expired, locks, writing, requestVars, storeVars,
                   scan, faults>>

(* Mutant of RecoverExpired: any journal row of the session forbids it.    *)
RecoverWithoutJournal(u) ==
    /\ status[u] = "completing"
    /\ \A c \in Completions : UploadOf[c] = u => journal[c].status = "none"
    /\ status' = [status EXCEPT ![u] = "failed"]
    /\ token' = [token EXCEPT ![u] = NoOne]
    /\ Fault(Running(token[u]))
    /\ UNCHANGED <<file, expired, chunkVars, requestVars, storeVars, journal, scan>>

(* recoverExpiredCompletions: the lease of the claim has run out.  Nobody  *)
(* renews it when its request is gone; the heartbeat (renewCompletion) of  *)
(* a live one has come late or failed.                                     *)
RecoverExpired(u) ==
    /\ status[u] = "completing"
    /\ ~PendingFor(u)
    /\ status' = [status EXCEPT ![u] = "failed"]
    /\ token' = [token EXCEPT ![u] = NoOne]
    /\ Fault(Running(token[u]))
    /\ UNCHANGED <<file, expired, chunkVars, requestVars, storeVars, journal, scan>>

-----------------------------------------------------------------------------
(* Time and crashes.                                                       *)

SessionExpires(u) ==
    /\ status[u] # "none"
    /\ expired' = expired \cup {u}
    /\ UNCHANGED <<status, token, file, chunkVars, requestVars, storeVars,
                   journal, scan, faults>>

(* Requests and maintenance runs are gone; the rows and files remain.      *)
Crash ==
    /\ Fault(TRUE)
    /\ pc' = [c \in Completions |-> IF Running(c) THEN "done" ELSE pc[c]]
    /\ evidence' = [c \in Completions |-> Unknown]
    /\ scan' = [m \in Scans |-> Idle]
    /\ writing' = {}
    /\ UNCHANGED <<sessionVars, recorded, directory, locks, storeVars, journal>>

-----------------------------------------------------------------------------
Init ==
    /\ status = [u \in Uploads |-> "none"]
    /\ token = [u \in Uploads |-> NoOne]
    /\ file = [u \in Uploads |-> NoOne]
    /\ expired = {}
    /\ recorded = [u \in Uploads |-> {}]
    /\ directory = {} /\ locks = {} /\ writing = {}
    /\ pc = [c \in Completions |-> "idle"]
    /\ evidence = [c \in Completions |-> Unknown]
    /\ object = {} /\ row = {}
    /\ journal = [c \in Completions |-> NoJournal]
    /\ scan = [m \in Scans |-> Idle]
    /\ faults = 0

(* The steps of a completion request after its claim.                      *)
Advance(c) ==
    \/ GiveUp(c)
    \/ CompleteAsDuplicate(c)
    \/ OpenJournal(c)
    \/ Save(c)
    \/ MarkObject(c)
    \/ InsertRow(c)
    \/ MarkIndex(c)
    \/ Commit(c)
    \/ CommitRefused(c)
    \/ \E answered \in BOOLEAN : UndoObject(c, answered) \/ UndoIndex(c, answered)
    \/ Report(c)
    \/ Fail(c)

Completion ==
    \E c \in Completions :
        \/ Claim(c)
        \/ Advance(c)

(* The steps of a maintenance run after it has claimed a row.              *)
Resolve(m) ==
    \/ Judge(m)
    \/ \E answered \in BOOLEAN : ScanObject(m, answered) \/ ScanIndex(m, answered)
    \/ Recheck(m)
    \/ ScanReport(m)
    \/ ScanFails(m)

Maintenance ==
    \/ \E m \in Scans :
          \/ \E c \in Completions : ClaimRow(m, c)
          \/ Resolve(m)
    \/ \E u \in Uploads : DeleteExpired(u) \/ RecoverExpired(u)

Client ==
    \E u \in Uploads :
        \/ Reserve(u)
        \/ \E i \in Chunks : BeginChunk(u, i) \/ \E whole \in BOOLEAN : EndChunk(u, i, whole)
        \/ Cancel(u)
        \/ Retry(u)

Time ==
    \/ \E u \in Uploads : SessionExpires(u)
    \/ Crash

Next == Completion \/ Maintenance \/ Client \/ Time

Spec == Init /\ [][Next]_vars

-----------------------------------------------------------------------------
(* Properties.                                                             *)

Where == {"idle", "claimed", "journaled", "saved", "marked", "inserted", "ready",
          "undoObject", "undoIndex", "report", "uncertain", "failing", "done"}

(* The variables hold what their comments say.                             *)
TypeOK ==
    /\ status \in [Uploads -> {"none", "open", "completing", "completed",
                               "cancelled", "failed", "deleted"}]
    /\ token \in [Uploads -> Completions \cup {NoOne}]
    /\ file \in [Uploads -> Completions \cup {NoOne, Duplicate}]
    /\ expired \subseteq Uploads
    /\ recorded \in [Uploads -> SUBSET Chunks]
    /\ directory \subseteq Uploads
    /\ locks \subseteq Uploads \X Chunks /\ writing \subseteq Uploads \X Chunks
    /\ pc \in [Completions -> Where]
    /\ evidence \in [Completions -> Evidence]
    /\ object \subseteq Completions /\ row \subseteq Completions
    /\ journal \in [Completions -> JournalRow]
    /\ scan \in [Scans -> {Idle} \cup Reading]
    /\ faults \in 0..MaxFaults

Committed(c) == status[UploadOf[c]] = "completed" /\ file[UploadOf[c]] = c

(* Nothing is left behind: an object on the storage target or a file row   *)
(* is the one a completed upload points at, or a pending journal row knows *)
(* of it, at every moment of a request and through failed calls, lost      *)
(* claims, retries, expiry, maintenance and crashes.                       *)
NothingLeftBehind == \A c \in object \cup row : Committed(c) \/ Pending(c)

(* A session that can still be completed has all its recorded chunks on    *)
(* disk: a failed or expired completion can be retried.                    *)
ChunksKept == \A u \in Uploads : Alive(u) => u \in directory

(* The uploads that can still grow fit the temporary budget, also when a   *)
(* failed one is opened again.                                             *)
BudgetKept == Cardinality(Reserving) <= Budget

(* A request works on an upload under a claim that nobody else holds, and  *)
(* one whose claim was taken away commits nothing: it is the holder of the *)
(* claim that stores the upload.                                           *)
StoredByHolder ==
    \A u \in Uploads : status'[u] = "completed" /\ status[u] # "completed"
        => /\ status[u] = "completing"
           /\ Running(token[u]) /\ pc'[token[u]] = "done"
           /\ file'[u] \in {token[u], Duplicate}
           /\ recorded[u] = Chunks

OnlyHolderStores == [][StoredByHolder]_vars

(* What an upload is to its user.                                          *)
OutcomeOf(u) ==
    CASE status[u] = "none" -> "none"
      [] Alive(u) -> "open"
      [] status[u] = "completed" -> "stored"
      [] status[u] \in {"cancelled", "deleted"} -> "dropped"

Outcome == INSTANCE UploadOutcome WITH
    Files <- Completions \cup {Duplicate},
    NoFile <- NoOne,
    outcome <- [u \in Uploads |-> OutcomeOf(u)]

(* The database rows implement the promise of UploadOutcome.               *)
KeepsPromise == Outcome!Spec

(* The file of a completed upload is stored.  "分块完成已提交", the completion *)
(* is committed (chunkUploadSessions.ts), is written when object and file   *)
(* row are there, and what maintenance deletes is what a restart has left:  *)
(* "重启扫描补偿已确认" (chunkUploadReconciliation.ts).                          *)
CompletedFileStored == \A c \in Completions : Committed(c) => c \in object \cap row

-----------------------------------------------------------------------------
(* Liveness.  Requests and maintenance runs go on until they end or the    *)
(* process crashes; leases run out; the timer starts maintenance again and *)
(* again, takes every pending row in its turn, and is not always late for  *)
(* an expired completion.                                                  *)
Fairness ==
    /\ \A c \in Completions : WF_vars(Advance(c))
    /\ \A m \in Scans :
          /\ \A c \in Completions : SF_vars(ClaimRow(m, c))
          /\ WF_vars(Resolve(m))
    /\ \A u \in Uploads : SF_vars(RecoverExpired(u))

LiveSpec == Spec /\ Fairness

(* Rows that maintenance leaves to a person: the operator's, and those of  *)
(* an object whose file row was not yet written down.                      *)
LeftToPerson(c) == Pending(c) /\ (journal[c].operator \/ ~journal[c].file)

(* A session does not stay in completion for ever, whatever crashed or     *)
(* failed in between, unless a person has to look at its journal row.      *)
CompletionEnds ==
    \A u \in Uploads :
        status[u] = "completing" ~>
            \/ status[u] # "completing"
            \/ \E c \in Completions : UploadOf[c] = u /\ LeftToPerson(c)
=============================================================================

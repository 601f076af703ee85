--------------------- MODULE QbittorrentTransfersProofs ---------------------
(***************************************************************************)
(* Proofs about QbittorrentTransfers.  Source files are removed by a       *)
(* request that goes by hash, some time after the owner of the torrent was *)
(* checked.  The inductive invariant says why nothing has changed by then: *)
(* one task at most is unfinished, whatever can still add a torrent        *)
(* belongs to it, and it has none when it deletes, for a row that may be   *)
(* cleaned up is one whose torrent was seen.                               *)
(***************************************************************************)
EXTENDS QbittorrentTransfers, TLAPS

(* The task of nobody and the one of the downloader's user are no tasks of *)
(* the archive.                                                            *)
OwnersDistinct == Nobody \notin Tasks /\ Stranger \notin Tasks /\ Nobody # Stranger

Open(t) == row[t].status \notin {"none", "completed", "cancelled"}

-----------------------------------------------------------------------------
(* The parts of the invariant.                                             *)

WorkTyped ==
    /\ work.task \in Tasks \cup {Nobody}
    /\ work = [task |-> work.task, at |-> work.at, file |-> work.file]
    /\ work.file \in SUBSET Files
    /\ work.task = Nobody <=> work = Idle

(* What the stage of a row says of its other columns.                      *)
StageTells(r) ==
    /\ r.status = "none" => r.stage = "submitting" /\ ~r.unconfirmed
    /\ r.status = "completed" <=> r.stage = "completed"
    /\ r.status = "cancelled" <=> r.stage = "cancelled"
    /\ r.cancel <=> r.stage \in {"cancelling", "cancelled"}
    /\ r.unconfirmed => r.stage \in {"submitting", "cancelling"} /\ ~r.cleanup
    /\ r.cleanup => r.stage \in {"cleaning", "completed", "cancelling", "cancelled"}
    /\ r.stage \in {"cleaning", "completed"} =>
           r.total # {} /\ r.total \subseteq r.saved

RowsTell == \A t \in Tasks : StageTells(row[t])

(* Tasks of the same torrent follow each other.                            *)
OneOpen == \A s, t \in Tasks : Open(s) /\ Open(t) => s = t

(* Its source files may go: the task is cancelled, or all is stored.       *)
MayGo(t) ==
    row[t].cancel \/ (torrent.want # {} /\ torrent.want \subseteq row[t].saved)

RemovalIsDue ==
    /\ torrent.phase = "metadata" => torrent.want = {}
    /\ torrent.deleting => torrent.owner \in Tasks /\ MayGo(torrent.owner)

(* An add that may still take effect is one the row knows of, and it does  *)
(* not when the torrent is there.                                          *)
LateIsKnown == \A t \in late : row[t].unconfirmed /\ ~Owned(t)

(* A poll at a step has found what the step relies on.                     *)
PollKnows ==
    \A t \in Tasks : work.task = t =>
        /\ Open(t)
        /\ work.at = "add" => row[t].unconfirmed
        /\ work.at \in {"save", "index", "undo"} =>
               work.file \cap row[t].saved = {}
        /\ work.at = "index" => Item \subseteq objects
        /\ work.at = "clean" => row[t].stage = "cleaning"
        /\ work.at = "delete" =>
               /\ ~row[t].unconfirmed
               /\ torrent.owner \in {Nobody, t}
               /\ Owned(t) => MayGo(t)

LibraryIsStored ==
    /\ library \subseteq objects
    /\ \A t \in Tasks, f \in Files : <<t, f>> \in library => f \in row[t].saved

(* Nothing is left of a cancelled task.                                    *)
CancelledIsClean ==
    \A t \in Tasks : row[t].status = "cancelled" => ~Owned(t) /\ disk[t] = {}

(* Only tasks that were created are asked for.                             *)
AskedExist == \A a \in asks : row[a.task].status # "none"

IInv ==
    /\ TypeOK /\ WorkTyped /\ RowsTell /\ OneOpen /\ RemovalIsDue
    /\ LateIsKnown /\ PollKnows /\ LibraryIsStored /\ CancelledIsClean
    /\ AskedExist

-----------------------------------------------------------------------------
(* The record types.                                                       *)

Rows ==
    [status : {"none", "pending", "running", "paused", "completed", "failed",
               "cancelled"},
     stage : {"submitting", "metadata", "downloading", "uploading", "cleaning",
              "completed", "cancelling", "cancelled"},
     cancel : BOOLEAN, cleanup : BOOLEAN, recent : BOOLEAN,
     unconfirmed : BOOLEAN, saved : SUBSET Files, total : SUBSET Files]

Torrents ==
    [owner : Tasks \cup {Nobody, Stranger},
     phase : {"metadata", "active", "paused", "broken"},
     want : SUBSET Files, deleting : BOOLEAN]

LEMMA Typed ==
    TypeOK => /\ row \in [Tasks -> Rows]
              /\ torrent \in Torrents /\ torrent.want \in SUBSET Files
              /\ \A t \in Tasks : row[t] \in Rows
  BY DEF TypeOK, Rows, Torrents

-----------------------------------------------------------------------------
(* What a step may do to a row.                                            *)

(* A row is replaced by one that tells as much, and forgets nothing.       *)
Follows(t, r) ==
    /\ r \in Rows /\ StageTells(r)
    /\ row[t].status # "none" => r.status # "none"
    /\ row[t].saved \subseteq r.saved
    /\ row[t].cancel => r.cancel
    /\ row[t].unconfirmed => r.unconfirmed \/ Owned(t)
    /\ r.status = "cancelled" =>
           row[t].status = "cancelled" \/ (~Owned(t) /\ disk[t] = {})
    /\ \/ r.status \in {"none", "completed", "cancelled"}
       \/ Open(t)
       \/ \A s \in Tasks : ~Open(s)

RowMove ==
    \/ UNCHANGED row
    \/ \E t \in Tasks, r \in Rows : Update(t, r) /\ Follows(t, r)

(* An error of a poll shows in the row and changes nothing else of it.     *)
LEMMA FailMoves ==
    ASSUME NEW t \in Tasks, Open(t), NEW r \in Rows, Follows(t, r),
           r.status \notin {"completed", "cancelled"}, FailWith(t, r)
    PROVE  RowMove
<1>1. [r EXCEPT !.status = "failed"] \in Rows
  BY DEF Rows
<1>2. Follows(t, [r EXCEPT !.status = "failed"])
  BY <1>1 DEF Follows, StageTells, Rows
<1>3. QED
  BY <1>1, <1>2 DEF FailWith, RowMove

LEMMA FailStays ==
    ASSUME TypeOK, RowsTell, NEW t \in Tasks, Open(t), Fail(t)
    PROVE  RowMove
<1>1. row[t] \in Rows
  BY Typed
<1>2. Follows(t, row[t])
  BY <1>1 DEF Follows, RowsTell, Open
<1>3. QED
  BY <1>1, <1>2, FailMoves DEF Fail, Open

(* What a poll sees of a torrent that is its own.                          *)
LEMMA SeenFollows ==
    ASSUME TypeOK, RowsTell, NEW t \in Tasks, Open(t), Watching(t)
    PROVE  /\ Seen(t) \in Rows
           /\ ~Seen(t).unconfirmed /\ ~Seen(t).cleanup /\ ~Seen(t).cancel
           /\ Seen(t).stage \in {"metadata", "downloading", "uploading"}
           /\ Seen(t).status \notin {"none", "completed", "cancelled"}
           /\ Seen(t).saved = row[t].saved /\ Seen(t).cancel = row[t].cancel
           /\ Follows(t, Seen(t))
<1>1. row[t] \in Rows
  BY Typed
<1>2. StageTells(row[t])
  BY DEF RowsTell
<1>3. Seen(t) \in Rows
  BY <1>1 DEF Seen, Rows
<1>4. /\ ~Seen(t).unconfirmed /\ ~Seen(t).cleanup /\ ~Seen(t).cancel
      /\ Seen(t).stage \in {"metadata", "downloading", "uploading"}
      /\ Seen(t).status = row[t].status
      /\ Seen(t).saved = row[t].saved /\ Seen(t).cancel = row[t].cancel
  BY <1>1, <1>2 DEF Seen, Rows, StageTells, Watching, Looks, Cancelling, Open
<1>5. QED
  BY <1>1, <1>2, <1>3, <1>4 DEF Follows, StageTells, Open, Watching

LEMMA RowMoves ==
    ASSUME OwnersDistinct, IInv, [Next]_vars
    PROVE  RowMove
<1> USE DEF IInv
<1>1. /\ \A t \in Tasks : row[t] \in Rows /\ StageTells(row[t])
      /\ torrent \in Torrents /\ torrent.want \in SUBSET Files
  BY Typed DEF RowsTell
<1>2. \A t \in Tasks : work.task = t => Open(t)
  BY DEF PollKnows
<1>3. ASSUME NEW t \in Tasks, Create(t) PROVE RowMove
  <2>1. [row[t] EXCEPT !.status = "pending", !.stage = "submitting"] \in Rows
    BY <1>1 DEF Rows
  <2>2. row[t].status = "none" /\ \A s \in Tasks : ~Open(s)
    BY <1>3 DEF Create, Open, Final
  <2>3. Follows(t, [row[t] EXCEPT !.status = "pending", !.stage = "submitting"])
    BY <1>1, <2>1, <2>2 DEF Follows, StageTells, Rows
  <2>4. QED
    BY <1>3, <2>1, <2>3 DEF Create, RowMove
<1>4. ASSUME NEW t \in Tasks, CancelSource(t) PROVE RowMove
  <2>1. CASE Fail(t)
    BY <1>2, <1>4, <2>1, FailStays DEF CancelSource
  <2>2. CASE UNCHANGED row
    BY <2>2 DEF RowMove
  <2>3. ASSUME disk[t] = {}, ~(row[t].unconfirmed /\ ~row[t].cleanup),
               Update(t, [row[t] EXCEPT !.status = "cancelled",
                                        !.stage = "cancelled"])
        PROVE  RowMove
    <3>1. [row[t] EXCEPT !.status = "cancelled", !.stage = "cancelled"] \in Rows
      BY <1>1 DEF Rows
    <3>2. ~row[t].unconfirmed /\ ~Owned(t) /\ row[t].cancel
      BY <1>1, <1>4, <2>3 DEF StageTells, CancelSource, Owned, Gone, Cancelling,
         OwnersDistinct
    <3>3. Follows(t, [row[t] EXCEPT !.status = "cancelled", !.stage = "cancelled"])
      BY <1>1, <2>3, <3>1, <3>2 DEF Follows, StageTells, Rows
    <3>4. QED
      BY <2>3, <3>1, <3>3 DEF RowMove
  <2>4. QED
    BY <1>4, <2>1, <2>2, <2>3 DEF CancelSource
<1>5. ASSUME NEW t \in Tasks, CancelTorrent(t) PROVE RowMove
  <2>1. CASE Fail(t)
    BY <1>2, <1>5, <2>1, FailStays DEF CancelTorrent
  <2>2. CASE UNCHANGED row
    BY <2>2 DEF RowMove
  <2> DEFINE r == [row[t] EXCEPT !.cleanup = TRUE, !.recent = TRUE,
                                 !.unconfirmed = FALSE]
  <2>3. CASE Update(t, r)
    <3>1. r \in Rows
      BY <1>1 DEF Rows
    <3>3. Follows(t, r)
      BY <1>1, <1>2, <1>5, <3>1 DEF Follows, StageTells, Rows, CancelTorrent,
         Cancelling, Open
    <3>4. QED
      BY <2>3, <3>1, <3>3 DEF RowMove
  <2>4. QED
    BY <1>5, <2>1, <2>2, <2>3 DEF CancelTorrent
<1>6. ASSUME NEW t \in Tasks, Submit(t) PROVE RowMove
  <2>1. [row[t] EXCEPT !.unconfirmed = TRUE] \in Rows
    BY <1>1 DEF Rows
  <2>2. work.task = t /\ row[t].stage = "submitting"
    BY <1>6 DEF Submit, Looks
  <2>3. Follows(t, [row[t] EXCEPT !.unconfirmed = TRUE])
    BY <1>1, <1>2, <2>1, <2>2 DEF Follows, StageTells, Rows, Open
  <2>4. QED
    BY <1>6, <2>1, <2>3 DEF Submit, RowMove
<1>7. ASSUME NEW t \in Tasks, Vanished(t) PROVE RowMove
  <2> DEFINE r == [row[t] EXCEPT !.status = "completed", !.stage = "completed"]
  <2>1. CASE Fail(t)
    BY <1>2, <1>7, <2>1, FailStays DEF Vanished, Looks
  <2>2. ASSUME row[t].stage = "cleaning", Update(t, r) PROVE RowMove
    <3>1. r \in Rows
      BY <1>1 DEF Rows
    <3>2. Follows(t, r)
      BY <1>1, <2>2, <3>1 DEF Follows, StageTells, Rows
    <3>3. QED
      BY <2>2, <3>1, <3>2 DEF RowMove
  <2>3. QED
    BY <1>7, <2>1, <2>2 DEF Vanished
<1>8. ASSUME NEW t \in Tasks, Watch(t) PROVE RowMove
  <2>1. Open(t) /\ Watching(t)
    BY <1>2, <1>8 DEF Watch, Watching, Looks
  <2>2. CASE FailWith(t, Seen(t))
    BY <2>1, <2>2, SeenFollows, FailMoves
  <2>3. ASSUME NEW s \in {"paused", "running"}, NEW g \in {"metadata", "downloading"},
               Update(t, [Seen(t) EXCEPT !.status = s, !.stage = g,
                                         !.total = torrent.want])
        PROVE  RowMove
    <3>1. [Seen(t) EXCEPT !.status = s, !.stage = g, !.total = torrent.want] \in Rows
      <4>1. Seen(t) \in Rows /\ torrent.want \in SUBSET Files
        BY <1>1, <2>1, SeenFollows
      <4>2. \A r \in Rows, w \in SUBSET Files :
              [r EXCEPT !.status = s, !.stage = g, !.total = w] \in Rows
        BY DEF Rows
      <4> QED BY <4>1, <4>2
    <3>2. Follows(t, [Seen(t) EXCEPT !.status = s, !.stage = g,
                                     !.total = torrent.want])
      BY <2>1, <3>1, SeenFollows DEF Follows, StageTells, Rows
    <3>3. QED
      BY <2>3, <3>1, <3>2 DEF RowMove
  <2>4. QED
    BY <1>8, <2>2, <2>3 DEF Watch
<1>9. ASSUME NEW t \in Tasks, Watching(t)
      PROVE  /\ Uploading(t) \in Rows /\ Follows(t, Uploading(t))
             /\ Uploading(t).stage = "uploading" /\ ~Uploading(t).cancel
             /\ ~Uploading(t).unconfirmed /\ ~Uploading(t).cleanup
             /\ Uploading(t).saved = row[t].saved
             /\ Uploading(t).total = torrent.want
             /\ Open(t)
  <2>1. Open(t)
    BY <1>2, <1>9 DEF Watching, Looks
  <2>2. Uploading(t) \in Rows
    BY <1>1, <1>9, <2>1, SeenFollows DEF Uploading, Rows
  <2>3. /\ Uploading(t).stage = "uploading" /\ ~Uploading(t).cancel
        /\ ~Uploading(t).unconfirmed /\ ~Uploading(t).cleanup
        /\ Uploading(t).saved = row[t].saved
        /\ Uploading(t).status = "running"
        /\ Uploading(t).total = torrent.want
    BY <1>9, <2>1, SeenFollows DEF Uploading, Rows
  <2>4. Follows(t, Uploading(t))
    BY <1>9, <2>1, <2>2, <2>3, SeenFollows DEF Follows, StageTells
  <2>5. QED
    BY <2>1, <2>2, <2>3, <2>4
<1>10. ASSUME NEW t \in Tasks, Pick(t) PROVE RowMove
  BY <1>9, <1>10 DEF Pick, RowMove
<1>11. ASSUME NEW t \in Tasks, Finish(t) PROVE RowMove
  <2>1. /\ Watching(t) /\ torrent.want # {} /\ torrent.want \subseteq row[t].saved
    BY <1>11 DEF Finish, Complete
  <2> DEFINE p == [Uploading(t) EXCEPT !.status = "completed", !.stage = "completed"]
             q == [Uploading(t) EXCEPT !.stage = "cleaning", !.cleanup = FALSE]
  <2>2. p \in Rows /\ q \in Rows
    BY <1>9, <2>1 DEF Rows
  <2>3. Follows(t, p) /\ Follows(t, q)
    BY <1>9, <2>1, <2>2 DEF Follows, StageTells, Rows
  <2>4. QED
    BY <1>11, <2>2, <2>3 DEF Finish, RowMove
<1>12. ASSUME NEW t \in Tasks, Index(t) PROVE RowMove
  <2>1. CASE UNCHANGED row
    BY <2>1 DEF RowMove
  <2>2. CASE Update(t, [row[t] EXCEPT !.saved = @ \cup work.file])
    <3>1. [row[t] EXCEPT !.saved = @ \cup work.file] \in Rows
      BY <1>1 DEF Rows, WorkTyped
    <3>2. Open(t)
      BY <1>2, <1>12 DEF Index
    <3>3. Follows(t, [row[t] EXCEPT !.saved = @ \cup work.file])
      BY <1>1, <3>1, <3>2 DEF Follows, StageTells, Rows, Open
    <3>4. QED
      BY <2>2, <3>1, <3>3 DEF RowMove
  <2>3. QED
    BY <1>12, <2>1, <2>2 DEF Index
<1>13. ASSUME NEW t \in Tasks, Check(t) PROVE RowMove
  <2>1. CASE Fail(t)
    BY <1>2, <1>13, <2>1, FailStays DEF Check
  <2>2. CASE Update(t, [row[t] EXCEPT !.cleanup = TRUE])
    <3>1. [row[t] EXCEPT !.cleanup = TRUE] \in Rows
      BY <1>1 DEF Rows
    <3>2. Open(t) /\ row[t].stage = "cleaning"
      BY <1>2, <1>13 DEF Check, PollKnows
    <3>3. Follows(t, [row[t] EXCEPT !.cleanup = TRUE])
      BY <1>1, <3>1, <3>2 DEF Follows, StageTells, Rows, Open
    <3>4. QED
      BY <2>2, <3>1, <3>3 DEF RowMove
  <2>3. QED
    BY <1>13, <2>1, <2>2 DEF Check
<1>14. ASSUME NEW t \in Tasks, work.task = t, Fail(t) \/ UNCHANGED row PROVE RowMove
  BY <1>2, <1>14, FailStays DEF RowMove
<1>15. ASSUME NEW t \in Tasks,
              Refuse(t) \/ Add(t) \/ Save(t) \/ Undo(t) \/ Delete(t) \/ Breaks(t)
       PROVE  RowMove
  <2>1. work.task = t /\ (Fail(t) \/ UNCHANGED row)
    BY <1>15 DEF Refuse, Add, Save, Undo, Delete, Breaks, Done
  <2>2. QED
    BY <1>14, <2>1
<1>16. ASSUME NEW t \in Tasks, Lapse(t) PROVE RowMove
  <2>1. [row[t] EXCEPT !.recent = FALSE] \in Rows
    BY <1>1 DEF Rows
  <2>2. Follows(t, [row[t] EXCEPT !.recent = FALSE])
    BY <1>1, <2>1 DEF Follows, StageTells, Rows, Open, CancelledIsClean
  <2>3. QED
    BY <1>16, <2>1, <2>2 DEF Lapse, RowMove
<1>17. ASSUME NEW a \in [task : Tasks, action : Controls], Granted(a), ~Stays(a)
       PROVE  Open(a.task) /\ a.task \in Tasks
  BY <1>17 DEF Granted, Stays, Final, Open, AskedExist
<1>18. ASSUME NEW a \in [task : Tasks, action : Controls], Retry(a) PROVE RowMove
  <2> DEFINE t == a.task
             p == [row[t] EXCEPT !.status = "pending"]
             q == [p EXCEPT !.stage = "cancelling", !.cancel = TRUE,
                            !.cleanup = FALSE, !.recent = FALSE]
  <2>1. t \in Tasks /\ Open(t)
    BY <1>17, <1>18 DEF Retry
  <2>0. row[t] \in Rows
    BY <1>1, <2>1
  <2>2. p \in Rows /\ q \in Rows
    BY <2>0 DEF Rows
  <2>3. Follows(t, p)
    BY <1>1, <2>1, <2>2 DEF Follows, StageTells, Rows, Open
  <2>4. Cancelling(t) => Follows(t, q)
    BY <1>1, <2>1, <2>2 DEF Follows, StageTells, Rows, Open, Cancelling
  <2>5. (~Cancelling(t) /\ Update(t, p)) \/ (Cancelling(t) /\ Update(t, q))
    BY <1>18 DEF Retry
  <2>6. QED
    BY <2>1, <2>2, <2>3, <2>4, <2>5 DEF RowMove
<1>19. ASSUME NEW a \in [task : Tasks, action : Controls], Cancel(a) PROVE RowMove
  <2> DEFINE t == a.task
             r == [row[t] EXCEPT !.status = "running", !.stage = "cancelling",
                                 !.cancel = TRUE, !.cleanup = FALSE,
                                 !.recent = FALSE]
  <2>1. t \in Tasks /\ Open(t) /\ row[t].stage # "cleaning"
    BY <1>17, <1>19 DEF Cancel, Stays
  <2>0. row[t] \in Rows
    BY <1>1, <2>1
  <2>2. r \in Rows
    BY <2>0 DEF Rows
  <2>3. Follows(t, r)
    BY <1>1, <2>1, <2>2 DEF Follows, StageTells, Rows, Open
  <2>4. QED
    BY <1>19, <2>1, <2>2, <2>3 DEF Cancel, RowMove
<1>20. ASSUME NEW a \in [task : Tasks, action : Controls], PauseOrResume(a)
       PROVE  RowMove
  <2> DEFINE t == a.task
  <2>1. t \in Tasks /\ Open(t)
    BY <1>17, <1>20 DEF PauseOrResume
  <2>2. ASSUME NEW s \in {"paused", "pending"},
               Update(t, [row[t] EXCEPT !.status = s])
        PROVE  RowMove
    <3>1. [row[t] EXCEPT !.status = s] \in Rows
      BY <1>1, <2>1 DEF Rows
    <3>2. Follows(t, [row[t] EXCEPT !.status = s])
      BY <1>1, <2>1, <3>1 DEF Follows, StageTells, Rows, Open
    <3>3. QED
      BY <2>1, <2>2, <3>1, <3>2 DEF RowMove
  <2>3. CASE UNCHANGED row
    BY <2>3 DEF RowMove
  <2>4. QED
    BY <1>20, <2>2, <2>3 DEF PauseOrResume
<1>21. CASE UNCHANGED row
  BY <1>21 DEF RowMove
<1>22. ASSUME NEW t \in Tasks,
              Poll(t) \/ Clean(t) \/ Select(t) \/ LateAdd(t)
                \/ \E c \in Controls : Ask(t, c)
       PROVE  RowMove
  BY <1>21, <1>22 DEF Poll, Clean, Select, LateAdd, Ask
<1>23. CASE \/ \E a \in [task : Tasks, action : Controls] : Deny(a)
            \/ RemoveFromLibrary \/ Switch \/ Downloads \/ Removes
            \/ RemovesFiles \/ Trouble \/ Crash \/ UNCHANGED vars
  BY <1>21, <1>23 DEF Deny, RemoveFromLibrary, Switch, Downloads, Removes,
     RemovesFiles, Trouble, Crash, vars
<1>24. ASSUME NEW t \in Tasks, Step(t) PROVE RowMove
  BY <1>4, <1>5, <1>6, <1>7, <1>8, <1>10, <1>11, <1>12, <1>13, <1>15, <1>22, <1>24
  DEF Step
<1>25. CASE Controlled
  BY <1>18, <1>19, <1>20, <1>23, <1>25 DEF Controlled, Control
<1>26. QED
  BY <1>3, <1>15, <1>16, <1>22, <1>23, <1>24, <1>25 DEF Next

-----------------------------------------------------------------------------
(* What a step may do to the torrent, to the adds that may still take      *)
(* effect, and to the files on the disk.                                   *)

(* A torrent comes to be by an add of a row that says so, or by a stranger *)
(* but not between a check and a request to delete.                        *)
Appears ==
    \E o \in Tasks \cup {Stranger} :
        /\ Gone /\ torrent' = Fresh(o)
        /\ o \in Tasks => row[o].unconfirmed /\ o \notin late'
        /\ o = Stranger => work.at # "delete"

(* What is wanted of it changes when its metadata has come, or by a user,  *)
(* who cannot change it once a file is stored, or during a poll.           *)
Wanted ==
    \/ /\ torrent.phase = "metadata" /\ ~torrent.deleting
       /\ torrent' = [torrent EXCEPT !.phase = "active", !.want = Files]
    \/ \E t \in Tasks, S \in SUBSET Files :
           /\ Owned(t) /\ work.task # t /\ torrent.phase # "metadata"
           /\ ~row[t].cancel /\ row[t].saved = {}
           /\ torrent' = [torrent EXCEPT !.want = S]

TorrentMove ==
    \/ UNCHANGED torrent
    \/ torrent' = NoTorrent
    \/ Appears
    \/ \E p \in {"active", "paused", "broken"} :
           torrent' = [torrent EXCEPT !.phase = p]
    \/ Wanted
    \/ /\ work.task \in Tasks /\ work.at = "delete" /\ work' = Idle
       /\ torrent' = [torrent EXCEPT !.deleting = ~Gone]

LateMove ==
    \A t \in late' : \/ t \in late
                     \/ /\ t \in Tasks /\ work.task = t /\ work.at = "add"
                        /\ Gone /\ UNCHANGED torrent

DiskMove == \A t \in Tasks : disk'[t] \subseteq disk[t] \/ Owned(t)

LEMMA TorrentMoves ==
    ASSUME OwnersDistinct, IInv, [Next]_vars
    PROVE  TorrentMove
<1> USE DEF IInv
<1>1. ASSUME NEW t \in Tasks, Add(t) PROVE TorrentMove
  <2>1. row[t].unconfirmed
    BY <1>1 DEF Add, PollKnows
  <2>2. UNCHANGED torrent \/ (Gone /\ torrent' = Fresh(t) /\ t \notin late')
    BY <1>1 DEF Add
  <2>3. QED
    BY <2>1, <2>2 DEF TorrentMove, Appears, OwnersDistinct
<1>2. ASSUME NEW t \in Tasks, Delete(t) PROVE TorrentMove
  BY <1>2 DEF Delete, Done, Fail, FailWith, TorrentMove
<1>3. ASSUME NEW t \in Tasks, Select(t) PROVE TorrentMove
  <2>1. torrent.want \in SUBSET Files
    BY Typed
  <2>2. \E S \in SUBSET Files : torrent' = [torrent EXCEPT !.want = S]
    BY <1>3, <2>1 DEF Select
  <2>3. QED
    BY <1>3, <2>2 DEF Select, TorrentMove, Wanted, Cancelling
<1>4. ASSUME NEW t \in Tasks, LateAdd(t) PROVE TorrentMove
  <2>1. UNCHANGED torrent \/ (Gone /\ torrent' = Fresh(t))
    BY <1>4 DEF LateAdd
  <2>2. row[t].unconfirmed /\ t \notin late'
    BY <1>4 DEF LateAdd, LateIsKnown
  <2>3. QED
    BY <2>1, <2>2 DEF TorrentMove, Appears, OwnersDistinct
<1>5. ASSUME NEW a \in [task : Tasks, action : Controls], PauseOrResume(a)
      PROVE  TorrentMove
  BY <1>5 DEF PauseOrResume, TorrentMove
<1>6. CASE Downloads
  BY <1>6 DEF Downloads, TorrentMove, Wanted
<1>7. CASE Removes
  BY <1>7 DEF Removes, TorrentMove
<1>8. CASE Trouble
  BY <1>8 DEF Trouble, TorrentMove, Appears, OwnersDistinct
<1>9. CASE UNCHANGED torrent
  BY <1>9 DEF TorrentMove
<1>10. ASSUME NEW t \in Tasks, Step(t) PROVE TorrentMove
  BY <1>1, <1>2, <1>9, <1>10
  DEF Step, CancelSource, CancelTorrent, Refuse, Submit, Vanished, Watch, Pick,
      Finish, Clean, Save, Index, Undo, Check, downloader
<1>11. ASSUME NEW t \in Tasks,
              Create(t) \/ Poll(t) \/ Breaks(t) \/ Lapse(t)
                \/ \E c \in Controls : Ask(t, c)
       PROVE  TorrentMove
  BY <1>9, <1>11 DEF Create, Poll, Breaks, Lapse, Ask, downloader
<1>12. CASE Controlled
  BY <1>5, <1>9, <1>12 DEF Controlled, Control, Deny, Retry, Cancel, downloader
<1>13. CASE RemoveFromLibrary \/ Switch \/ RemovesFiles \/ Crash \/ UNCHANGED vars
  BY <1>9, <1>13 DEF RemoveFromLibrary, Switch, RemovesFiles, Crash, vars, downloader
<1>14. QED
  BY <1>3, <1>4, <1>6, <1>7, <1>8, <1>10, <1>11, <1>12, <1>13 DEF Next

LEMMA LateMoves ==
    ASSUME IInv, [Next]_vars
    PROVE  LateMove
<1>1. ASSUME NEW t \in Tasks, Add(t) PROVE LateMove
  BY <1>1 DEF Add, LateMove
<1>2. ASSUME NEW t \in Tasks, LateAdd(t) PROVE LateMove
  BY <1>2 DEF LateAdd, LateMove
<1>3. CASE UNCHANGED late
  BY <1>3 DEF LateMove
<1>4. ASSUME NEW t \in Tasks, Step(t) PROVE LateMove
  BY <1>1, <1>3, <1>4
  DEF Step, CancelSource, CancelTorrent, Refuse, Submit, Vanished, Watch, Pick,
      Finish, Clean, Save, Index, Undo, Check, Delete, downloader
<1>5. ASSUME NEW t \in Tasks,
             Create(t) \/ Poll(t) \/ Breaks(t) \/ Select(t) \/ Lapse(t)
               \/ \E c \in Controls : Ask(t, c)
      PROVE  LateMove
  BY <1>3, <1>5 DEF Create, Poll, Breaks, Select, Lapse, Ask, downloader
<1>6. CASE Controlled
  BY <1>3, <1>6
  DEF Controlled, Control, Deny, Retry, Cancel, PauseOrResume, downloader
<1>7. CASE \/ RemoveFromLibrary \/ Switch \/ Downloads \/ Removes \/ RemovesFiles
           \/ Trouble \/ Crash \/ UNCHANGED vars
  BY <1>3, <1>7
  DEF RemoveFromLibrary, Switch, Downloads, Removes, RemovesFiles, Trouble, Crash,
      vars, downloader
<1>8. QED
  BY <1>2, <1>4, <1>5, <1>6, <1>7 DEF Next

LEMMA DiskMoves ==
    ASSUME OwnersDistinct, TypeOK, [Next]_vars
    PROVE  DiskMove /\ disk' \in [Tasks -> SUBSET Files]
<1>1. /\ disk \in [Tasks -> SUBSET Files]
      /\ torrent.owner \in Tasks \cup {Nobody, Stranger}
      /\ torrent.want \in SUBSET Files
  BY Typed DEF TypeOK, Torrents
<1>2. CASE UNCHANGED disk
  BY <1>1, <1>2 DEF DiskMove
<1>3. CASE Downloads
  BY <1>1, <1>2, <1>3 DEF Downloads, DiskMove, Owned
<1>4. ASSUME NEW t \in Tasks, disk' = [disk EXCEPT ![t] = {}]
      PROVE  DiskMove /\ disk' \in [Tasks -> SUBSET Files]
  BY <1>1, <1>4 DEF DiskMove
<1>5. CASE Removes
  BY <1>1, <1>2, <1>4, <1>5 DEF Removes
<1>6. CASE RemovesFiles
  BY <1>4, <1>6 DEF RemovesFiles
<1>7. CASE Trouble
  BY <1>1, <1>2, <1>4, <1>7 DEF Trouble, Gone
<1>8. ASSUME NEW t \in Tasks, Step(t) PROVE UNCHANGED disk
  BY <1>8
  DEF Step, CancelSource, CancelTorrent, Refuse, Submit, Add, Vanished, Watch,
      Pick, Finish, Clean, Save, Index, Undo, Check, Delete, downloader
<1>9. ASSUME NEW t \in Tasks,
             Create(t) \/ Poll(t) \/ Breaks(t) \/ Select(t) \/ Lapse(t)
               \/ LateAdd(t) \/ \E c \in Controls : Ask(t, c)
      PROVE  UNCHANGED disk
  BY <1>9 DEF Create, Poll, Breaks, Select, Lapse, LateAdd, Ask, downloader
<1>10. CASE \/ Controlled \/ RemoveFromLibrary \/ Switch \/ Crash \/ UNCHANGED vars
  <2>1. UNCHANGED disk
    BY <1>10
    DEF Controlled, Control, Deny, Retry, Cancel, PauseOrResume,
        RemoveFromLibrary, Switch, Crash, vars, downloader
  <2>2. QED
    BY <1>2, <2>1
<1>11. QED
  BY <1>2, <1>3, <1>5, <1>6, <1>7, <1>8, <1>9, <1>10 DEF Next

-----------------------------------------------------------------------------
(* The moves preserve the parts of the invariant.                          *)

LEMMA RowsStep ==
    ASSUME IInv, RowMove
    PROVE  row' \in [Tasks -> Rows] /\ (RowsTell /\ OneOpen)'
<1>1. row \in [Tasks -> Rows]
  BY Typed DEF IInv
<1>2. ASSUME NEW t \in Tasks, NEW r \in Rows, Update(t, r), Follows(t, r)
      PROVE  row' \in [Tasks -> Rows] /\ (RowsTell /\ OneOpen)'
  <2>1. row' \in [Tasks -> Rows]
    BY <1>1, <1>2 DEF Update
  <2>2. RowsTell'
    BY <1>1, <1>2 DEF Update, Follows, RowsTell, IInv
  <2>3. OneOpen'
    BY <1>1, <1>2 DEF Update, Follows, OneOpen, Open, IInv
  <2>4. QED
    BY <2>1, <2>2, <2>3
<1>3. CASE UNCHANGED row
  BY <1>1, <1>3 DEF IInv, RowsTell, OneOpen, Open
<1>4. QED
  BY <1>2, <1>3 DEF RowMove

(* A row keeps what others rely on.                                        *)
Grows ==
    \A t \in Tasks :
        /\ row[t].saved \subseteq row'[t].saved
        /\ row[t].cancel => row'[t].cancel
        /\ row[t].status # "none" => row'[t].status # "none"
        /\ row[t].unconfirmed => row'[t].unconfirmed \/ Owned(t)
        /\ row'[t].status = "cancelled" =>
               row[t].status = "cancelled" \/ (~Owned(t) /\ disk[t] = {})

LEMMA RowsGrow ==
    ASSUME IInv, RowMove
    PROVE  Grows
<1>1. row \in [Tasks -> Rows]
  BY Typed DEF IInv
<1>2. ASSUME NEW t \in Tasks, NEW r \in Rows, Update(t, r), Follows(t, r)
      PROVE  Grows
  BY <1>1, <1>2 DEF Update, Follows, Grows
<1>3. CASE UNCHANGED row
  BY <1>1, <1>3 DEF Grows
<1>4. QED
  BY <1>2, <1>3 DEF RowMove

LEMMA TorrentStep ==
    ASSUME OwnersDistinct, IInv, Grows, TorrentMove
    PROVE  torrent' \in Torrents /\ RemovalIsDue'
<1> USE DEF IInv
<1>1. /\ torrent \in Torrents
      /\ \A t \in Tasks : row[t] \in Rows
  BY Typed
<1>2. \A t \in Tasks : MayGo(t) /\ torrent'.want = torrent.want => MayGo(t)'
  BY DEF MayGo, Grows
<1>3. CASE UNCHANGED torrent
  BY <1>1, <1>2, <1>3 DEF RemovalIsDue
<1>4. CASE torrent' = NoTorrent
  BY <1>4 DEF NoTorrent, Torrents, RemovalIsDue
<1>5. CASE Appears
  BY <1>5 DEF Appears, Fresh, Torrents, RemovalIsDue
<1>6. ASSUME NEW p \in {"active", "paused", "broken"},
             torrent' = [torrent EXCEPT !.phase = p]
      PROVE  torrent' \in Torrents /\ RemovalIsDue'
  BY <1>1, <1>2, <1>6 DEF Torrents, RemovalIsDue
<1>7. CASE Wanted
  <2>1. ASSUME torrent.phase = "metadata", ~torrent.deleting,
               torrent' = [torrent EXCEPT !.phase = "active", !.want = Files]
        PROVE  torrent' \in Torrents /\ RemovalIsDue'
    BY <1>1, <2>1 DEF Torrents, RemovalIsDue
  <2>2. ASSUME NEW t \in Tasks, NEW S \in SUBSET Files, Owned(t),
               torrent.phase # "metadata", ~row[t].cancel, row[t].saved = {},
               torrent' = [torrent EXCEPT !.want = S]
        PROVE  torrent' \in Torrents /\ RemovalIsDue'
    <3>1. ~torrent.deleting
      BY <2>2 DEF RemovalIsDue, MayGo, Owned
    <3>2. QED
      BY <1>1, <2>2, <3>1 DEF Torrents, RemovalIsDue
  <2>3. QED
    BY <1>7, <2>1, <2>2 DEF Wanted
<1>8. ASSUME work.task \in Tasks, work.at = "delete",
             torrent' = [torrent EXCEPT !.deleting = ~Gone]
      PROVE  torrent' \in Torrents /\ RemovalIsDue'
  <2>1. torrent.owner \in {Nobody, work.task} /\ (Owned(work.task) => MayGo(work.task))
    BY <1>8 DEF PollKnows
  <2>2. torrent' \in Torrents /\ torrent'.owner = torrent.owner
        /\ torrent'.want = torrent.want /\ torrent'.phase = torrent.phase
        /\ torrent'.deleting = ~Gone
    BY <1>1, <1>8 DEF Torrents, Gone
  <2>3. QED
    BY <1>2, <1>8, <2>1, <2>2 DEF RemovalIsDue, Gone, Owned
<1>9. QED
  BY <1>3, <1>4, <1>5, <1>6, <1>7, <1>8 DEF TorrentMove

(* Whose the torrent is changes only when it goes or appears.              *)
LEMMA OwnerStep ==
    ASSUME OwnersDistinct, TypeOK, TorrentMove, NEW t \in Tasks, Owned(t)'
    PROVE  Owned(t) \/ (Gone /\ row[t].unconfirmed /\ t \notin late')
<1>1. torrent \in Torrents
  BY Typed
<1>2. CASE Appears
  BY <1>2 DEF Appears, Fresh, Owned, OwnersDistinct
<1>3. CASE torrent' = NoTorrent
  BY <1>3 DEF NoTorrent, Owned, OwnersDistinct
<1>4. CASE torrent'.owner = torrent.owner
  BY <1>4 DEF Owned
<1>5. QED
  BY <1>1, <1>2, <1>3, <1>4 DEF TorrentMove, Wanted, Torrents

LEMMA LateStep ==
    ASSUME OwnersDistinct, IInv, Grows, TorrentMove, LateMove
    PROVE  late' \subseteq Tasks /\ LateIsKnown'
<1> USE DEF IInv
<1>1. late' \subseteq Tasks
  BY DEF LateMove, TypeOK
<1>2. ASSUME NEW t \in late' PROVE row'[t].unconfirmed /\ ~Owned(t)'
  <2>1. t \in Tasks
    BY <1>1
  <2>2. row[t].unconfirmed /\ ~Owned(t)
    BY <2>1 DEF LateMove, LateIsKnown, PollKnows, Owned, Gone, OwnersDistinct
  <2>3. QED
    BY <2>1, <2>2, OwnerStep DEF Grows
<1>3. QED
  BY <1>1, <1>2 DEF LateIsKnown

LEMMA CancelledStep ==
    ASSUME OwnersDistinct, IInv, RowMove, Grows, TorrentMove, DiskMove, RowsTell'
    PROVE  CancelledIsClean'
<1> USE DEF IInv
<1>1. ASSUME NEW t \in Tasks, row'[t].status = "cancelled"
      PROVE  ~Owned(t)' /\ disk'[t] = {}
  <2>1. ~Owned(t) /\ disk[t] = {}
    BY <1>1 DEF Grows, CancelledIsClean
  <2>2. disk'[t] = {}
    BY <2>1 DEF DiskMove
  <2>3. ~row'[t].unconfirmed
    BY <1>1 DEF RowsTell, StageTells
  <2>4. QED
    BY <2>1, <2>2, <2>3, OwnerStep DEF Grows
<1>2. QED
  BY <1>1 DEF CancelledIsClean

-----------------------------------------------------------------------------
(* The library and its objects.                                            *)

LEMMA LibraryStep ==
    ASSUME IInv, Grows, RowMove, [Next]_vars
    PROVE  /\ library' \subseteq Tasks \X Files /\ objects' \subseteq Tasks \X Files
           /\ LibraryIsStored'
<1> USE DEF IInv
<1> DEFINE Goal == /\ library' \subseteq Tasks \X Files
                   /\ objects' \subseteq Tasks \X Files
                   /\ LibraryIsStored'
<1>1. library \subseteq Tasks \X Files /\ objects \subseteq Tasks \X Files
  BY DEF TypeOK
<1>2. ASSUME NEW t \in Tasks, work.task = t
      PROVE  Item \subseteq Tasks \X Files
  BY <1>2 DEF Item, WorkTyped
<1>3. ASSUME NEW t \in Tasks, work.task = t, work.at \in {"save", "index", "undo"}
      PROVE  Item \cap library = {}
  BY <1>3 DEF Item, WorkTyped, PollKnows, LibraryIsStored
<1>4. ASSUME library' = library, library \subseteq objects',
             objects' \subseteq Tasks \X Files
      PROVE  Goal
  BY <1>1, <1>4 DEF LibraryIsStored, Grows
<1>5. CASE UNCHANGED stored
  BY <1>1, <1>4, <1>5 DEF stored, LibraryIsStored
<1>6. ASSUME NEW t \in Tasks, Save(t) PROVE Goal
  <2>1. objects' \in {objects, objects \cup Item} /\ library' = library
    BY <1>6 DEF Save
  <2>2. Item \subseteq Tasks \X Files
    BY <1>2, <1>6 DEF Save
  <2>3. QED
    BY <1>1, <1>4, <2>1, <2>2 DEF LibraryIsStored
<1>7. ASSUME NEW t \in Tasks, Index(t) PROVE Goal
  <2>1. CASE library' = library
    BY <1>1, <1>4, <1>7, <2>1 DEF Index, LibraryIsStored
  <2>2. ASSUME library' = library \cup Item,
               Update(t, [row[t] EXCEPT !.saved = @ \cup work.file])
        PROVE  Goal
    <3>1. Item \subseteq Tasks \X Files /\ Item \subseteq objects /\ objects' = objects
      BY <1>2, <1>7 DEF Index, PollKnows
    <3>2. row \in [Tasks -> Rows] /\ row[t] \in Rows
      BY Typed
    <3>3. row'[t].saved = row[t].saved \cup work.file
      BY <2>2, <3>2 DEF Update, Rows
    <3>4. ASSUME NEW s \in Tasks, NEW f \in Files, <<s, f>> \in library'
          PROVE  f \in row'[s].saved
      <4>1. CASE <<s, f>> \in library
        BY <4>1 DEF LibraryIsStored, Grows
      <4>2. CASE <<s, f>> \in Item
        BY <1>7, <3>3, <4>2 DEF Item, Index
      <4>3. QED
        BY <2>2, <3>4, <4>1, <4>2
    <3>5. QED
      BY <1>1, <2>2, <3>1, <3>4 DEF LibraryIsStored
  <2>3. QED
    BY <1>7, <2>1, <2>2 DEF Index
<1>8. ASSUME NEW t \in Tasks, Undo(t) PROVE Goal
  <2>1. objects' \in {objects, objects \ Item} /\ library' = library
    BY <1>8 DEF Undo
  <2>2. Item \cap library = {}
    BY <1>3, <1>8 DEF Undo
  <2>3. QED
    BY <1>1, <1>4, <2>1, <2>2 DEF LibraryIsStored
<1>9. CASE RemoveFromLibrary
  <2>1. PICK i \in library : library' = library \ {i} /\ objects' = objects \ {i}
    BY <1>9 DEF RemoveFromLibrary
  <2>2. QED
    BY <1>1, <2>1 DEF LibraryIsStored, Grows
<1>10. ASSUME NEW t \in Tasks, Step(t) PROVE Goal
  BY <1>5, <1>6, <1>7, <1>8, <1>10
  DEF Step, CancelSource, CancelTorrent, Refuse, Submit, Add, Vanished, Watch,
      Pick, Finish, Clean, Check, Delete
<1>11. ASSUME NEW t \in Tasks,
              Create(t) \/ Poll(t) \/ Breaks(t) \/ Select(t) \/ Lapse(t)
                \/ LateAdd(t) \/ \E c \in Controls : Ask(t, c)
       PROVE  Goal
  BY <1>5, <1>11 DEF Create, Poll, Breaks, Select, Lapse, LateAdd, Ask
<1>12. CASE Controlled
  BY <1>5, <1>12 DEF Controlled, Control, Deny, Retry, Cancel, PauseOrResume
<1>13. CASE \/ Switch \/ Downloads \/ Removes \/ RemovesFiles \/ Trouble \/ Crash
            \/ UNCHANGED vars
  BY <1>5, <1>13 DEF Switch, Downloads, Removes, RemovesFiles, Trouble, Crash, vars
<1>14. QED
  BY <1>9, <1>10, <1>11, <1>12, <1>13 DEF Next

-----------------------------------------------------------------------------
(* The poll.                                                               *)

(* A step of others leaves the row of the task that is polled.             *)
RowKept ==
    \A t \in Tasks : work.task = t =>
        /\ row'[t].status = row[t].status /\ row'[t].stage = row[t].stage
        /\ row'[t].unconfirmed = row[t].unconfirmed
        /\ row'[t].saved = row[t].saved

(* Whatever the others do, what the poll has found stays so: the torrent   *)
(* it is about to delete does not become another's, as every add that may  *)
(* still take effect belongs to the one open task.                         *)
LEMMA PollStays ==
    ASSUME OwnersDistinct, IInv, Grows, TorrentMove, UNCHANGED work, RowKept,
           work.task \in Tasks /\ work.at = "index" => Item \subseteq objects'
    PROVE  PollKnows'
<1> USE DEF IInv
<1>1. SUFFICES ASSUME NEW t \in Tasks, work.task = t
               PROVE  /\ Open(t)'
                      /\ work.at = "add" => row'[t].unconfirmed
                      /\ work.at \in {"save", "index", "undo"} =>
                             work.file \cap row'[t].saved = {}
                      /\ work.at = "index" => Item \subseteq objects'
                      /\ work.at = "clean" => row'[t].stage = "cleaning"
                      /\ work.at = "delete" =>
                             /\ ~row'[t].unconfirmed
                             /\ torrent'.owner \in {Nobody, t}
                             /\ Owned(t)' => MayGo(t)'
  BY DEF PollKnows, Item
<1>2. /\ Open(t)'
      /\ work.at = "add" => row'[t].unconfirmed
      /\ work.at \in {"save", "index", "undo"} => work.file \cap row'[t].saved = {}
      /\ work.at = "index" => Item \subseteq objects'
      /\ work.at = "clean" => row'[t].stage = "cleaning"
      /\ work.at = "delete" => ~row'[t].unconfirmed
  BY <1>1 DEF PollKnows, RowKept, Open
<1>3. ASSUME work.at = "delete"
      PROVE  torrent'.owner \in {Nobody, t} /\ (Owned(t)' => MayGo(t)')
  <2>1. /\ torrent.owner \in {Nobody, t} /\ (Owned(t) => MayGo(t))
        /\ ~row[t].unconfirmed /\ Open(t)
    BY <1>1, <1>3 DEF PollKnows
  <2>2. torrent \in Torrents
    BY Typed
  <2>3. CASE Appears
    <3>1. PICK o \in Tasks : row[o].unconfirmed
      BY <1>3, <2>3 DEF Appears
    <3>2. Open(o)
      BY <3>1 DEF RowsTell, StageTells, Open
    <3>3. QED
      BY <2>1, <3>1, <3>2 DEF OneOpen
  <2>4. CASE torrent' = NoTorrent
    BY <1>1, <2>4 DEF NoTorrent, Owned, OwnersDistinct
  <2>5. CASE torrent'.owner = torrent.owner /\ torrent'.want = torrent.want
    BY <2>1, <2>5 DEF Owned, MayGo, Grows
  <2>6. CASE Wanted
    <3>1. CASE torrent.phase = "metadata" /\ torrent'.owner = torrent.owner
      BY <2>1, <3>1 DEF RemovalIsDue, MayGo, Grows, Owned
    <3>2. ASSUME NEW s \in Tasks, Owned(s), work.task # s PROVE FALSE
      BY <1>1, <2>1, <3>2 DEF Owned, OwnersDistinct
    <3>3. QED
      BY <2>2, <2>6, <3>1, <3>2 DEF Wanted, Torrents
  <2>7. ~(work.task \in Tasks /\ work' = Idle)
    BY DEF Idle, OwnersDistinct
  <2>8. QED
    BY <2>2, <2>3, <2>4, <2>5, <2>6, <2>7 DEF TorrentMove, Torrents
<1>4. QED
  BY <1>2, <1>3

LEMMA WorkTypes ==
    ASSUME OwnersDistinct, TypeOK, WorkTyped, [Next]_vars
    PROVE  WorkTyped' /\ aborted' \in BOOLEAN /\ enabled' \in BOOLEAN
<1> DEFINE Goal == WorkTyped' /\ aborted' \in BOOLEAN /\ enabled' \in BOOLEAN
<1>1. aborted \in BOOLEAN /\ enabled \in BOOLEAN /\ torrent.want \in SUBSET Files
  BY Typed DEF TypeOK
<1>2. ASSUME Done, UNCHANGED enabled PROVE Goal
  BY <1>1, <1>2 DEF Done, Idle, WorkTyped
<1>3. ASSUME NEW t \in Tasks, work.task = t,
             NEW step \in {"add", "delete", "clean", "index", "undo"}, Go(t, step),
             UNCHANGED enabled
      PROVE  Goal
  BY <1>1, <1>3 DEF Go, Idle, WorkTyped, OwnersDistinct
<1>4. ASSUME NEW t \in Tasks, work.task = t, NEW f \in Files,
             work' = [work EXCEPT !.at = "save", !.file = {f}],
             UNCHANGED <<aborted, enabled>>
      PROVE  Goal
  BY <1>1, <1>4 DEF Idle, WorkTyped, OwnersDistinct
<1>5. ASSUME UNCHANGED work, aborted' \in BOOLEAN, enabled' \in BOOLEAN PROVE Goal
  BY <1>5 DEF WorkTyped
<1>6. ASSUME NEW t \in Tasks, Poll(t) PROVE Goal
  BY <1>1, <1>6 DEF Poll, Idle, WorkTyped, OwnersDistinct
<1>7. ASSUME NEW t \in Tasks, CancelSource(t) \/ Refuse(t) \/ Vanished(t) \/ Breaks(t)
      PROVE  Goal
  BY <1>2, <1>7 DEF CancelSource, Refuse, Vanished, Breaks, Fail, FailWith
<1>8. ASSUME NEW t \in Tasks, Add(t) \/ Watch(t) \/ Undo(t) \/ Delete(t) PROVE Goal
  BY <1>2, <1>8 DEF Add, Watch, Undo, Delete, Fail, FailWith
<1>9. ASSUME NEW t \in Tasks,
             CancelTorrent(t) \/ Submit(t) \/ Finish(t) \/ Clean(t) \/ Check(t)
      PROVE  Goal
  BY <1>2, <1>3, <1>9
  DEF CancelTorrent, Submit, Finish, Clean, Check, Watching, Looks, Fail, FailWith
<1>10. ASSUME NEW t \in Tasks, Pick(t) PROVE Goal
  BY <1>1, <1>4, <1>10 DEF Pick, Watching, Looks
<1>11. ASSUME NEW t \in Tasks, Save(t) \/ Index(t) PROVE Goal
  BY <1>2, <1>3, <1>11 DEF Save, Index, Fail, FailWith
<1>12. ASSUME NEW t \in Tasks, Step(t) PROVE Goal
  BY <1>7, <1>8, <1>9, <1>10, <1>11, <1>12 DEF Step
<1>13. ASSUME NEW t \in Tasks,
              Create(t) \/ Select(t) \/ LateAdd(t) \/ Lapse(t)
                \/ \E c \in Controls : Ask(t, c)
       PROVE  Goal
  BY <1>1, <1>5, <1>13 DEF Create, Select, LateAdd, Lapse, Ask
<1>14. CASE Controlled
  BY <1>1, <1>5, <1>14 DEF Controlled, Control, Deny, Retry, Cancel, PauseOrResume
<1>15. CASE RemoveFromLibrary \/ Switch \/ Downloads
  BY <1>1, <1>5, <1>15 DEF RemoveFromLibrary, Switch, Downloads
<1>16. CASE Removes \/ RemovesFiles \/ Trouble \/ UNCHANGED vars
  BY <1>1, <1>5, <1>16 DEF Removes, RemovesFiles, Trouble, vars
<1>17. CASE Crash
  BY <1>2, <1>17 DEF Crash, Done
<1>18. QED
  BY <1>6, <1>7, <1>12, <1>13, <1>14, <1>15, <1>16, <1>17 DEF Next

(* The steps of the poll itself.                                           *)
LEMMA PollGoes ==
    ASSUME OwnersDistinct, IInv, WorkTyped', NEW t \in Tasks, Step(t)
    PROVE  PollKnows'
<1> USE DEF IInv
<1>1. /\ row \in [Tasks -> Rows] /\ row[t] \in Rows /\ StageTells(row[t])
      /\ torrent \in Torrents /\ torrent.want \in SUBSET Files
      /\ work = [task |-> work.task, at |-> work.at, file |-> work.file]
  BY Typed DEF RowsTell, WorkTyped
<1>2. work.task = t => Open(t)
  BY DEF PollKnows
<1>3. CASE Done
  BY <1>3 DEF Done, Idle, PollKnows, OwnersDistinct
<1>4. CASE CancelTorrent(t)
  <2> DEFINE r == [row[t] EXCEPT !.cleanup = TRUE, !.recent = TRUE,
                                 !.unconfirmed = FALSE]
  <2>1. CASE Update(t, r) /\ Go(t, "delete")
    <3>1. /\ row'[t].status = row[t].status /\ ~row'[t].unconfirmed
          /\ row'[t].cancel = row[t].cancel
      BY <1>1, <2>1 DEF Update, Rows
    <3>2. work'.task = t /\ work'.at = "delete" /\ torrent' = torrent /\ Owned(t)
      BY <1>1, <1>4, <2>1 DEF CancelTorrent, Go, downloader
    <3>3. row[t].cancel /\ Open(t)
      BY <1>1, <1>2, <1>4 DEF CancelTorrent, Cancelling, StageTells
    <3>4. QED
      BY <3>1, <3>2, <3>3 DEF PollKnows, Open, MayGo, Owned
  <2>2. QED
    BY <1>3, <1>4, <2>1 DEF CancelTorrent, Fail, FailWith
<1>5. CASE Submit(t)
  <2>1. row'[t].status = row[t].status /\ row'[t].unconfirmed
    BY <1>1, <1>5 DEF Submit, Update, Rows
  <2>2. work'.task = t /\ work'.at = "add" /\ work.task = t
    BY <1>1, <1>5 DEF Submit, Looks, Go
  <2>3. QED
    BY <1>2, <2>1, <2>2 DEF PollKnows, Open
<1>6. CASE Pick(t)
  <2>1. /\ Uploading(t).status = "running" /\ Uploading(t).saved = row[t].saved
    BY <1>1 DEF Uploading, Seen, Rows
  <2>2. row'[t] = Uploading(t)
    BY <1>1, <1>6 DEF Pick, Update
  <2>3. PICK f \in torrent.want \ row[t].saved :
            work' = [work EXCEPT !.at = "save", !.file = {f}]
    BY <1>6 DEF Pick
  <2>4. work'.task = t /\ work'.at = "save" /\ work'.file = {f}
    BY <1>1, <1>6, <2>3 DEF Pick, Watching, Looks
  <2>5. QED
    BY <2>1, <2>2, <2>3, <2>4 DEF PollKnows, Open
<1>7. CASE Finish(t)
  <2> DEFINE q == [Uploading(t) EXCEPT !.stage = "cleaning", !.cleanup = FALSE]
  <2>1. CASE Go(t, "clean") /\ Update(t, q)
    <3>1. q.status = "running" /\ q.stage = "cleaning"
      BY <1>1 DEF Uploading, Seen, Rows
    <3>2. row'[t] = q
      BY <1>1, <2>1 DEF Update
    <3>3. work'.task = t /\ work'.at = "clean"
      BY <1>1, <1>7, <2>1 DEF Finish, Watching, Looks, Go
    <3>4. QED
      BY <3>1, <3>2, <3>3 DEF PollKnows, Open
  <2>2. QED
    BY <1>3, <1>7, <2>1 DEF Finish
<1>8. CASE Clean(t)
  <2>1. work'.task = t /\ work'.at = "clean" /\ work.task = t /\ row' = row
    BY <1>1, <1>8 DEF Clean, Looks, Go
  <2>2. QED
    BY <1>2, <1>8, <2>1 DEF Clean, PollKnows, Open
<1>9. CASE Save(t)
  <2>1. CASE Go(t, "index") /\ objects' = objects \cup Item /\ row' = row
    <3>1. /\ work'.task = t /\ work'.at = "index" /\ work.task = t
          /\ work.at = "save" /\ work'.file = work.file
      BY <1>1, <1>9, <2>1 DEF Save, Go
    <3>2. Item' = Item
      BY <3>1 DEF Item
    <3>3. QED
      BY <1>2, <2>1, <3>1, <3>2 DEF PollKnows, Open
  <2>2. QED
    BY <1>3, <1>9, <2>1 DEF Save, Fail, FailWith
<1>10. CASE Index(t)
  <2>1. CASE Go(t, "undo") /\ row' = row
    <3>1. /\ work'.task = t /\ work'.at = "undo" /\ work.task = t
          /\ work.at = "index" /\ work'.file = work.file
      BY <1>1, <1>10, <2>1 DEF Index, Go
    <3>2. QED
      BY <1>2, <2>1, <3>1 DEF PollKnows, Open
  <2>2. QED
    BY <1>3, <1>10, <2>1 DEF Index
<1>11. CASE Check(t)
  <2>1. CASE /\ Go(t, "delete") /\ Update(t, [row[t] EXCEPT !.cleanup = TRUE])
             /\ Owned(t) /\ AllStored(t)
    <3>1. /\ row'[t].status = row[t].status /\ row'[t].saved = row[t].saved
          /\ row'[t].unconfirmed = row[t].unconfirmed
      BY <1>1, <2>1 DEF Update, Rows
    <3>2. /\ work'.task = t /\ work'.at = "delete" /\ torrent' = torrent
          /\ work.task = t /\ work.at = "clean"
      BY <1>1, <1>11, <2>1 DEF Check, Go, downloader
    <3>3. ~row[t].unconfirmed
      BY <1>1, <3>2 DEF PollKnows, StageTells
    <3>4. QED
      BY <1>2, <2>1, <3>1, <3>2, <3>3 DEF PollKnows, Open, MayGo, Owned, AllStored
  <2>2. QED
    BY <1>3, <1>11, <2>1 DEF Check, Fail, FailWith
<1>12. CASE CancelSource(t) \/ Refuse(t) \/ Add(t) \/ Vanished(t) \/ Watch(t)
              \/ Undo(t) \/ Delete(t)
  BY <1>3, <1>12
  DEF CancelSource, Refuse, Add, Vanished, Watch, Undo, Delete, Fail, FailWith
<1>13. QED
  BY <1>4, <1>5, <1>6, <1>7, <1>8, <1>9, <1>10, <1>11, <1>12 DEF Step

LEMMA PollStep ==
    ASSUME OwnersDistinct, IInv, Grows, TorrentMove, WorkTyped', [Next]_vars
    PROVE  PollKnows'
<1> USE DEF IInv
<1>1. /\ row \in [Tasks -> Rows]
      /\ \A t \in Tasks : row[t] \in Rows /\ StageTells(row[t])
  BY Typed DEF RowsTell
<1>2. ASSUME work' = Idle PROVE PollKnows'
  BY <1>2 DEF Idle, PollKnows, OwnersDistinct
<1>3. ASSUME NEW t \in Tasks, Poll(t) PROVE PollKnows'
  <2>1. work'.task = t /\ work'.at = "look" /\ row' = row
    BY <1>3 DEF Poll
  <2>2. Open(t)
    BY <1>3 DEF Poll, Open
  <2>3. QED
    BY <2>1, <2>2 DEF PollKnows, Open
<1>4. ASSUME UNCHANGED <<work, row>>, objects \subseteq objects' PROVE PollKnows'
  BY <1>4, PollStays DEF RowKept, PollKnows
<1>5. ASSUME NEW t \in Tasks, UNCHANGED <<work, objects>>,
             \/ UNCHANGED row
             \/ work.task # t /\ row' = [row EXCEPT ![t] = row'[t]]
      PROVE  PollKnows'
  <2>1. RowKept
    BY <1>1, <1>5 DEF RowKept
  <2>2. QED
    BY <1>5, <2>1, PollStays DEF PollKnows
<1>6. ASSUME NEW t \in Tasks, Create(t) PROVE PollKnows'
  <2>1. work.task # t /\ UNCHANGED <<work, objects>>
    BY <1>6 DEF Create, PollKnows, Open, stored
  <2>2. row' = [row EXCEPT ![t] = row'[t]]
    BY <1>1, <1>6 DEF Create, Update
  <2>3. QED
    BY <1>5, <2>1, <2>2
<1>7. ASSUME NEW t \in Tasks, Lapse(t) PROVE PollKnows'
  <2>1. UNCHANGED <<work, objects>>
    BY <1>7 DEF Lapse, stored
  <2>2. RowKept
    BY <1>1, <1>7 DEF Lapse, Update, RowKept, Rows
  <2>3. QED
    BY <2>1, <2>2, PollStays DEF PollKnows
<1>8. ASSUME NEW t \in Tasks,
             Select(t) \/ LateAdd(t) \/ \E c \in Controls : Ask(t, c)
      PROVE  PollKnows'
  BY <1>4, <1>8 DEF Select, LateAdd, Ask, stored
<1>9. ASSUME NEW a \in [task : Tasks, action : Controls], Control(a)
      PROVE  PollKnows'
  <2>1. a.task \in Tasks /\ work.task # a.task /\ UNCHANGED <<work, objects>>
    BY <1>9 DEF Control, Deny, Retry, Cancel, PauseOrResume, Granted, stored
  <2>2. UNCHANGED row \/ \E r : Update(a.task, r)
    BY <1>9 DEF Control, Deny, Retry, Cancel, PauseOrResume
  <2>3. UNCHANGED row \/ row' = [row EXCEPT ![a.task] = row'[a.task]]
    BY <1>1, <2>1, <2>2 DEF Update
  <2>4. QED
    BY <1>5, <2>1, <2>3
<1>10. CASE RemoveFromLibrary
  <2>1. PICK i \in library : objects' = objects \ {i}
    BY <1>10 DEF RemoveFromLibrary
  <2>2. ASSUME work.task \in Tasks, work.at = "index" PROVE Item \subseteq objects'
    BY <2>1, <2>2 DEF PollKnows, Item, LibraryIsStored, WorkTyped
  <2>3. UNCHANGED <<work, row>>
    BY <1>10 DEF RemoveFromLibrary
  <2>4. QED
    BY <2>2, <2>3, PollStays DEF RowKept
<1>11. CASE Switch \/ Downloads \/ Removes \/ RemovesFiles \/ Trouble \/ UNCHANGED vars
  BY <1>4, <1>11 DEF Switch, Downloads, Removes, RemovesFiles, Trouble, vars, stored
<1>12. ASSUME NEW t \in Tasks, Breaks(t) PROVE PollKnows'
  BY <1>2, <1>12 DEF Breaks, Fail, FailWith, Done
<1>13. CASE Crash
  BY <1>2, <1>13 DEF Crash
<1>14. ASSUME NEW t \in Tasks, Step(t) PROVE PollKnows'
  BY <1>14, PollGoes
<1>15. QED
  BY <1>3, <1>6, <1>7, <1>8, <1>9, <1>10, <1>11, <1>12, <1>13, <1>14
  DEF Next, Controlled

LEMMA AskedStep ==
    ASSUME IInv, Grows, [Next]_vars
    PROVE  asks' \subseteq [task : Tasks, action : Controls] /\ AskedExist'
<1> USE DEF IInv
<1>1. asks \subseteq [task : Tasks, action : Controls]
  BY DEF TypeOK
<1>2. ASSUME asks' \subseteq asks
      PROVE  asks' \subseteq [task : Tasks, action : Controls] /\ AskedExist'
  BY <1>1, <1>2 DEF AskedExist, Grows
<1>3. ASSUME NEW t \in Tasks, NEW c \in Controls, Ask(t, c)
      PROVE  asks' \subseteq [task : Tasks, action : Controls] /\ AskedExist'
  BY <1>1, <1>3 DEF Ask, AskedExist
<1>4. ASSUME NEW t \in Tasks, Step(t) PROVE asks' \subseteq asks
  BY <1>4
  DEF Step, CancelSource, CancelTorrent, Refuse, Submit, Add, Vanished, Watch,
      Pick, Finish, Clean, Save, Index, Undo, Check, Delete
<1>5. ASSUME NEW t \in Tasks,
             Create(t) \/ Poll(t) \/ Breaks(t) \/ Select(t) \/ Lapse(t) \/ LateAdd(t)
      PROVE  asks' \subseteq asks
  BY <1>5 DEF Create, Poll, Breaks, Select, Lapse, LateAdd
<1>6. CASE Controlled
  <2>1. asks' \subseteq asks
    BY <1>6 DEF Controlled, Control, Deny, Retry, Cancel, PauseOrResume, Granted
  <2>2. QED
    BY <1>2, <2>1
<1>7. CASE \/ RemoveFromLibrary \/ Switch \/ Downloads \/ Removes \/ RemovesFiles
           \/ Trouble \/ Crash \/ UNCHANGED vars
  <2>1. asks' \subseteq asks
    BY <1>7
    DEF RemoveFromLibrary, Switch, Downloads, Removes, RemovesFiles, Trouble, Crash,
        vars
  <2>2. QED
    BY <1>2, <2>1
<1>8. QED
  BY <1>2, <1>3, <1>4, <1>5, <1>6, <1>7 DEF Next

-----------------------------------------------------------------------------
(* The invariant, and what follows from it.                                *)

LEMMA InitHolds == OwnersDistinct /\ Init => IInv
<1> SUFFICES ASSUME OwnersDistinct, Init PROVE IInv
  OBVIOUS
<1> USE DEF Init
<1>1. TypeOK
  BY DEF OwnersDistinct, TypeOK, NoTorrent, Idle
<1>2. WorkTyped /\ PollKnows
  BY DEF OwnersDistinct, WorkTyped, PollKnows, Idle
<1>3. RowsTell /\ OneOpen /\ CancelledIsClean
  BY DEF RowsTell, StageTells, OneOpen, Open, CancelledIsClean
<1>4. RemovalIsDue /\ LateIsKnown /\ LibraryIsStored /\ AskedExist
  BY DEF RemovalIsDue, LateIsKnown, LibraryIsStored, AskedExist, NoTorrent
<1>5. QED
  BY <1>1, <1>2, <1>3, <1>4 DEF IInv

LEMMA NextHolds == OwnersDistinct /\ IInv /\ [Next]_vars => IInv'
<1> SUFFICES ASSUME OwnersDistinct, IInv, [Next]_vars PROVE IInv'
  OBVIOUS
<1>1. RowMove /\ TorrentMove /\ LateMove
  BY RowMoves, TorrentMoves, LateMoves
<1>2. TypeOK /\ WorkTyped /\ PollKnows
  BY DEF IInv
<1>3. DiskMove /\ disk' \in [Tasks -> SUBSET Files]
  BY <1>2, DiskMoves
<1>4. row' \in [Tasks -> Rows] /\ RowsTell' /\ OneOpen' /\ Grows
  BY <1>1, RowsStep, RowsGrow
<1>5. torrent' \in Torrents /\ RemovalIsDue'
  BY <1>1, <1>4, TorrentStep
<1>6. late' \subseteq Tasks /\ LateIsKnown'
  BY <1>1, <1>4, LateStep
<1>7. CancelledIsClean'
  BY <1>1, <1>3, <1>4, CancelledStep
<1>8. /\ library' \subseteq Tasks \X Files /\ objects' \subseteq Tasks \X Files
      /\ LibraryIsStored'
  BY <1>1, <1>4, LibraryStep
<1>9. WorkTyped' /\ aborted' \in BOOLEAN /\ enabled' \in BOOLEAN
  BY <1>2, WorkTypes
<1>10. PollKnows'
  BY <1>1, <1>4, <1>9, PollStep
<1>11. asks' \subseteq [task : Tasks, action : Controls] /\ AskedExist'
  BY <1>4, AskedStep
<1>12. TypeOK'
  <2>1. work'.task \in Tasks => row'[work'.task].status # "none"
    BY <1>10 DEF PollKnows, Open
  <2>2. QED
    BY <1>3, <1>4, <1>5, <1>6, <1>8, <1>9, <1>11, <2>1 DEF TypeOK, Rows, Torrents
<1>13. QED
  BY <1>4, <1>5, <1>6, <1>7, <1>8, <1>9, <1>10, <1>11, <1>12 DEF IInv

(* The invariant holds of every behaviour, whatever the numbers of tasks,  *)
(* files, failures and requests are (qbittorrentTasks.ts).                 *)
THEOREM TransferInvariant == OwnersDistinct => (Spec => []IInv)
<1> SUFFICES ASSUME OwnersDistinct PROVE Spec => []IInv
  OBVIOUS
<1>1. Init => IInv
  BY InitHolds
<1>2. IInv /\ [Next]_vars => IInv'
  BY NextHolds
<1>3. QED
  BY <1>1, <1>2, PTL DEF Spec

(* The rows keep the values of their columns, and a poll under way is of a *)
(* task that exists.                                                       *)
THEOREM TransferTypes == OwnersDistinct => (Spec => []TypeOK)
<1>1. IInv => TypeOK
  BY DEF IInv
<1>2. QED
  BY <1>1, TransferInvariant, PTL

(* No abort, retry, failed call, late add or crash makes the archive       *)
(* remove a source that is not stored or not its own, lose what it stored, *)
(* or leave something behind a cancelled task.                             *)
THEOREM SourcesKept == OwnersDistinct => (Spec => []SourceOrCopy)
<1>1. IInv => SourceOrCopy
  <2> SUFFICES ASSUME IInv PROVE SourceKept /\ EndsClean
    BY DEF SourceOrCopy
  <2> USE DEF IInv
  <2>1. SourceKept
    BY DEF SourceKept, RemovalIsDue, MayGo
  <2>2. ASSUME NEW t \in Tasks, row[t].status = "completed"
        PROVE  row[t].total # {} /\ row[t].total \subseteq row[t].saved
    BY <2>2 DEF RowsTell, StageTells
  <2>3. ASSUME NEW t \in Tasks, row[t].status = "cancelled"
        PROVE  ~Owned(t) /\ disk[t] = {} /\ t \notin late
    BY <2>3 DEF CancelledIsClean, LateIsKnown, RowsTell, StageTells
  <2>4. QED
    BY <2>1, <2>2, <2>3 DEF EndsClean, LibraryIsStored
<1>2. QED
  BY <1>1, TransferInvariant, PTL
=============================================================================

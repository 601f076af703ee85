----------------------------- MODULE MCServices -----------------------------
(* The services of the archive that share no state in these models, side   *)
(* by side: a behaviour chooses one of them, and only that one moves.  So  *)
(* one run of TLC checks an instance of each, as many runs would.          *)
EXTENDS Naturals, FiniteSets

CONSTANTS t1, t2, Nobody, Stranger,     \* torrent tasks
          f1, f2,                       \* files
          d1, d2                        \* folders

VARIABLE which  \* the service that moves

-----------------------------------------------------------------------------
(* One torrent of one file: two tasks for it, of which the second keeps    *)
(* its source, or one task with more faults and controls.                  *)

VARIABLES row, library, objects, torrent, disk, late, work, stopped, asks,
          enabled, faults, controls

torrents == <<row, library, objects, torrent, disk, late, work, stopped, asks,
              enabled, faults, controls>>

Torrents == INSTANCE QbittorrentTransfers WITH
    Tasks <- {t1, t2}, Files <- {f1}, Preserve <- {t2}, aborted <- stopped,
    MaxFaults <- 1, MaxControls <- 1

Torrent == INSTANCE QbittorrentTransfers WITH
    Tasks <- {t1}, Files <- {f1}, Preserve <- {}, aborted <- stopped,
    MaxFaults <- 2, MaxControls <- 2

-----------------------------------------------------------------------------
(* One image in the upload directory, with its derivatives; one stored     *)
(* elsewhere, whose copy, merged from chunks, lies there for its           *)
(* derivatives; two documents in folders, one merged from chunks.          *)

VARIABLES entry, body, old, overdue, copy, preview, flight, derive, view, scan, token,
          doomed, erase, failed, mishaps, deletes, views

files == <<entry, body, old, overdue, copy, preview, flight, derive, view, scan, token,
           doomed, erase, failed, mishaps, deletes, views>>

Image == INSTANCE FileLibrary WITH
    row <- entry, job <- derive, faults <- mishaps,
    Files <- {f1}, Media <- {f1}, Copied <- {}, Bare <- {}, Folders <- {d1},
    RecoverLimit <- 1, MaxFaults <- 1, MaxDeletes <- 1, MaxViews <- 1

Remote == INSTANCE FileLibrary WITH
    row <- entry, job <- derive, faults <- mishaps,
    Files <- {f1}, Media <- {f1}, Copied <- {f1}, Bare <- {f1}, Folders <- {d1},
    RecoverLimit <- 1, MaxFaults <- 2, MaxDeletes <- 1, MaxViews <- 0

Documents == INSTANCE FileLibrary WITH
    row <- entry, job <- derive, faults <- mishaps,
    Files <- {f1, f2}, Media <- {}, Copied <- {}, Bare <- {f1},
    Folders <- {d1, d2}, RecoverLimit <- 1, MaxFaults <- 0, MaxDeletes <- 1,
    MaxViews <- 0

-----------------------------------------------------------------------------
(* A channel job of two items, one at a time, with or without a prepared   *)
(* name, and any one fault.                                                *)

VARIABLES job, cooling, quota, item, given, journal, present, indexed, phase,
          verdict, exhausted, aborted, failure, stage, gone, stopping, pass,
          claim, troubles, orders

channel == <<job, cooling, quota, item, given, journal, present, indexed, phase,
             verdict, exhausted, aborted, failure, stage, gone, stopping, pass,
             claim, troubles, orders>>

Channel == INSTANCE ChannelDownloads WITH
    objects <- present, files <- indexed, faults <- troubles, controls <- orders,
    Items <- {f1, f2}, Window <- 1, Prepares <- BOOLEAN,
    Faults <- {"download", "store", "quota", "statement", "crash"},
    MaxFaults <- 1, MaxControls <- 0, MaxTroubles <- 1,
    Last <- {}, MaxClaims <- 3

-----------------------------------------------------------------------------

Libraries == {"image", "remote", "documents"}

Init ==
    /\ which \in {"torrents", "torrent", "image", "remote", "documents", "channel"}
    /\ IF which = "torrents" THEN Torrents!Init ELSE Torrent!Init
    /\ CASE which = "remote" -> Remote!Init
         [] which = "documents" -> Documents!Init
         [] OTHER -> Image!Init
    /\ Channel!Init

Next ==
    /\ UNCHANGED which
    /\ \/ /\ which \in {"torrents", "torrent"} /\ UNCHANGED <<files, channel>>
          /\ \/ which = "torrents" /\ Torrents!Next
             \/ which = "torrent" /\ Torrent!Next
       \/ which = "channel" /\ Channel!Next /\ UNCHANGED <<torrents, files>>
       \/ /\ which \in Libraries /\ UNCHANGED <<torrents, channel>>
          /\ \/ which = "image" /\ Image!Next
             \/ which = "remote" /\ Remote!Next
             \/ which = "documents" /\ Documents!Next

vars == <<which, torrents, files, channel>>

(* Fairness is that of the modules, asked of the service that moves.       *)
TorrentsFair ==
    /\ \A t \in {t1, t2} :
          /\ WF_torrents(which = "torrents" /\ Torrents!Poll(t))
          /\ WF_torrents(which = "torrents" /\ Torrents!Step(t))
          /\ WF_torrents(which = "torrents" /\ Torrents!Lapse(t))
    /\ WF_torrents(which = "torrents" /\ Torrents!Controlled)
    /\ WF_torrents(which = "torrents" /\ Torrents!Removes)
    /\ WF_torrents(which = "torrents" /\ Torrents!RemovesFiles)

FilesFair ==
    /\ WF_files(which = "image" /\ Image!Derive(f1))
    /\ WF_files(which = "remote" /\ Remote!Derive(f1))

ChannelFair ==
    /\ WF_channel(which = "channel" /\ Channel!Run)
    /\ WF_channel(which = "channel" /\ Channel!StopRun)
    /\ WF_channel(which = "channel" /\ Channel!CooldownEnds)
    /\ WF_channel(which = "channel" /\ Channel!Works)
    /\ WF_channel(which = "channel" /\ Channel!Recovers)
    /\ WF_channel(which = "channel" /\ Channel!LeasesLapse)

Spec == Init /\ [][Next]_vars /\ TorrentsFair /\ FilesFair /\ ChannelFair

-----------------------------------------------------------------------------
(* The properties of the modules, of the service that moves.               *)

(* No abort, retry, failed call or crash removes a source that is not      *)
(* stored or not the archive's own, loses what was stored, or leaves       *)
(* something behind a cancelled task (qbittorrentTasks.ts).                *)
SourceOrCopy ==
    IF which = "torrents" THEN Torrents!SourceOrCopy ELSE Torrent!SourceOrCopy

(* A cancellation of a torrent ends, through crashes and lost answers      *)
(* (qbittorrentTasks.ts, cancelTaskSource).                                *)
CancelEnds ==
    \A t \in {t1, t2} : []<>(which = "torrents" => Torrents!Attended(t))

(* Neither a clean-up, nor a crash, nor a deletion that showed other       *)
(* files, takes the object or the preview of a row, or the copy that a     *)
(* generation reads, or makes derivatives fail, but what only its age      *)
(* protects: an object older than ten minutes before its row could be      *)
(* read, and a copy of that age in the upload directory (orphanCleanup.ts, *)
(* folderOperations.ts, previewCache.ts).                                  *)
NothingNeededGoes ==
    IF which = "documents" THEN Documents!NothingNeededGoes
    ELSE IF which = "remote" THEN Remote!NothingNeededGoes
    ELSE Image!NothingNeededGoes

(* Every derivative job that was queued ends (mediaDerivatives.ts).        *)
DerivativesEnd ==
    which \in {"image", "remote"} => []<>(derive[f1] = "none")

(* Every item of an unfinished channel job ends, through cooldowns, failed *)
(* statements and crashes (telegramChannelJobs.ts).                        *)
ItemsEnd == which = "channel" => Channel!ItemsEnd
=============================================================================

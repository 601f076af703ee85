---------------------------- MODULE ChannelScan -----------------------------
(* A download of a channel by dates or by hashtag, from its creation to    *)
(* its files (telegramChannelJobs.ts): pages are read from the newest post *)
(* to the oldest, through whichever account may read, the types to load    *)
(* are chosen on a card, and whatever stops in between is taken up again.  *)
EXTENDS Naturals, FiniteSets, FiniteSetsExt

CONSTANTS
    Posts,          \* numbers of the channel's posts
    Searched,       \* posts that the request asks for: all, or a search's
    First, Last,    \* oldest and newest post between the dates
    Matches,        \* posts that are wanted: all, or those with the hashtag
    Media,          \* posts with a file
    Album,          \* Album[p]: posts of the same album, p among them
    Comments,       \* files in comments
    On,             \* On[c]: the post that comment c is on
    Type,           \* the type of each file
    Page,           \* TG_JOB_SCAN_SEGMENT_SIZE
    Accounts,       \* user accounts
    MaxCards,       \* bound: messages sent as the job's card
    MaxControls,    \* bound: presses and commands
    MaxTroubles     \* bound: failures, crashes and losses

VARIABLES
    job,        \* the row of telegram_background_jobs
    items,      \* the rows of telegram_download_items; "none": no row
    run,        \* runSegmentedTelegramJob of the job
    access,     \* what an account may read of the channel
    gone,       \* posts that were deleted
    card,       \* messages sent as the card, and the one on its way to the row
    controls,
    troubles

vars == <<job, items, run, access, gone, card, controls, troubles>>

Refs == Media \cup Comments
Types == {Type[r] : r \in Refs}
Pending == {r \in Refs : items[r] = "pending"}
TypesOf(S) == {Type[r] : r \in S}

(* The posts' files, with those of their albums.                           *)
WithAlbums(S) == S \cup (UNION {Album[p] : p \in S} \cap Media)
CommentsOf(S) == {c \in Comments : On[c] \in S}

Idle == [at |-> "off", confirmed |-> FALSE, reader |-> "none", found |-> {},
         left |-> {}, next |-> 0, done |-> FALSE]
At(step) == run.at = step
Goes(step) == run' = [run EXCEPT !.at = step]
Leaves == run' = Idle

Runnable == ~job.cancelled /\ ~job.paused
Trouble == troubles < MaxTroubles /\ troubles' = troubles + 1
Control == controls < MaxControls /\ controls' = controls + 1

-----------------------------------------------------------------------------
(* The job is created with the card of its dialogue, and runs.             *)

Create ==
    /\ job.status = "none"
    /\ job' = [job EXCEPT !.status = "queued", !.card = 1]
    /\ run' = [Idle EXCEPT !.at = "begin"]
    /\ UNCHANGED <<items, access, gone, card, controls, troubles>>

(* The run knows whether types were chosen before it began.                *)
Begin ==
    /\ At("begin")
    /\ IF job.cancelled \/ (job.status = "awaiting_selection" /\ ~job.confirmed)
       THEN Leaves
       ELSE /\ ~job.paused
            /\ run' = [run EXCEPT !.at = "start", !.confirmed = job.confirmed]
    /\ UNCHANGED <<job, items, access, gone, card, controls, troubles>>

Start ==
    /\ At("start")
    /\ IF Runnable /\ ~job.finished
       THEN /\ job' = [job EXCEPT !.status = "running",
                          !.scan = IF @ = "done" THEN "done" ELSE "scanning"]
            /\ Goes("check")
       ELSE run' = [run EXCEPT !.at = "defer"] /\ UNCHANGED job
    /\ UNCHANGED <<items, access, gone, card, controls, troubles>>

(* Its row was not to be had: it waits while the job is paused, and leaves *)
(* the job to the recovery.                                                *)
Defer ==
    /\ At("defer")
    /\ ~job.paused \/ job.cancelled
    /\ Leaves
    /\ UNCHANGED <<job, items, access, gone, card, controls, troubles>>

Check ==
    /\ At("check")
    /\ IF job.cancelled THEN Leaves
       ELSE ~job.paused /\ Goes(IF job.scan = "done" THEN "select" ELSE "page")
    /\ UNCHANGED <<job, items, access, gone, card, controls, troubles>>

-----------------------------------------------------------------------------
(* A page, through an account that has shown that it reads the channel: a  *)
(* public channel is joined, and the post where the last page ended seen.  *)

CheckpointSeen == job.offset \notin gone
Readable(a) == access[a] # "denied" /\ CheckpointSeen

Verify(a) ==
    /\ At("page") /\ run.reader = "none"
    /\ Readable(a)
    /\ access' = [access EXCEPT ![a] = "open"]
    /\ run' = [run EXCEPT !.reader = a]
    /\ UNCHANGED <<job, items, gone, card, controls, troubles>>

(* A refused read is tried through another account.                        *)
Refused ==
    /\ At("page") /\ run.reader # "none"
    /\ access[run.reader] = "denied"
    /\ run' = [run EXCEPT !.reader = "none"]
    /\ UNCHANGED <<job, items, access, gone, card, controls, troubles>>

Older == {p \in Searched \ gone : job.offset = 0 \/ p < job.offset}
Batch(a) ==
    IF access[a] = "open"
    THEN {p \in Older : Cardinality({q \in Older : q > p}) < Page}
    ELSE {}

(* scanTelegramChannelPage: the page ends at a post before the dates.      *)
Passed(batch) == {p \in batch : p < First}
NextOffset(batch) ==
    IF Passed(batch) # {} THEN Max(Passed(batch))
    ELSE IF batch # {} THEN Min(batch) ELSE job.offset

ReadPage ==
    /\ At("page") /\ run.reader # "none"
    /\ access[run.reader] # "denied"
    /\ LET batch == Batch(run.reader) IN
       run' = [run EXCEPT !.at = "album",
                   !.found = {p \in batch \cap Matches : First <= p /\ p <= Last},
                   !.next = NextOffset(batch),
                   !.done = Passed(batch) # {} \/ Cardinality(batch) < Page]
    /\ UNCHANGED <<job, items, access, gone, card, controls, troubles>>

(* persistTelegramDownloadRefs: a row that is there keeps its state.       *)
Listed(refs) == [r \in Refs |-> IF r \in refs /\ items[r] = "none" THEN "pending" ELSE items[r]]

(* The files of the page's albums, then those of the comments.             *)
PersistAlbums ==
    /\ At("album")
    /\ LET posts == WithAlbums(run.found) \ gone IN
       /\ items' = Listed(posts \cap Media)
       /\ run' = [run EXCEPT !.at = "comments", !.left = CommentsOf(posts)]
    /\ UNCHANGED <<job, access, gone, card, controls, troubles>>

PersistComment(c) ==
    /\ At("comments") /\ c \in run.left
    /\ items' = Listed({c})
    /\ run' = [run EXCEPT !.left = @ \ {c}]
    /\ UNCHANGED <<job, access, gone, card, controls, troubles>>

(* The cursor moves when the page's files are listed.                      *)
SaveCursor ==
    /\ At("comments") /\ run.left = {}
    /\ job' = [job EXCEPT !.offset = run.next,
                          !.scan = IF run.done THEN "done" ELSE "scanning"]
    /\ run' = [Idle EXCEPT !.at = "check", !.confirmed = run.confirmed]
    /\ UNCHANGED <<items, access, gone, card, controls, troubles>>

(* runChannelJob: what is thrown makes the job fail, unless it was stopped.*)
Failed(row) ==
    IF row.cancelled \/ row.paused \/ row.status = "completed" THEN row
    ELSE [row EXCEPT !.status = "failed", !.finished = TRUE]

Reading == run.at \in {"page", "album", "comments"}

ScanFails ==
    /\ Reading
    /\ \/ At("page") /\ (\A a \in Accounts : ~Readable(a)) /\ UNCHANGED troubles
       \/ job.cancelled /\ UNCHANGED troubles
       \/ Trouble
    /\ job' = Failed(job)
    /\ Leaves
    /\ UNCHANGED <<items, access, gone, card, controls>>

-----------------------------------------------------------------------------
(* prepareTelegramJobFileSelection: the types found are offered.           *)

Offers ==
    /\ At("select") /\ ~run.confirmed
    /\ Runnable /\ ~job.finished
    /\ Pending # {}
    /\ job' = [job EXCEPT !.status = "awaiting_selection", !.confirmed = FALSE,
                          !.available = TypesOf(Pending), !.selected = TypesOf(Pending)]
    /\ Leaves
    /\ UNCHANGED <<items, access, gone, card, controls, troubles>>

OffersNothing ==
    /\ At("select")
    /\ IF run.confirmed \/ (Runnable /\ ~job.finished /\ Pending = {}) THEN Goes("load")
       ELSE ~(Runnable /\ ~job.finished) /\ Leaves
    /\ UNCHANGED <<job, items, access, gone, card, controls, troubles>>

(* updateTelegramJobFileSelection: a press on the card that the row names. *)
Choosing(m) ==
    /\ Control
    /\ m \in 1..card.sent /\ m # card.lost /\ m = job.card
    /\ job.status = "awaiting_selection"
    /\ Runnable /\ ~job.finished

Toggle(m, type) ==
    /\ Choosing(m) /\ type \in job.available
    /\ job' = [job EXCEPT !.selected = IF type \in @ THEN @ \ {type} ELSE @ \cup {type}]
    /\ UNCHANGED <<items, run, access, gone, card, troubles>>

ChooseAll(m) ==
    /\ Choosing(m)
    /\ job' = [job EXCEPT !.selected = job.available]
    /\ UNCHANGED <<items, run, access, gone, card, troubles>>

Confirm(m) ==
    /\ Choosing(m) /\ job.selected # {}
    /\ items' = [r \in Refs |->
           IF r \in Pending /\ Type[r] \notin job.selected THEN "excluded" ELSE items[r]]
    /\ job' = [job EXCEPT !.status = "queued", !.confirmed = TRUE]
    /\ UNCHANGED <<run, access, gone, card, troubles>>

(* downloadPendingForJob; how a file is written is of ChannelDownloads.    *)
Load(r) ==
    /\ At("load") /\ Runnable /\ r \in Pending
    /\ \/ items' = [items EXCEPT ![r] = "success"] /\ UNCHANGED troubles
       \/ Trouble /\ items' = [items EXCEPT ![r] = "failed"]
    /\ UNCHANGED <<job, run, access, gone, card, controls>>

Finish ==
    /\ At("load")
    /\ IF job.cancelled THEN UNCHANGED job
       ELSE /\ Pending = {}
            /\ job' = IF job.paused THEN job
                      ELSE [job EXCEPT !.finished = TRUE,
                               !.status = IF \E r \in Refs : items[r] = "failed"
                                          THEN "completed_with_errors" ELSE "completed"]
    /\ Leaves
    /\ UNCHANGED <<items, access, gone, card, controls, troubles>>

-----------------------------------------------------------------------------
(* recoverInterruptedTelegramJobs, when the job does not run here.         *)

Repairs ==
    /\ At("off")
    /\ Runnable /\ Pending # {}
    /\ job.finished \/ job.status = "failed"
    /\ job' = [job EXCEPT !.status = "running", !.finished = FALSE]
    /\ UNCHANGED <<items, run, access, gone, card, controls, troubles>>

Recoverable ==
    /\ Runnable /\ ~job.finished
    /\ job.status \in {"queued", "running"}
    /\ Pending # {} \/ job.scan # "done" \/ ~job.confirmed

Recover ==
    /\ At("off") /\ Recoverable
    /\ run' = [Idle EXCEPT !.at = "begin"]
    /\ UNCHANGED <<job, items, access, gone, card, controls, troubles>>

Over == job.finished \/ job.status \in {"completed", "completed_with_errors", "cancelled"}

Pause ==
    /\ job.status # "none" /\ ~Over /\ Control
    /\ job' = [job EXCEPT !.status = "paused", !.paused = TRUE]
    /\ UNCHANGED <<items, run, access, gone, card, troubles>>

Resume ==
    /\ job.status = "paused" /\ ~job.cancelled
    /\ job' = [job EXCEPT !.paused = FALSE, !.finished = FALSE,
                  !.status = IF job.available # {} /\ ~job.confirmed
                             THEN "awaiting_selection" ELSE "running"]
    /\ UNCHANGED <<items, run, access, gone, card, controls, troubles>>

Cancel ==
    /\ job.status # "none" /\ ~Over /\ Control
    /\ job' = [job EXCEPT !.status = "cancelled", !.scan = "cancelled", !.paused = FALSE,
                          !.cancelled = TRUE, !.finished = TRUE]
    /\ items' = [r \in Refs |-> IF r \in Pending THEN "skipped" ELSE items[r]]
    /\ UNCHANGED <<run, access, gone, card, troubles>>

Retry ==
    /\ Runnable /\ job.status \in {"failed", "completed_with_errors"}
    /\ \E r \in Refs : items[r] = "failed"
    /\ Control
    /\ items' = [r \in Refs |-> IF items[r] = "failed" THEN "pending" ELSE items[r]]
    /\ job' = [job EXCEPT !.status = "running", !.finished = FALSE]
    /\ UNCHANGED <<run, access, gone, card, troubles>>

-----------------------------------------------------------------------------
(* syncTelegramChannelCards: a card that cannot be edited is sent again,   *)
(* and the row told afterwards.                                            *)

SendCard ==
    /\ job.status # "none" /\ ~job.finished
    /\ card.unsaved = 0 /\ card.lost = job.card
    /\ card.sent < MaxCards
    /\ card' = [card EXCEPT !.sent = @ + 1, !.unsaved = card.sent + 1]
    /\ UNCHANGED <<job, items, run, access, gone, controls, troubles>>

SaveCard ==
    /\ card.unsaved # 0
    /\ job' = [job EXCEPT !.card = card.unsaved]
    /\ card' = [card EXCEPT !.unsaved = 0]
    /\ UNCHANGED <<items, run, access, gone, controls, troubles>>

LoseCard ==
    /\ job.card # 0 /\ card.lost # job.card
    /\ Trouble
    /\ card' = [card EXCEPT !.lost = job.card]
    /\ UNCHANGED <<job, items, run, access, gone, controls>>

(* The channel: an account is expelled, a post is deleted.                 *)
Expel(a) ==
    /\ access[a] # "denied"
    /\ Trouble
    /\ access' = [access EXCEPT ![a] = "denied"]
    /\ UNCHANGED <<job, items, run, gone, card, controls>>

Delete(p) ==
    /\ p \notin gone
    /\ Trouble
    /\ gone' = gone \cup {p}
    /\ UNCHANGED <<job, items, run, access, card, controls>>

Crash ==
    /\ run.at # "off" \/ card.unsaved # 0
    /\ Trouble
    /\ Leaves
    /\ card' = [card EXCEPT !.unsaved = 0]
    /\ UNCHANGED <<job, items, access, gone, controls>>

-----------------------------------------------------------------------------
Init ==
    /\ job = [status |-> "none", scan |-> "pending", offset |-> 0, confirmed |-> FALSE,
              available |-> {}, selected |-> {}, paused |-> FALSE, cancelled |-> FALSE,
              finished |-> FALSE, card |-> 0]
    /\ items = [r \in Refs |-> "none"]
    /\ run = Idle
    /\ access \in [Accounts -> {"open", "unjoined"}]
    /\ gone = {}
    /\ card = [sent |-> 1, unsaved |-> 0, lost |-> 0]
    /\ controls = 0 /\ troubles = 0

Scans ==
    \/ Begin \/ Start \/ Defer \/ Check \/ Refused \/ ReadPage
    \/ PersistAlbums \/ SaveCursor \/ ScanFails
    \/ \E a \in Accounts : Verify(a)
    \/ \E c \in Comments : PersistComment(c)
Selects ==
    \/ Offers \/ OffersNothing \/ Finish \/ SendCard \/ SaveCard
    \/ \E m \in 1..MaxCards : ChooseAll(m) \/ Confirm(m)
    \/ \E m \in 1..MaxCards, type \in Types : Toggle(m, type)
    \/ \E r \in Refs : Load(r)
Controls == Create \/ Repairs \/ Recover \/ Pause \/ Resume \/ Cancel \/ Retry
Happens ==
    \/ LoseCard \/ Crash
    \/ \E a \in Accounts : Expel(a)
    \/ \E p \in Posts : Delete(p)

Next == Scans \/ Selects \/ Controls \/ Happens
Spec == Init /\ [][Next]_vars

-----------------------------------------------------------------------------
TypeOK ==
    /\ job \in [status : {"none", "queued", "running", "awaiting_selection", "paused",
                          "cancelled", "failed", "completed", "completed_with_errors"},
                scan : {"pending", "scanning", "done", "cancelled"},
                offset : Posts \cup {0}, confirmed : BOOLEAN, available : SUBSET Types,
                selected : SUBSET Types, paused : BOOLEAN, cancelled : BOOLEAN,
                finished : BOOLEAN, card : 0..MaxCards]
    /\ items \in [Refs -> {"none", "pending", "excluded", "success", "failed", "skipped"}]
    /\ run \in [at : {"off", "begin", "start", "defer", "check", "page", "album", "comments",
                      "select", "load"},
                confirmed : BOOLEAN, reader : Accounts \cup {"none"}, found : SUBSET Posts,
                left : SUBSET Comments, next : Posts \cup {0}, done : BOOLEAN]
    /\ access \in [Accounts -> {"open", "unjoined", "denied"}]
    /\ gone \subseteq Posts
    /\ card \in [sent : 1..MaxCards, unsaved : 0..MaxCards, lost : 0..MaxCards]
    /\ controls \in 0..MaxControls /\ troubles \in 0..MaxTroubles

(* The posts between the dates that are asked for, and what belongs to     *)
(* those that the scan has gone past.                                      *)
Asked == {p \in Searched \cap Matches : First <= p /\ p <= Last}
Past == {p \in Asked : job.scan = "done" \/ (job.offset # 0 /\ p >= job.offset)}
Wanted == LET posts == WithAlbums(Past) IN (posts \cap Media) \cup CommentsOf(posts)

(* Through crashes, pauses, floods and changes of accounts, no file is     *)
(* passed by: what lies before the cursor, or anywhere when the scan is    *)
(* done, has its row, unless its post was deleted (telegramChannelJobs.ts).*)
NothingPassedBy ==
    \A r \in Wanted :
        \/ items[r] # "none"
        \/ IF r \in Comments THEN WithAlbums({On[r]}) \cap gone # {} ELSE Album[r] \cap gone # {}

(* No file is loaded before types were confirmed, and none of a type that  *)
(* was not chosen, through retries and restarts.                           *)
OnlyChosen ==
    \A r \in Refs : items[r] \in {"success", "failed"} => job.confirmed /\ Type[r] \in job.selected

(* A job that is not over, not stopped and not asking is in a run, or the  *)
(* recovery takes it up; only one whose last file was settled by a run     *)
(* that crashed before it closed the job is left as it is.                 *)
NotStranded ==
    At("off") /\ job.status # "none" /\ ~job.finished /\ ~job.paused =>
        \/ Recoverable
        \/ job.status = "awaiting_selection" /\ ~job.confirmed /\ Pending # {}
        \/ /\ job.confirmed /\ job.scan = "done" /\ Pending = {}
           /\ \E r \in Refs : items[r] \in {"success", "failed"}

ScanKept == NothingPassedBy /\ OnlyChosen /\ NotStranded
=============================================================================

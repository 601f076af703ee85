---------------------------- MODULE MCComponents ----------------------------
(* More services, for their safety alone: a behaviour chooses one instance,*)
(* and is a behaviour of that one.  The variables below are those of the   *)
(* chosen instance, in the order its module declares them; the ones it does*)
(* not need are None.                                                      *)
EXTENDS Naturals, Sequences, FiniteSets

CONSTANTS e1, e2, e3  \* members of whatever sets an instance needs

VARIABLES
    which,  \* the chosen instance
    s1, s2, s3, s4, s5, s6, s7, s8, s9, s10, s11, s12, s13, s14, s15, s16, s17,
    s18, s19, s20, s21, s22

vars == <<which, s1, s2, s3, s4, s5, s6, s7, s8, s9, s10, s11, s12, s13, s14,
          s15, s16, s17, s18, s19, s20, s21, s22>>

None == "none"

-----------------------------------------------------------------------------
(* A channel job of one item with two failed writes or crashes and a       *)
(* control.                                                                *)

Channel == INSTANCE ChannelDownloads WITH
    Items <- {e1}, Window <- 1, Prepares <- {TRUE},
    Faults <- {"store", "crash"}, MaxFaults <- 2, MaxControls <- 1,
    MaxTroubles <- 3, Last <- {}, MaxClaims <- 3,
    job <- s1, cooling <- s2, quota <- s3, item <- s4, given <- s5,
    journal <- s6, objects <- s7, files <- s8, phase <- s9, verdict <- s10,
    exhausted <- s11, aborted <- s12, failure <- s13, stage <- s14,
    gone <- s15, stopping <- s16, pass <- s17, claim <- s18, faults <- s19,
    controls <- s20

-----------------------------------------------------------------------------
(* A subscription: two files in one job, or in two, or an advertisement    *)
(* that is restored and then scanned again.                                *)

TwoFiles == INSTANCE SubscriptionSync WITH
    MaxId <- 2, Files <- {1, 2}, Ads <- {}, ScanLimit <- 2, MaxJobs <- 1,
    MaxFaults <- 1, MaxControls <- 1,
    posts <- s1, sub <- s2, since <- s3, leapt <- s4, jobs <- s5, media <- s6,
    scan <- s7, works <- s8, verdict <- s9, restoring <- s10, fromNow <- s11,
    slips <- s12, wishes <- s13

TwoScans == INSTANCE SubscriptionSync WITH
    MaxId <- 2, Files <- {1, 2}, Ads <- {}, ScanLimit <- 1, MaxJobs <- 2,
    MaxFaults <- 1, MaxControls <- 0,
    posts <- s1, sub <- s2, since <- s3, leapt <- s4, jobs <- s5, media <- s6,
    scan <- s7, works <- s8, verdict <- s9, restoring <- s10, fromNow <- s11,
    slips <- s12, wishes <- s13

AnAd == INSTANCE SubscriptionSync WITH
    MaxId <- 1, Files <- {1}, Ads <- {1}, ScanLimit <- 1, MaxJobs <- 2,
    MaxFaults <- 1, MaxControls <- 0,
    posts <- s1, sub <- s2, since <- s3, leapt <- s4, jobs <- s5, media <- s6,
    scan <- s7, works <- s8, verdict <- s9, restoring <- s10, fromNow <- s11,
    slips <- s12, wishes <- s13

-----------------------------------------------------------------------------
(* The subscriptions of the page: two channels on pages of one row, whose  *)
(* change the page sends, or another makes too; the judgements; a channel  *)
(* that another deletes while a change is sent.                            *)

TwoRows == INSTANCE SubscriptionCenter WITH
    Subs <- {e1, e2}, Known <- <<e1, e2>>, Views <- {e3}, PageSize <- 1,
    MaxMoves <- 1, MaxChanges <- 1, MaxRivals <- 0, MaxTroubles <- 0,
    order <- s1, on <- s2, config <- s3, rules <- s4, verdicts <- s5,
    page <- s6, list <- s7, pick <- s8, shown <- s9, reads <- s10,
    change <- s11, floor <- s12, stale <- s13, crossed <- s14, moves <- s15,
    changes <- s16, rivals <- s17, troubles <- s18

TwoPages == INSTANCE SubscriptionCenter WITH
    Subs <- {e1, e2}, Known <- <<e1, e2>>, Views <- {e3}, PageSize <- 1,
    MaxMoves <- 0, MaxChanges <- 1, MaxRivals <- 1, MaxTroubles <- 1,
    order <- s1, on <- s2, config <- s3, rules <- s4, verdicts <- s5,
    page <- s6, list <- s7, pick <- s8, shown <- s9, reads <- s10,
    change <- s11, floor <- s12, stale <- s13, crossed <- s14, moves <- s15,
    changes <- s16, rivals <- s17, troubles <- s18

Judgements == INSTANCE SubscriptionCenter WITH
    Subs <- {e1}, Known <- <<e1>>, Views <- {e2, e3}, PageSize <- 1,
    MaxMoves <- 2, MaxChanges <- 0, MaxRivals <- 0, MaxTroubles <- 1,
    order <- s1, on <- s2, config <- s3, rules <- s4, verdicts <- s5,
    page <- s6, list <- s7, pick <- s8, shown <- s9, reads <- s10,
    change <- s11, floor <- s12, stale <- s13, crossed <- s14, moves <- s15,
    changes <- s16, rivals <- s17, troubles <- s18

ARow == INSTANCE SubscriptionCenter WITH
    Subs <- {e1}, Known <- <<e1>>, Views <- {e3}, PageSize <- 1, MaxMoves <- 1,
    MaxChanges <- 1, MaxRivals <- 1, MaxTroubles <- 0,
    order <- s1, on <- s2, config <- s3, rules <- s4, verdicts <- s5,
    page <- s6, list <- s7, pick <- s8, shown <- s9, reads <- s10,
    change <- s11, floor <- s12, stale <- s13, crossed <- s14, moves <- s15,
    changes <- s16, rivals <- s17, troubles <- s18

-----------------------------------------------------------------------------
(* A download by dates with its selection, and one by hashtag whose album  *)
(* reaches past a page, through two accounts.                              *)

ByDates == INSTANCE ChannelScan WITH
    Posts <- 1..4, Searched <- 1..4, First <- 2, Last <- 4, Matches <- 1..4,
    Media <- {1, 2, 4}, Album <- [p \in 1..4 |-> {p}], Comments <- {5},
    On <- [c \in {5} |-> 3], Type <- [r \in 1..5 |-> IF r = 4 THEN e1 ELSE e2],
    Page <- 2, Accounts <- {e1}, MaxCards <- 2, MaxControls <- 2,
    MaxTroubles <- 1,
    job <- s1, items <- s2, run <- s3, access <- s4, gone <- s5, card <- s6,
    controls <- s7, troubles <- s8

ByHashtag == INSTANCE ChannelScan WITH
    Posts <- 1..4, Searched <- {1, 3, 4}, First <- 1, Last <- 4,
    Matches <- {1, 4}, Media <- 1..4,
    Album <- [p \in 1..4 |-> IF p < 3 THEN {1, 2} ELSE {p}], Comments <- {5},
    On <- [c \in {5} |-> 2], Type <- [r \in 1..5 |-> e1], Page <- 1,
    Accounts <- {e1, e2}, MaxCards <- 1, MaxControls <- 1, MaxTroubles <- 2,
    job <- s1, items <- s2, run <- s3, access <- s4, gone <- s5, card <- s6,
    controls <- s7, troubles <- s8

-----------------------------------------------------------------------------
(* Every channel of eight numbers with one album, and some of six with two.*)

OneAlbum == INSTANCE AlbumExpansion WITH
    Top <- 8, Albums <- {e1},
    Layouts <- {f \in [1..8 -> {e1, "none", "foreign"}] : Cardinality({i \in 1..8 : f[i] = e1}) <= 5},
    Pages <- {4..5}, Reach <- 3, Full <- 5, Batch <- 2,
    layout <- s1, visited <- s2, groups <- s3

TwoAlbums == INSTANCE AlbumExpansion WITH
    Top <- 6, Albums <- {e1, e2},
    Layouts <- {f \in [1..6 -> {e1, e2, "none", "foreign"}] : Cardinality({i \in 1..6 : f[i] = e1}) <= 4 /\ f[3] = e1 /\ f[2] # "foreign"},
    Pages <- {3..4}, Reach <- 3, Full <- 4, Batch <- 2,
    layout <- s1, visited <- s2, groups <- s3

-----------------------------------------------------------------------------
(* One account, one call of a download, and the shortest cooldowns.        *)

Pool == INSTANCE UserClientPool WITH
    Downloads <- {e1}, Scans <- {}, MaxConnections <- 2, MaxClients <- 3,
    MaxNow <- 2, MaxTroubles <- 2,
    row <- s1, refused <- s2, refusing <- s3, entry <- s4, live <- s5,
    quarantine <- s6, notBefore <- s7, cooldown <- s8, life <- s9,
    asked <- s10, call <- s11, now <- s12, troubles <- s13

-----------------------------------------------------------------------------
(* A login by phone and a renewal by QR code, by two requests.             *)

Logins == INSTANCE AccountLogin WITH
    Phones <- {e1}, Qrs <- {e2}, Pinned <- {e2}, Requests <- {e1, e2},
    MaxErrors <- 2, MaxTroubles <- 1,
    flow <- s1, client <- s2, lock <- s3, request <- s4, session <- s5,
    wrote <- s6, troubles <- s7

-----------------------------------------------------------------------------
(* Two reads of a file, or one and another request, on a sender that is    *)
(* lost.                                                                   *)

Reads == INSTANCE UserTransport WITH
    Files <- {e1, e2}, Calls <- {}, Main <- FALSE, MaxFragments <- 2,
    MaxAttempts <- 2, MaxReplays <- 2, MaxConnections <- 5, MaxTroubles <- 2,
    generation <- s1, closed <- s2, failed <- s3, accountFailure <- s4,
    terminal <- s5, flight <- s6, open <- s7, made <- s8, up <- s9,
    loop <- s10, queue <- s11, pending <- s12, request <- s13, sent <- s14,
    active <- s15, flood <- s16, episode <- s17, limit <- s18, halved <- s19,
    responses <- s20, closing <- s21, troubles <- s22

ReadAndCall == INSTANCE UserTransport WITH
    Files <- {e1}, Calls <- {e2}, Main <- TRUE, MaxFragments <- 1,
    MaxAttempts <- 2, MaxReplays <- 2, MaxConnections <- 5, MaxTroubles <- 2,
    generation <- s1, closed <- s2, failed <- s3, accountFailure <- s4,
    terminal <- s5, flight <- s6, open <- s7, made <- s8, up <- s9,
    loop <- s10, queue <- s11, pending <- s12, request <- s13, sent <- s14,
    active <- s15, flood <- s16, episode <- s17, limit <- s18, halved <- s19,
    responses <- s20, closing <- s21, troubles <- s22

-----------------------------------------------------------------------------
(* One bot with credentials of its own or of the environment, one change of*)
(* them, and two failures.                                                 *)

Bot == INSTANCE BotLifecycle WITH
    Creds <- {e1, e2}, Env <- e1, None <- e3, MaxAttempts <- 2,
    MaxClients <- 4, MaxRequests <- 1, MaxTroubles <- 2,
    saved <- s1, lane <- s2, run <- s3, aborted <- s4, blocked <- s5,
    owned <- s6, client <- s7, clients <- s8, status <- s9, attempt <- s10,
    retry <- s11, watch <- s12, later <- s13, workers <- s14, scanning <- s15,
    runtime <- s16, transfer <- s17, undone <- s18, requests <- s19,
    troubles <- s20

-----------------------------------------------------------------------------
(* Two reads from one data centre and three losses.                        *)

Link == INSTANCE BotTransport WITH
    Dcs <- {1}, Callers <- {e1, e2}, MaxSenders <- 4, MaxTroubles <- 3,
    closed <- s1, failure <- s2, sender <- s3, slot <- s4, caller <- s5,
    destroying <- s6, troubles <- s7

-----------------------------------------------------------------------------
(* A download that is composed while targets are chosen, or two drafts of a*)
(* subscription.                                                           *)

ADraft == INSTANCE BotDialogues WITH
    Openings <- {<<"download", "mode">>}, Presses <- {e1}, MaxDrafts <- 1,
    MaxPicks <- 1, MaxTroubles <- 1,
    drafts <- s1, store <- s2, tasks <- s3, pick <- s4, picks <- s5,
    taken <- s6, troubles <- s7

TwoDrafts == INSTANCE BotDialogues WITH
    Openings <- {<<"manage", "source">>}, Presses <- {e1}, MaxDrafts <- 2,
    MaxPicks <- 0, MaxTroubles <- 1,
    drafts <- s1, store <- s2, tasks <- s3, pick <- s4, picks <- s5,
    taken <- s6, troubles <- s7

-----------------------------------------------------------------------------
(* A file sent to the bot, with two failures and a control, or an album of *)
(* two with one failure.                                                   *)

AFile == INSTANCE OrdinaryTransfers WITH
    Files <- {e1}, Album <- FALSE, Prepared <- TRUE, MaxArrivals <- 1,
    MaxTasks <- 2, MaxControls <- 1, MaxTroubles <- 2,
    row <- s1, ref <- s2, path <- s3, objects <- s4, hand <- s5, queues <- s6,
    current <- s7, timer <- s8, batch <- s9, group <- s10, tasks <- s11,
    failures <- s12, news <- s13, pass <- s14, late <- s15, twice <- s16,
    torn <- s17, arrivals <- s18, made <- s19, controls <- s20, troubles <- s21

AnAlbum == INSTANCE OrdinaryTransfers WITH
    Files <- {e1, e2}, Album <- TRUE, Prepared <- FALSE, MaxArrivals <- 2,
    MaxTasks <- 2, MaxControls <- 0, MaxTroubles <- 1,
    row <- s1, ref <- s2, path <- s3, objects <- s4, hand <- s5, queues <- s6,
    current <- s7, timer <- s8, batch <- s9, group <- s10, tasks <- s11,
    failures <- s12, news <- s13, pass <- s14, late <- s15, twice <- s16,
    torn <- s17, arrivals <- s18, made <- s19, controls <- s20, troubles <- s21

-----------------------------------------------------------------------------
(* A channel job and an ordinary download: two confirmations of the web    *)
(* page while the tasks go on, or two prompts of the bot.                  *)

ByWeb == INSTANCE TaskCentre WITH
    Jobs <- {e1}, Groups <- {e2}, Cards <- {}, MaxEvents <- 2, MaxPrompts <- 0,
    MaxTokens <- 2,
    jobs <- s1, groups <- s2, rows <- s3, told <- s4, dismissed <- s5,
    prompts <- s6, pending <- s7, tokens <- s8, handlers <- s9, stopped <- s10,
    events <- s11, issued <- s12

ByCard == INSTANCE TaskCentre WITH
    Jobs <- {e1}, Groups <- {e2}, Cards <- {e3}, MaxEvents <- 1,
    MaxPrompts <- 2, MaxTokens <- 0,
    jobs <- s1, groups <- s2, rows <- s3, told <- s4, dismissed <- s5,
    prompts <- s6, pending <- s7, tokens <- s8, handlers <- s9, stopped <- s10,
    events <- s11, issued <- s12

-----------------------------------------------------------------------------
(* A file and two confirmations, or two files and one.                     *)

OneFile == INSTANCE BotFileCommands WITH
    Files <- {e1}, MaxAsks <- 2, MaxTroubles <- 1,
    stage <- s1, objects <- s2, rows <- s3, asks <- s4, handlers <- s5,
    named <- s6, orphaned <- s7, removed <- s8, torn <- s9, troubles <- s10

ManyFiles == INSTANCE BotFileCommands WITH
    Files <- {e1, e2}, MaxAsks <- 1, MaxTroubles <- 1,
    stage <- s1, objects <- s2, rows <- s3, asks <- s4, handlers <- s5,
    named <- s6, orphaned <- s7, removed <- s8, torn <- s9, troubles <- s10

-----------------------------------------------------------------------------
(* The uploads of the page: a large file, or a small and a large one that  *)
(* take turns.                                                             *)

LargeUpload == INSTANCE WebUploads WITH
    Files <- {e1}, Large <- {e1}, Limit <- 1, Chunks <- 2, MaxSessions <- 2,
    MaxAdds <- 2, MaxStops <- 1, MaxTroubles <- 1,
    task <- s1, queue <- s2, paused <- s3, adds <- s4, pc <- s5, aborted <- s6,
    attached <- s7, known <- s8, view <- s9, closing <- s10, recovered <- s11,
    resuming <- s12, reload <- s13, page <- s14, online <- s15, session <- s16,
    stored <- s17, told <- s18, requests <- s19, doubt <- s20, stops <- s21,
    troubles <- s22

InTurns == INSTANCE WebUploads WITH
    Files <- {e1, e2}, Large <- {e1}, Limit <- 1, Chunks <- 1,
    MaxSessions <- 2, MaxAdds <- 1, MaxStops <- 1, MaxTroubles <- 1,
    task <- s1, queue <- s2, paused <- s3, adds <- s4, pc <- s5, aborted <- s6,
    attached <- s7, known <- s8, view <- s9, closing <- s10, recovered <- s11,
    resuming <- s12, reload <- s13, page <- s14, online <- s15, session <- s16,
    stored <- s17, told <- s18, requests <- s19, doubt <- s20, stops <- s21,
    troubles <- s22

-----------------------------------------------------------------------------
(* The file list of the page: two folders, and one change.                 *)

FileList == INSTANCE WebFiles WITH
    Ids <- 1..3, Folders <- {e1, e2},
    Home <- [i \in 1..3 |-> IF i = 2 THEN "gone" ELSE e1], PageSize <- 1,
    MaxOps <- 1, MaxMoves <- 2, MaxTroubles <- 1,
    at <- s1, route <- s2, list <- s3, cache <- s4, timer <- s5, armed <- s6,
    req <- s7, loading <- s8, more <- s9, error <- s10, op <- s11,
    stats <- s12, counting <- s13, strayed <- s14, ghosts <- s15, ops <- s16,
    moves <- s17, troubles <- s18

-----------------------------------------------------------------------------
(* A new host that lacks a plugin, installed in two runs, or a host in use *)
(* that is upgraded and backed up.                                         *)

ANewHost == INSTANCE Deployment WITH
    Hosts <- {"fresh"}, Present <- {"docker", "daemon", "python3", "git"},
    Offered <- {"compose", "buildx"}, MaxRev <- 2, MaxRuns <- 2,
    MaxBackups <- 0, MaxTroubles <- 1,
    tools <- s1, env <- s2, password <- s3, pc <- s4, run <- s5, source <- s6,
    published <- s7, app <- s8, mount <- s9, kept <- s10, dir <- s11,
    pg <- s12, volume <- s13, schema <- s14, work <- s15, job <- s16,
    backup <- s17, runs <- s18, backups <- s19, troubles <- s20

AnOldHost == INSTANCE Deployment WITH
    Hosts <- {"legacy"}, Present <- {}, Offered <- {"compose", "buildx"},
    MaxRev <- 2, MaxRuns <- 1, MaxBackups <- 1, MaxTroubles <- 1,
    tools <- s1, env <- s2, password <- s3, pc <- s4, run <- s5, source <- s6,
    published <- s7, app <- s8, mount <- s9, kept <- s10, dir <- s11,
    pg <- s12, volume <- s13, schema <- s14, work <- s15, job <- s16,
    backup <- s17, runs <- s18, backups <- s19, troubles <- s20

-----------------------------------------------------------------------------
(* A file sent to OneDrive in one request or by two fragments.             *)

OneDrive == INSTANCE OneDriveUploads WITH
    Sizes <- {0, 2}, Attempts <- 2, MaxTroubles <- 4,
    fragments <- s1, folder <- s2, target <- s3, other <- s4, made <- s5,
    session <- s6, strays <- s7, late <- s8, pc <- s9, cause <- s10, at <- s11,
    tries <- s12, restarts <- s13, blind <- s14, left <- s15, troubles <- s16

-----------------------------------------------------------------------------
(* Two files sent into the same folders of Google Drive: into two, by two  *)
(* provider objects of the account, or into one by one object with more    *)
(* troubles.                                                               *)

Google == INSTANCE GoogleUploads WITH
    Writes <- {e1, e2}, Depth <- 2, Providers <- 2, Attempts <- 2,
    MaxTroubles <- 2,
    folders <- s1, born <- s2, provider <- s3, cache <- s4, lock <- s5,
    makes <- s6, w <- s7, files <- s8, copies <- s9, late <- s10, blind <- s11,
    troubles <- s12

OneObject == INSTANCE GoogleUploads WITH
    Writes <- {e1, e2}, Depth <- 1, Providers <- 1, Attempts <- 2,
    MaxTroubles <- 3,
    folders <- s1, born <- s2, provider <- s3, cache <- s4, lock <- s5,
    makes <- s6, w <- s7, files <- s8, copies <- s9, late <- s10, blind <- s11,
    troubles <- s12

-----------------------------------------------------------------------------
(* Two files sent into one new directory of OpenList, WebDAV, S3 or OSS.   *)

Paths == INSTANCE PathUploads WITH
    Kinds <- {"openlist", "webdav", "plain"}, Writes <- {e1, e2},
    MaxTroubles <- 3,
    kind <- s1, token <- s2, dir <- s3, file <- s4, pc <- s5, again <- s6,
    late <- s7, blind <- s8, troubles <- s9

-----------------------------------------------------------------------------
(* A worker with two calls after its initialization.                       *)

Worker == INSTANCE WorkerCalls WITH
    Boot <- e3, Others <- {e1, e2}, MaxQueue <- 2, MaxTroubles <- 2,
    process <- s1, live <- s2, destroying <- s3, destroyed <- s4, call <- s5,
    work <- s6, down <- s7, back <- s8, frozen <- s9, troubles <- s10

-----------------------------------------------------------------------------
Init ==
    \/ which = "channel" /\ Channel!Init
       /\ s21 = None /\ s22 = None
    \/ which = "twoFiles" /\ TwoFiles!Init
       /\ s14 = None /\ s15 = None /\ s16 = None /\ s17 = None /\ s18 = None
       /\ s19 = None /\ s20 = None /\ s21 = None /\ s22 = None
    \/ which = "twoScans" /\ TwoScans!Init
       /\ s14 = None /\ s15 = None /\ s16 = None /\ s17 = None /\ s18 = None
       /\ s19 = None /\ s20 = None /\ s21 = None /\ s22 = None
    \/ which = "anAd" /\ AnAd!Init
       /\ s14 = None /\ s15 = None /\ s16 = None /\ s17 = None /\ s18 = None
       /\ s19 = None /\ s20 = None /\ s21 = None /\ s22 = None
    \/ which = "twoRows" /\ TwoRows!Init
       /\ s19 = None /\ s20 = None /\ s21 = None /\ s22 = None
    \/ which = "twoPages" /\ TwoPages!Init
       /\ s19 = None /\ s20 = None /\ s21 = None /\ s22 = None
    \/ which = "judgements" /\ Judgements!Init
       /\ s19 = None /\ s20 = None /\ s21 = None /\ s22 = None
    \/ which = "aRow" /\ ARow!Init
       /\ s19 = None /\ s20 = None /\ s21 = None /\ s22 = None
    \/ which = "byDates" /\ ByDates!Init
       /\ s9 = None /\ s10 = None /\ s11 = None /\ s12 = None /\ s13 = None
       /\ s14 = None /\ s15 = None /\ s16 = None /\ s17 = None /\ s18 = None
       /\ s19 = None /\ s20 = None /\ s21 = None /\ s22 = None
    \/ which = "byHashtag" /\ ByHashtag!Init
       /\ s9 = None /\ s10 = None /\ s11 = None /\ s12 = None /\ s13 = None
       /\ s14 = None /\ s15 = None /\ s16 = None /\ s17 = None /\ s18 = None
       /\ s19 = None /\ s20 = None /\ s21 = None /\ s22 = None
    \/ which = "oneAlbum" /\ OneAlbum!Init
       /\ s4 = None /\ s5 = None /\ s6 = None /\ s7 = None /\ s8 = None /\ s9 = None
       /\ s10 = None /\ s11 = None /\ s12 = None /\ s13 = None /\ s14 = None
       /\ s15 = None /\ s16 = None /\ s17 = None /\ s18 = None /\ s19 = None
       /\ s20 = None /\ s21 = None /\ s22 = None
    \/ which = "twoAlbums" /\ TwoAlbums!Init
       /\ s4 = None /\ s5 = None /\ s6 = None /\ s7 = None /\ s8 = None /\ s9 = None
       /\ s10 = None /\ s11 = None /\ s12 = None /\ s13 = None /\ s14 = None
       /\ s15 = None /\ s16 = None /\ s17 = None /\ s18 = None /\ s19 = None
       /\ s20 = None /\ s21 = None /\ s22 = None
    \/ which = "pool" /\ Pool!Init
       /\ s14 = None /\ s15 = None /\ s16 = None /\ s17 = None /\ s18 = None
       /\ s19 = None /\ s20 = None /\ s21 = None /\ s22 = None
    \/ which = "login" /\ Logins!Init
       /\ s8 = None /\ s9 = None /\ s10 = None /\ s11 = None /\ s12 = None /\ s13 = None
       /\ s14 = None /\ s15 = None /\ s16 = None /\ s17 = None /\ s18 = None
       /\ s19 = None /\ s20 = None /\ s21 = None /\ s22 = None
    \/ which = "reads" /\ Reads!Init
    \/ which = "call" /\ ReadAndCall!Init
    \/ which = "bot" /\ Bot!Init
       /\ s21 = None /\ s22 = None
    \/ which = "link" /\ Link!Init
       /\ s8 = None /\ s9 = None /\ s10 = None /\ s11 = None /\ s12 = None /\ s13 = None
       /\ s14 = None /\ s15 = None /\ s16 = None /\ s17 = None /\ s18 = None
       /\ s19 = None /\ s20 = None /\ s21 = None /\ s22 = None
    \/ which = "draft" /\ ADraft!Init
       /\ s8 = None /\ s9 = None /\ s10 = None /\ s11 = None /\ s12 = None /\ s13 = None
       /\ s14 = None /\ s15 = None /\ s16 = None /\ s17 = None /\ s18 = None
       /\ s19 = None /\ s20 = None /\ s21 = None /\ s22 = None
    \/ which = "twoDrafts" /\ TwoDrafts!Init
       /\ s8 = None /\ s9 = None /\ s10 = None /\ s11 = None /\ s12 = None /\ s13 = None
       /\ s14 = None /\ s15 = None /\ s16 = None /\ s17 = None /\ s18 = None
       /\ s19 = None /\ s20 = None /\ s21 = None /\ s22 = None
    \/ which = "file" /\ AFile!Init
       /\ s22 = None
    \/ which = "album" /\ AnAlbum!Init
       /\ s22 = None
    \/ which = "web" /\ ByWeb!Init
       /\ s13 = None /\ s14 = None /\ s15 = None /\ s16 = None /\ s17 = None
       /\ s18 = None /\ s19 = None /\ s20 = None /\ s21 = None /\ s22 = None
    \/ which = "card" /\ ByCard!Init
       /\ s13 = None /\ s14 = None /\ s15 = None /\ s16 = None /\ s17 = None
       /\ s18 = None /\ s19 = None /\ s20 = None /\ s21 = None /\ s22 = None
    \/ which = "oneFile" /\ OneFile!Init
       /\ s11 = None /\ s12 = None /\ s13 = None /\ s14 = None /\ s15 = None
       /\ s16 = None /\ s17 = None /\ s18 = None /\ s19 = None /\ s20 = None
       /\ s21 = None /\ s22 = None
    \/ which = "files" /\ ManyFiles!Init
       /\ s11 = None /\ s12 = None /\ s13 = None /\ s14 = None /\ s15 = None
       /\ s16 = None /\ s17 = None /\ s18 = None /\ s19 = None /\ s20 = None
       /\ s21 = None /\ s22 = None
    \/ which = "large" /\ LargeUpload!Init
    \/ which = "inTurns" /\ InTurns!Init
    \/ which = "list" /\ FileList!Init
       /\ s19 = None /\ s20 = None /\ s21 = None /\ s22 = None
    \/ which = "newHost" /\ ANewHost!Init
       /\ s21 = None /\ s22 = None
    \/ which = "oldHost" /\ AnOldHost!Init
       /\ s21 = None /\ s22 = None
    \/ which = "onedrive" /\ OneDrive!Init
       /\ s17 = None /\ s18 = None /\ s19 = None /\ s20 = None /\ s21 = None
       /\ s22 = None
    \/ which = "google" /\ Google!Init
       /\ s13 = None /\ s14 = None /\ s15 = None /\ s16 = None /\ s17 = None
       /\ s18 = None /\ s19 = None /\ s20 = None /\ s21 = None /\ s22 = None
    \/ which = "oneObject" /\ OneObject!Init
       /\ s13 = None /\ s14 = None /\ s15 = None /\ s16 = None /\ s17 = None
       /\ s18 = None /\ s19 = None /\ s20 = None /\ s21 = None /\ s22 = None
    \/ which = "paths" /\ Paths!Init
       /\ s10 = None /\ s11 = None /\ s12 = None /\ s13 = None /\ s14 = None
       /\ s15 = None /\ s16 = None /\ s17 = None /\ s18 = None /\ s19 = None
       /\ s20 = None /\ s21 = None /\ s22 = None
    \/ which = "worker" /\ Worker!Init
       /\ s11 = None /\ s12 = None /\ s13 = None /\ s14 = None /\ s15 = None
       /\ s16 = None /\ s17 = None /\ s18 = None /\ s19 = None /\ s20 = None
       /\ s21 = None /\ s22 = None

(* A step of the chosen instance; what it does not need stays as it is.    *)
Next ==
    /\ UNCHANGED which
    /\ \/ which = "channel" /\ Channel!Next
          /\ UNCHANGED <<s21, s22>>
       \/ which = "twoFiles" /\ TwoFiles!Next
          /\ UNCHANGED <<s14, s15, s16, s17, s18, s19, s20, s21, s22>>
       \/ which = "twoScans" /\ TwoScans!Next
          /\ UNCHANGED <<s14, s15, s16, s17, s18, s19, s20, s21, s22>>
       \/ which = "anAd" /\ AnAd!Next
          /\ UNCHANGED <<s14, s15, s16, s17, s18, s19, s20, s21, s22>>
       \/ which = "twoRows" /\ TwoRows!Next
          /\ UNCHANGED <<s19, s20, s21, s22>>
       \/ which = "twoPages" /\ TwoPages!Next
          /\ UNCHANGED <<s19, s20, s21, s22>>
       \/ which = "judgements" /\ Judgements!Next
          /\ UNCHANGED <<s19, s20, s21, s22>>
       \/ which = "aRow" /\ ARow!Next
          /\ UNCHANGED <<s19, s20, s21, s22>>
       \/ which = "byDates" /\ ByDates!Next
          /\ UNCHANGED <<s9, s10, s11, s12, s13, s14, s15, s16, s17, s18, s19,
             s20, s21, s22>>
       \/ which = "byHashtag" /\ ByHashtag!Next
          /\ UNCHANGED <<s9, s10, s11, s12, s13, s14, s15, s16, s17, s18, s19,
             s20, s21, s22>>
       \/ which = "oneAlbum" /\ OneAlbum!Next
          /\ UNCHANGED <<s4, s5, s6, s7, s8, s9, s10, s11, s12, s13, s14, s15,
             s16, s17, s18, s19, s20, s21, s22>>
       \/ which = "twoAlbums" /\ TwoAlbums!Next
          /\ UNCHANGED <<s4, s5, s6, s7, s8, s9, s10, s11, s12, s13, s14, s15,
             s16, s17, s18, s19, s20, s21, s22>>
       \/ which = "pool" /\ Pool!Next
          /\ UNCHANGED <<s14, s15, s16, s17, s18, s19, s20, s21, s22>>
       \/ which = "login" /\ Logins!Next
          /\ UNCHANGED <<s8, s9, s10, s11, s12, s13, s14, s15, s16, s17, s18,
             s19, s20, s21, s22>>
       \/ which = "reads" /\ Reads!Next
       \/ which = "call" /\ ReadAndCall!Next
       \/ which = "bot" /\ Bot!Next
          /\ UNCHANGED <<s21, s22>>
       \/ which = "link" /\ Link!Next
          /\ UNCHANGED <<s8, s9, s10, s11, s12, s13, s14, s15, s16, s17, s18,
             s19, s20, s21, s22>>
       \/ which = "draft" /\ ADraft!Next
          /\ UNCHANGED <<s8, s9, s10, s11, s12, s13, s14, s15, s16, s17, s18,
             s19, s20, s21, s22>>
       \/ which = "twoDrafts" /\ TwoDrafts!Next
          /\ UNCHANGED <<s8, s9, s10, s11, s12, s13, s14, s15, s16, s17, s18,
             s19, s20, s21, s22>>
       \/ which = "file" /\ AFile!Next
          /\ UNCHANGED <<s22>>
       \/ which = "album" /\ AnAlbum!Next
          /\ UNCHANGED <<s22>>
       \/ which = "web" /\ ByWeb!Next
          /\ UNCHANGED <<s13, s14, s15, s16, s17, s18, s19, s20, s21, s22>>
       \/ which = "card" /\ ByCard!Next
          /\ UNCHANGED <<s13, s14, s15, s16, s17, s18, s19, s20, s21, s22>>
       \/ which = "oneFile" /\ OneFile!Next
          /\ UNCHANGED <<s11, s12, s13, s14, s15, s16, s17, s18, s19, s20, s21,
             s22>>
       \/ which = "files" /\ ManyFiles!Next
          /\ UNCHANGED <<s11, s12, s13, s14, s15, s16, s17, s18, s19, s20, s21,
             s22>>
       \/ which = "large" /\ LargeUpload!Next
       \/ which = "inTurns" /\ InTurns!Next
       \/ which = "list" /\ FileList!Next
          /\ UNCHANGED <<s19, s20, s21, s22>>
       \/ which = "newHost" /\ ANewHost!Next
          /\ UNCHANGED <<s21, s22>>
       \/ which = "oldHost" /\ AnOldHost!Next
          /\ UNCHANGED <<s21, s22>>
       \/ which = "onedrive" /\ OneDrive!Next
          /\ UNCHANGED <<s17, s18, s19, s20, s21, s22>>
       \/ which = "google" /\ Google!Next
          /\ UNCHANGED <<s13, s14, s15, s16, s17, s18, s19, s20, s21, s22>>
       \/ which = "oneObject" /\ OneObject!Next
          /\ UNCHANGED <<s13, s14, s15, s16, s17, s18, s19, s20, s21, s22>>
       \/ which = "paths" /\ Paths!Next
          /\ UNCHANGED <<s10, s11, s12, s13, s14, s15, s16, s17, s18, s19, s20,
             s21, s22>>
       \/ which = "worker" /\ Worker!Next
          /\ UNCHANGED <<s11, s12, s13, s14, s15, s16, s17, s18, s19, s20, s21,
             s22>>

Spec == Init /\ [][Next]_vars

-----------------------------------------------------------------------------
(* The properties of the modules, of the chosen instance.                  *)

(* The variables of the chosen instance keep their types.                  *)
TypeOK ==
    CASE which = "channel" -> Channel!TypeOK
      [] which = "twoFiles" -> TwoFiles!TypeOK
      [] which = "twoScans" -> TwoScans!TypeOK
      [] which = "anAd" -> AnAd!TypeOK
      [] which = "twoRows" -> TwoRows!TypeOK
      [] which = "twoPages" -> TwoPages!TypeOK
      [] which = "judgements" -> Judgements!TypeOK
      [] which = "aRow" -> ARow!TypeOK
      [] which = "byDates" -> ByDates!TypeOK
      [] which = "byHashtag" -> ByHashtag!TypeOK
      [] which = "oneAlbum" -> OneAlbum!TypeOK
      [] which = "twoAlbums" -> TwoAlbums!TypeOK
      [] which = "pool" -> Pool!TypeOK
      [] which = "login" -> Logins!TypeOK
      [] which = "reads" -> Reads!TypeOK
      [] which = "call" -> ReadAndCall!TypeOK
      [] which = "bot" -> Bot!TypeOK
      [] which = "link" -> Link!TypeOK
      [] which = "draft" -> ADraft!TypeOK
      [] which = "twoDrafts" -> TwoDrafts!TypeOK
      [] which = "file" -> AFile!TypeOK
      [] which = "album" -> AnAlbum!TypeOK
      [] which = "web" -> ByWeb!TypeOK
      [] which = "card" -> ByCard!TypeOK
      [] which = "oneFile" -> OneFile!TypeOK
      [] which = "files" -> ManyFiles!TypeOK
      [] which = "large" -> LargeUpload!TypeOK
      [] which = "inTurns" -> InTurns!TypeOK
      [] which = "list" -> FileList!TypeOK
      [] which = "newHost" -> ANewHost!TypeOK
      [] which = "oldHost" -> AnOldHost!TypeOK
      [] which = "onedrive" -> OneDrive!TypeOK
      [] which = "google" -> Google!TypeOK
      [] which = "oneObject" -> OneObject!TypeOK
      [] which = "paths" -> Paths!TypeOK
      [] which = "worker" -> Worker!TypeOK

(* With two faults and a control, what is committed stays and everything   *)
(* else is removed or known to the journal; a file of the web page is      *)
(* stored once, and the page shows what is there; an upload a provider     *)
(* reports as done is there whole; an upgrade of the deployment loses no   *)
(* volume (telegramUpload.ts, App.tsx, oneDriveUpload.ts, storage.ts,      *)
(* deploy/).                                                               *)
WritesKept ==
    CASE which = "channel" -> Channel!CommittedStays /\ Channel!NothingLeftBehind
      [] which = "large" -> LargeUpload!UploadsKept
      [] which = "inTurns" -> InTurns!UploadsKept
      [] which = "list" -> FileList!FilesShown
      [] which = "newHost" -> ANewHost!DeploymentKept
      [] which = "oldHost" -> AnOldHost!DeploymentKept
      [] which = "onedrive" -> OneDrive!OneDriveKept
      [] which = "google" -> Google!GoogleKept
      [] which = "oneObject" -> OneObject!GoogleKept
      [] which = "paths" -> Paths!PathsKept
      [] OTHER -> TRUE

(* The cursor passes only what is handled, except what the end of a        *)
(* recovered job leaps over, an advertisement is restored once, a scan     *)
(* passes no wanted file by and loads what was chosen, albums are found    *)
(* whole, and the page shows the channels as they were last changed        *)
(* (telegramChannelJobs.ts, telegramChannelScanner.ts,                     *)
(* SubscriptionCenter.tsx).                                                *)
SyncKept ==
    CASE which = "twoFiles" -> TwoFiles!SyncKept
      [] which = "twoScans" -> TwoScans!SyncKept
      [] which = "anAd" -> AnAd!SyncKept
      [] which = "byDates" -> ByDates!ScanKept
      [] which = "byHashtag" -> ByHashtag!ScanKept
      [] which = "oneAlbum" -> OneAlbum!AlbumsWhole
      [] which = "twoAlbums" -> TwoAlbums!AlbumsWhole
      [] which = "twoRows" -> TwoRows!CenterKept
      [] which = "twoPages" -> TwoPages!CenterKept
      [] which = "judgements" -> Judgements!CenterKept
      [] which = "aRow" -> ARow!CenterKept
      [] OTHER -> TRUE

(* A user account has one client, whose slots and cooldowns are counted,   *)
(* through logins, floods and failures; a lost connection or worker leaves *)
(* nothing open and repeats nothing but reads (telegramUserClientPool.ts,  *)
(* telegramMultiAccountLoginFlows.ts, telegramUserTransport.ts,            *)
(* telegramUserWorkerClient.ts).                                           *)
SessionsKept ==
    CASE which = "pool" -> Pool!PoolKept
      [] which = "login" -> Logins!LoginKept
      [] which = "reads" -> Reads!TransportKept
      [] which = "call" -> ReadAndCall!TransportKept
      [] which = "worker" -> Worker!CallsKept
      [] OTHER -> TRUE

(* There is one bot, as configured, whose senders are replaced one by one; *)
(* what a dialogue confirms is made once (telegramBot.ts,                  *)
(* telegramBotLifecycle.ts, telegramBotTransport.ts).                      *)
BotsKept ==
    CASE which = "bot" -> Bot!BotKept
      [] which = "link" -> Link!SendersKept
      [] which = "draft" -> ADraft!DialoguesKept
      [] which = "twoDrafts" -> TwoDrafts!DialoguesKept
      [] OTHER -> TRUE

(* A file sent to the bot is stored and indexed once and never lost sight  *)
(* of; tasks are cancelled and files removed as confirmed, and tasks hidden*)
(* only when they are over (telegramOrdinaryRecovery.ts, telegramUpload.ts,*)
(* routes/tasks.ts, telegramCommands.ts).                                  *)
TasksKept ==
    CASE which = "file" -> AFile!TransfersKept
      [] which = "album" -> AnAlbum!TransfersKept
      [] which = "web" -> ByWeb!TaskCentreKept
      [] which = "card" -> ByCard!TaskCentreKept
      [] which = "oneFile" -> OneFile!CommandsKept
      [] which = "files" -> ManyFiles!CommandsKept
      [] OTHER -> TRUE
=============================================================================

# Formal models of tg-vault

tg-vault archives files from Telegram, from a browser and from qBittorrent on a storage
target: the local disk or an account at a cloud provider. The backend
(`backend/src`, about 41 000 lines of TypeScript) is an Express server over PostgreSQL, a
Telegram bot and a worker process for Telegram user accounts; `frontend/` is the web page
and `deploy/` the scripts that install and upgrade it all. This directory holds TLA+ models
of the system, the TLC runs that check them on small instances, and proofs that TLAPS checks
for every size.

From this directory:

    tlc -workers 2 -config MCDownloadTaskQueue.cfg MCDownloadTaskQueue
    tlapm DownloadTaskQueueProofs.tla

`PROJECT.json` lists each run with its properties, the source lines of every definition that
models code, and for every property a mutated definition under which it fails.

## 1. The system

Paths are relative to `backend/src` unless they start otherwise.

| Component | State it keeps | Operations | What makes it correct |
|---|---|---|---|
| Download queue, `services/downloadTaskQueue.ts` | pending and active files, groups with counters and an override, pauses, upload line, history; all in memory | add, retry, settle; pause, resume, cancel, prioritise a group, a scope or everything; disk pressure; limits | slots neither overcommitted nor wasted, order kept, overrides agree with what runs, each file counted once, everything added ends |
| Executors, `services/telegramUpload.ts`, `telegramFileDownload.ts` | one running function per active file | download, retry, wait for disk, save, index, compensate | a stored object has a row, or somebody knows it |
| Chunked uploads, `services/chunkUploadSessions.ts`, `chunkUploadReconciliation.ts`, `routes/chunkedUpload.ts` | session rows, chunk rows, chunk files, a journal row per completion | init, chunk, complete, retry, cancel; a maintenance timer | an upload ends as exactly one stored file or is dropped; nothing stays on the target that nobody knows |
| Storage accounts, `services/storageAccount*.ts`, `storage.ts`, `routes/storage.ts` | account rows, the configured target, leases; in memory the active target and the clients | add, switch, init, lease, renew, release, preview and delete | an account that is needed is not deleted; a deletion removes what was confirmed |
| Provider uploads, `services/oneDriveUpload.ts`, `googleDriveUpload.ts`, `openListStorage.ts`, `storage.ts` | sessions and folders at the provider, caches of folder ids, locks | upload, retry, ask again, close a session | success is reported only of a file that is there whole, and nothing is made twice |
| Channel jobs, `services/telegramChannelJobs.ts` | job rows, item rows with leases, a write journal, cooldowns | claim, heartbeat, settle, cool down, pause, cancel, retry, finalise, recover | an item is stored once, a finished job has no open item, an interrupted job goes on |
| Scans and subscriptions, `services/telegramChannelScanner.ts`, `telegramChannelJobs.ts`, `telegramAdRestore.ts` | cursors, pages, judgements | scan by dates, hashtag or cursor; complete albums; judge and restore advertisements | no post is passed by, none is loaded that was not chosen |
| Ordinary bot files, `services/telegramOrdinaryRecovery.ts`, `transferTasks.ts` | a JSON object of files per group | remember, update, index, restore | a file is neither lost nor stored twice over a restart |
| qBittorrent, `services/qbittorrentTasks.ts` | one row per torrent with stage and payload | submit, poll, transfer, clean, pause, cancel, retry | sources go only after all files are stored; a cancel ends |
| Files, `routes/files.ts`, `folderOperations.ts`, `services/mediaDerivatives.ts`, `orphanCleanup.ts`, `utils/previewCache.ts` | rows, objects, previews, temporary copies, a queue in memory | index, move, delete, derive, clean up | row, object and preview go together, and nothing needed is removed |
| User accounts, `services/telegramUserClientPool.ts`, `telegramMultiAccountLoginFlows.ts`, `telegramUserTransport.ts`, `telegramUserWorker*.ts` | one client per account, slots, cooldowns, logins, connections, calls to a worker process | connect, call, flood, log in, delete, reconnect | one client, counted slots, one answer per call, only reads are repeated |
| Telegram bot, `services/telegramBot*.ts`, `telegramBotLifecycle.ts` | the client, a lane of operations, senders, drafts of dialogues | start, lose, retry, configure; pick, confirm | one bot as configured; a draft makes one job |
| Tasks and commands, `routes/tasks.ts`, `services/telegramCommands.ts` | prompts, confirmations, dismissed records | cancel, dismiss, clear, delete | acts on what was confirmed, once |
| Web page, `frontend/src/App.tsx`, `services/*.ts`, `components/pages/SubscriptionCenter.tsx` | upload queue, list with cache and cursor, subscription page | upload, pause, retry, resume; list, change; read, change | shows what is there, stores once |
| Deployment, `deploy/*.sh`, `db/migrations.ts` | the host: files, volumes, schema, containers | install, upgrade, back up, killed anywhere | an application never meets a schema, password or mount that is not its own |
| Authentication, settings, update check, ad classifier, texts | settings | | not protocols of several steps |

**Interaction.** An executor is called by the queue and calls back into it (`beginUpload`,
`setRetrying`, `waitForStorage`, `acquireDiskPressureBlocker`). Queue groups are persisted as
`transfer_tasks` rows. Every write to a target takes a lease on the account (a row with a
foreign key) and goes through `StorageManager`'s clients. Channel jobs run their items through
a hidden group of the queue, and read through the pool of user accounts, whose clients live in
worker processes. Deleting an account looks at the rows of all the others, in one transaction.
Maintenance timers act on rows whose owner may still be running.

**What is hard in it.** JavaScript handlers run to completion, so races sit between a state
read before an `await` and its use after it, between an abort and the executor that notices it,
and between requests, timers and other processes on the same database rows. Failure adds a
crash between two statements, a storage call that reports an error after it took effect,
leases that run out while their holder is only slow, and two copies of one fact (memory and
database) that are updated one after the other. `PROJECT.json` lists these hazards with their
lines and the properties that watch each of them.

## 2. Modules

In every module a handler is split where it awaits and nowhere else; a statement, transaction,
file operation or call is a step, with its failure. Each header says what is left out.

| Module | Content | Proofs |
|---|---|---|
| `OrderedSet` | ordered sets as order relations, so that proofs about the queue need no induction | `DownloadTaskQueueProofs` |
| `DownloadTaskQueue` | the queue and what an executor does to it | `DownloadTaskQueueProofs` |
| `ChunkUpload` | chunked uploads with journal, maintenance and crashes | `ChunkUploadProofs` |
| `UploadOutcome` | the abstract promise that `ChunkUpload` implements | `ChunkUploadProofs` |
| `StorageAccounts` | accounts, leases, references, the target in memory, deletion | `StorageAccountsProofs` |
| `ChannelDownloads` | items of a channel job, their writes, the write journal and recovery | `ChannelDownloadsProofs` |
| `ItemOutcome` | the abstract promise of those items, that `ChannelDownloads` implements | `ChannelDownloadsProofs` |
| `QbittorrentTransfers` | torrents, their transfer and the removal of the source | `QbittorrentTransfersProofs` |
| `FileLibrary` | rows, objects, previews, deletion, clean-up | `FileLibraryProofs` |
| `SubscriptionSync` | the cursor of a subscription, its jobs and advertisements | `ChannelDownloadsProofs` |
| `ChannelScan`, `AlbumExpansion` | a scan by dates or hashtag with its card; the look-up of whole albums | |
| `OrdinaryTransfers` | files sent to the bot, alone or in an album, over restarts | `FileLibraryProofs` |
| `TaskCentre` | cancelling and hiding tasks | `BotProofs` |
| `BotFileCommands` | removing files by command | `BotProofs` |
| `UserClientPool`, `AccountLogin` | the client of a user account; logins by phone and QR code | `SessionsProofs` |
| `UserTransport`, `WorkerCalls` | one sender with its generations; calls over the pipe of a worker | `SessionsProofs` |
| `BotTransport` | the senders of the bot's client | `BotProofs` |
| `BotLifecycle`, `BotDialogues` | the bot's lane; the drafts of a chat | `BotProofs` |
| `OneDriveUploads`, `GoogleUploads`, `PathUploads` | uploads to a provider whose answers may be lost or late | `SessionsProofs` |
| `WebUploads`, `WebFiles`, `SubscriptionCenter` | the upload queue, file list and subscription page of the web page | |
| `Deployment` | the host and the scripts that change it | |
| `MCServices`, `MCComponents` | instances side by side: a behaviour chooses one, and only that one moves | |
| `MC*` | constants and symmetry for TLC | |

The modules share state only where the table of components says so; where one component acts on
another's rows, the model of each has the other's steps in it: the executor in
`DownloadTaskQueue`, the referring rows in `StorageAccounts`, the cooldown set by another job in
`ChannelDownloads`, the scanner and the recovery pass in `SubscriptionSync`, messages and workers in
`OrdinaryTransfers`, the server in `WebUploads` and `SubscriptionCenter`.
`MCServices` and `MCComponents` do not compose anything: they put many instances into one run.

### DownloadTaskQueue

One action per public method, each the whole handler including the calls of `processNext`,
`processUploads` and `pushHistory` at its end, as the code runs it on one thread. `phase`,
`outcome`, `aborted` are fields of a task and its `AbortController`; `group` holds the
`DownloadTaskGroupRecord`s, `overrides` is `scopeResumeOverrides`. The executor is split
where it awaits: `SetRetrying`, `Progress`, `DiskWait`/`DiskRelease`, `BeginUpload`,
`WaitForStorage` and finally `Settle`, whose outcome depends on whether the abort has fired.
`ProcessNext` reads the controls as the handler leaves them (primed), which is why it is the
last conjunct of its actions.

Left out: bytes and speed, time stamps and notifications, and finding a group by a prefix of
its id. Which terminal groups `pruneTerminalGroups` drops is left open (it sorts by update
time). `DiskWait` may happen any number of times.

### ChunkUpload

The state is that of the database (`status`, `token`, `file`, `recorded`, `journal`, `row`),
the disk (`directory`, `locks`), the target (`object`), and the program counters of requests
and maintenance runs (`pc`, `scan`). A completion goes `Claim`, `OpenJournal`, `Save`, `MarkObject`,
`InsertRow`, `MarkIndex`, `Commit`, or leaves that path for `UndoObject`, `UndoIndex`, `Report`,
`Fail`; `CompleteAsDuplicate` is the path of a file that exists already. A maintenance run goes
`ClaimRow`, `Judge`, `ScanObject`, `Recheck`, `ScanIndex`, `ScanReport`.

What stands for what: the heartbeat of a completion lease is in the guards of
`RecoverExpired` (the lease ran out) and `CommitRefused` (the request learns it lost the
claim); session expiry is membership of `expired`; the lease of a journal row is taken over in
`ClaimRow`, at the cost of a fault while its holder still runs; a resolved journal row keeps no
detail. A statement that reports an error has had no effect (a COMMIT whose answer is lost is
not modelled), a storage call that reports one may have had it.

### StorageAccounts

Uploads of every kind are one machine: they capture a target and store at once
(`routes/upload.ts`, bot files), or are admitted first (`/init`, task creation), where a lease
covers the time until a referring row exists and a second lease the work. Deletion is two
steps, because its transaction locks the account row: `BeginDelete` locks and checks,
`CommitDelete` looks at the active target in memory and commits. Statements that touch the
locked row, through a foreign key or a share lock, wait (`Unlocked`). `init` is two steps, its
first queries and the assignment at its end. Two leases of one upload are modelled as one:
the first can only make a deletion wait longer.

### ChannelDownloads

One job. The database is `job`, `cooling`, `quota` (the cooldown of the account), `item`,
`journal` and `files`; the target is `objects`; the rest is the memory of the process. The run of
the job (`phase`) goes `Await`, `ClaimBatch`, `OpenWindow`, then loads the rolling window until
`CloseWindow`, a failure (`LeaseLost`, `QuotaEnds`, `MarkFailed`, `RunFails`) or, with nothing
left to claim, `Tally` and `Finalize`. Each worker (`stage`) goes `StartItem`, `Download`, `Begin`
(the journal row), `Save`, `MarkObject`, `InsertRow`, `MarkIndex`, `Validate`, `Commit`, or from
any of them to `Undo`, `UndoRow`, `Note` (an error within the save), `Drop`, `DropRow`, `Note` (an
error after it) and `Settle`. The recovery pass (`pass`, `claim`) goes `ClaimWrites`, then for each
row `Decide`, `DeleteObject`, `StillMine`, `DeleteRow`, `CloseWrite`, then `Repair`, `Uncool`,
`Release` and `Start`. Users pause, resume, cancel and retry, and every statement and call to the
provider can fail.

What stands for what: a lease is the number given at the claim (the code draws a UUID), and
`lapsed` says that `lease_expires_at` has passed; `journal` keeps the latest operation of an item,
since the unique index allows one pending row and no code reads a resolved one; a batch is as large
as the window. The branch "committed" of `Decide` is there because the code has it; the proof shows
that it is never taken.

`ItemOutcome` is what a user of a job sees of each item: open, stored as one file, skipped after a cancellation,
or failed. `Promise` maps to it: `OutcomeOf` reads the status and whether the item was settled as stored,
`FileOf` the write that its journal row commits, as long as its object and its row in `files` are there; `Elsewhere`
is a file that was stored before. An undoing of a committed write would therefore break the promise, and
`GivesBack`, the return of what a window did not load, must map to no step at all.

Assumed: a live run renews its leases in time (every two minutes, for ten), and a statement that
reports an error has had no effect. Neither is guaranteed by the code: with a process that
stands still beyond its lease, or a COMMIT whose answer is lost, `CommittedStays` does not hold.
Left out: `attempts` (an item becomes pending after a failure only by a retry, which resets it).

### QbittorrentTransfers

All tasks are for one torrent, hence for one hash: that is where they meet. `work` is the poll, which
handles one task at a time; controls wait for the advisory lock of their task (`asks`). The
downloader is external: an add whose answer was lost may take effect later (`late`), a removal takes
effect some time after it was told, and it goes by hash, whoever owns the torrent by then. Assumed:
no user of qBittorrent adds the same torrent between the check of the owner and the removal.

### FileLibrary

A write (`Receive`, `Save`, `Index`), a derivative job (`ClaimJob` to `FailJob`) with the flight it
shares with viewers (`Look`, `Make`), a confirmed deletion (`Confirm`, `Erase`, `Unlink`, `DropRow`),
moves, and the clean-up, which judges by the rows of local files, read first (`ReadRows`), and by the time it then notes
(`NoteTime`). Anything on the disk may grow older than ten minutes (`old`), whoever still needs it; previews also older
than a day (`PreviewAges`). `Bare` are the files that lie in the upload directory while they are written, namely those merged
from chunks (`routes/chunkedUpload.ts:335`): no row protects such a file, or the derivative source it becomes when the
target is elsewhere. Other temporary files lie outside the directory, or under a name that counts as active. What
only its age protects, the scan can take from a writer, a job or a generation that still needs it; the model has these
steps. `Exposed` names what it may take so: an object that was old before its row could be read (`overdue`), and an
old copy in the directory (see *Observations*). Everything else stays, and `NothingNeededGoes` says so without a
hypothesis about how long a write or a job takes.

### GoogleUploads

Folders have a maker and what their maker had seen (`seen`) because two of a name are possible. The cache and the
promises belong to a provider object; `Reinit` makes another while uploads go on with theirs, and a folder whose
creation was not answered may appear later (`MakeLate`). So the promise of the code is that of `OneFolder`: a second
folder only for an upload that had looked before the first was made, and among the uploads of one object, however many,
only if one of the two creations took effect late.

### The properties of the components of MCComponents

| Property of the run | Module | What it says |
|---|---|---|
| `WritesKept` | `ChannelDownloads` | `CommittedStays`, `NothingLeftBehind`, as in `channel_writes` |
| | `WebUploads` | the slots are taken and never exceeded; what the page shows as going on has a turn; a file is stored once, but for requests whose effect the page could not learn (`doubt`); a session that is over takes nothing more |
| | `WebFiles` | at rest the list shown is that of the folder shown, and the cache as accurate; no spinner stays |
| | `OneDriveUploads`, `GoogleUploads`, `PathUploads` | success only of a file that is there whole; one file at most; a second folder of a name only as above, and the uploads of a provider object in the same one; a failure hides only what could not be looked at; no session open, nobody waiting for a lock |
| | `Deployment` | a backend runs only on the schema of its revision; passwords and mounts are those of the data; a backup is of one moment |
| `SyncKept` | `SubscriptionSync` | the cursor passes a file only when it was judged or has an item in a job, except what the end of a recovered job leaps over (finding 4); what was restored has one job, with its item |
| | `ChannelScan` | no file before the cursor is passed by; none is loaded that was not chosen; no job is stranded |
| | `AlbumExpansion` | an album in reach is found whole, in every layout of the channel |
| | `SubscriptionCenter` | what is shown is of the selected channel and says at least what the page's own changes did |
| `SessionsKept` | `UserClientPool` | one client of the account; slots counted as held; a cooldown survives a restart |
| | `AccountLogin` | no client lost; a session is written only into its own account's row; success only after the write |
| | `UserTransport` | only reads are repeated, refused salts apart; one connection; slots counted; closed is quiet |
| | `WorkerCalls` | no process behind a destroyed client; no call waits for a dead process |
| `BotsKept` | `BotLifecycle` | never a second bot; it is as configured; workers are over before another is made |
| | `BotTransport` | one sender per data centre; nobody waits for one that is lost |
| | `BotDialogues` | one handler at a time; one job per draft, which nobody changes between its submission and its job |
| `TasksKept` | `OrdinaryTransfers` | an indexed file is there, and indexed once; a stray object is known; no file is forgotten |
| | `TaskCentre` | cancels what was named, once; hidden is over; cancelled stays cancelled |
| | `BotFileCommands` | removes only what was named; what is indexed is there |

Some of these name an exception by a variable that an action sets where the code leaves the
promise (`doubt`, `strayed`, `ghosts`, `crossed`, `undone`, `orphaned`, `torn`, `late`, `twice`, `blind`, `left`):
each is listed under *Observations*; `leapt` is finding 4.

## 3. Runs

| Run | Instance | States | Shows |
|---|---|---|---|
| `queue_slots` | 3 files in 2 groups, one of them hidden, limits 1 and 2, one upload slot, at most one group kept | 221 594 | slots, order, overrides and records under every control |
| `queue_controls` | an album of 2 files, 2 overlapping scopes, one retry each | 54 320 | counters, endings, scope pauses through retries and restarts of the group; pauses and cancels take effect, added files end |
| `chunk_races` | one upload, 2 completions, 2 maintenance runs, 2 faults | 864 624 | nothing left behind, only the holder of the claim stores, refinement of `UploadOutcome` |
| `chunk_live` | 2 uploads, one chunk, one completion, 2 faults | 181 171 | budget, and a completion does not stay open for ever |
| `chunk_stored` | one upload, one completion, no fault | violation | finding 1 |
| `accounts` | 2 accounts, 2 uploads, one run of init, one fault | 1 190 705 | deletion against everything that needs an account |
| `active_target` | one account, 2 runs of init, no fault | violation | finding 2 |
| `channel_writes` | 2 items in one window, 3 claims each, 2 faults of any kind (a spent quota only as the last), one control | 768 410 | committed writes stay, nothing is left behind, completed means done, refinement of `ItemOutcome` |
| `channel_cooldown` | one item, a cooldown and a crash | violation | finding 3 |
| `services` | 2 tasks for a torrent and one fault, or one task with 2 of each; an image, a remote file, 2 documents; a channel job with any one fault | 248 456 | sources, objects and previews stay, cancels, derivatives and items end |
| `subscription_rest` | two messages, scans of one, no fault | violation | finding 4 |
| `components` | 36 instances of the other modules | 1 531 577 | the table above |

**Bounds.** Two files in one group and a third in another are what the queue's interactions
need: a group with one file running and one waiting, and a competitor for the slot. `MaxHistory` 2
and `MaxGroups` 1 make truncation and pruning happen, which the code's 50 and 500 would not on
small instances; one upload slot makes the line form; `MaxRetries` 1 puts a file of an ended group
back. The races of a chunked upload are between two requests with different claims and two
maintenance runs on one session; `MaxFaults` 2 lets a compensation fail after a first failure.
Sessions interact only through the budget, which `chunk_live` checks with two. An account can be
missed by a deletion in favour of one upload while another uses it: two of each. Items of a channel
job meet in the window, whose first failure ends the work of the others, and in the statistics: two
suffice for both. The second fault of `channel_writes` hits an undoing or a recovery pass after the
first; it begins also in states in which the names are prepared already, to reach the
interesting part sooner (the theorems begin at `Init`). Three claims per item are more than two faults and
a control cause there.
In `components` an instance has the actors that meet in its hazard (two reads, two requests, two files,
two drafts), one to four failures, and a state space of 2 000 to 200 000 states; where two sets of
constants show different things, there are two instances (a subscription of two files, read in one scan or in two, and of an
advertisement). Where the queue, chunk and account theorems hold for every size,
the bounds matter only for liveness. Symmetry sets are used where values are interchangeable,
never in a liveness run. Liveness of the queue is checked within one album: its files compete for the slot,
are put back by a retry and paused by two scopes, which is what could keep one of them for ever.
`DrainingEnds` and `FilesEnd` say "again and again the state is one in which nothing is still to end" (`[]<>`); this
is the same as a leads-to, because what is awaited is the negation of what it is awaited after.

**Deadlock** is not checked for the queue, the uploads and the components, which may stop: all files
have ended, all requests are done. It is checked for `StorageAccounts`, where a preview is always
possible or init can run, and for `ChannelDownloads`, whose recovery passes never end.

**Fairness.** `queue_controls`: an executor that can end infinitely often does (strong fairness
on `Ends` and `BeginUpload`, since a pause or a retry can disable them for a while: the
network call comes back or hits its deadline, the abort signal is observed), and a wait for
disk space ends. The last is an assumption about the machine, not the code: by default
`waitForDiskWatermark` waits without limit (`TG_DISK_WATERMARK_MAX_WAIT_MS` is 0), and while it
waits nothing new starts. Storage refuses only finitely often, because strong fairness on `Ends`
includes success. Users are not forced to do anything. `chunk_live`: a request and a maintenance run
keep taking steps until they end or the process crashes (weak fairness); the timer starts maintenance
again and again and takes rows in order of age, so a row or an expired completion that is available
infinitely often is taken (strong fairness on `ClaimRow`, `RecoverExpired`); crashes and failed calls
are finitely many. Expiry of sessions is not fair. `services`: the poll of the torrents, its steps and a
control that has the lock go on, and the downloader does what it was told in the end (`Removes`,
`RemovesFiles`); derivative jobs and flights go on; the run of a channel job, its workers and the pass
take their steps (one process whose calls come back), leases and cooldowns end with the time, and the timer
starts pass after pass. All of it is weak, asked only of the service that moves. A pause is not lifted
and nothing is retried of necessity.

## 4. Proofs

Eight modules of theorems, some 25 000 lines, for all values of the constants. What they assume is named:
finite sets of files and groups and positive limits (`QueueAssumption`), `Local` not an account,
the assumptions of `ChunkUpload` and `ChannelDownloads` on counts and faults, all of them evaluated by the
runs; and, as hypotheses of the theorems themselves, `OwnersDistinct`, the absence of
a spent quota, `SizesAreNumbers`, `PathsAreNested`,
`LoginNames`, `PoolBounds`, `TransportBounds`, `LifeBounds`, `OpeningSteps`, `TasksDistinct`, `FinitelySent` and `SyncBounds`,
explained below. All safety and action properties of
the queue, chunk, account and channel runs are theorems, and so are `SourceOrCopy` and `NothingNeededGoes`
of the modules that `services` instantiates, and of what `components` checks the whole of `SessionsKept` and
`BotsKept`, the parts of `WritesKept` about channel jobs and the providers, of `SyncKept` the part of `SubscriptionSync`,
and of `TasksKept` all but `NotForgotten`.

The large state machines are proved in the same way. First each of the steps, fifty in
`ChannelDownloads`, is reduced to what it may do to one variable: the *moves*
(`BodyMove`, `RowsMove`, `ClaimMove` ...). Then the inductive invariant is proved from the moves
alone. Types of records and functions are kept apart from the rest, since the provers do badly with both.

* `DownloadTaskQueueProofs`: `TypeCorrect`, `OverridesAgree`, `LiveFilesKnown`. It begins with
  lemmas about what the operators of `OrderedSet` return and preserve, among them that
  `FirstOf` takes the first of an order, as many as asked for or all. The inductive
  invariant is `IInv == TypeOK /\ OverridesMatchFiles /\ LiveFilesHaveGroup /\ OnePlace`.
  `OverridesMatchFiles` alone is not inductive: a group record may be forgotten or started over
  (override "none") only when no live file of it exists, which needs `LiveFilesHaveGroup`, and
  a file that were both pending and active would settle out of both, hence `OnePlace`. Since
  nearly all handlers end in `processNext`, `Prepared(q, ph)` states what they hand to it, and
  the lemma `Scheduling` shows once that the scheduler turns it into `IInv'`.
* The same module for the steps: `ControlsRespected`, `OrderServed`, `UploadsInSlots`, `NoSlotWasted`,
  because every step ends in the scheduler or starts nothing (`Serving`, `Quiet`); and
  `NoneCountedTwice`, `ExpectedCovers`, `EndingsStay`, `ScopePauseComplete`, by a tally of endings and
  live files that every handler's own computation preserves.
* `StorageAccountsProofs`: `AccountTypes`, `NeededStays`, `ConfiguredExists`,
  `ConfirmedDeletion`. The invariant adds `WorkIsLeased` (whoever works on an account has an
  unreleased lease), `DeletionStillAllowed` (from the check to the commit of a deletion nothing
  it refused for can appear, because the account row is locked), `IdleIsClean` and `ReadIsTarget`.
  `DeletedAsConfirmed` follows: the files of the locked account can only become fewer.
* `ChunkUploadProofs`: `TypeCorrect`, `ChunksStay`, `BudgetStays`, `NothingLeft`, `HolderStores` and
  `PromiseKept`, the refinement of `UploadOutcome`. `SessionInv` says who holds which claim and what is on
  the disk; `StoreInv` says that deletion is believed only of what is gone and cannot come back, which is
  what `NothingLeftBehind` needs of an undoing and of maintenance runs that overlap it.
* `ChannelDownloadsProofs`: `ChannelTypes`, `CommittedNeverRemoved` and `CompletedIsDone` from
  `IInv == Typed /\ RunInv /\ LeaseInv /\ WriteInv`; and, without a spent quota
  (`"quota" \notin Faults`), `NothingStaysBehind` and `HoldersKeepTheirItems` from a second invariant,
  `KnownInv`. `ItemsPromiseKept`, the refinement of `ItemOutcome`, needs besides that an item is skipped only for
  a reason that lasts (`SkipReasons`): whoever skips one does so in a job that was cancelled, and stays so. The hypothesis
  about the quota cannot be dropped: with it dropped the statement is false, which is finding 3.
  The proof also shows what the code could do without: an item that was settled as stored never has an open
  journal row, so that the branch of the recovery pass for committed items is never taken.
* The same module for `SubscriptionSync`: `SyncTheorem`, its types and safety. That what lies before the cursor is handled
  (`Recorded`) is not inductive: the cursor is moved by whoever ends a job, from what that job says of its
  range. So `SyncInv` says of each job that all is handled before the range it begins with, that as soon as it has an item
  all its scan has read is handled, and that nobody runs a job without one (`JobSound`); of the scanner, what it has read
  and taken from which cursor (`ScanReads`), and that its job is about just that (`ScansJob`). That an advertisement is
  restored once follows from which of the steps of the request have made the job and its item (`Restorers`). The
  first attempt at this proof failed at the end of a recovered job, whose range reaches further than
  its scan: that is finding 4, and the files it passes are `leapt`.
  `SyncBounds`: messages are numbers, files and advertisements among them, and a scan reads at least one.
* `QbittorrentTransfersProofs`: `TransferTypes`, `SourcesKept`. The removal of a source goes by hash some time
  after its owner was checked, so the invariant must say that nothing can appear under the hash meanwhile:
  one task at most is open (`OneOpen`), every add that may still take effect belongs to a row that was not
  confirmed (`LateIsKnown`), and a row whose source may be removed is one whose torrent was seen
  (`RemovalIsDue`, `PollKnows`). `OwnersDistinct` says that the values for no owner and for another
  owner are no tasks.
* `FileLibraryProofs`: `LibraryTypes`, `NeededStays`, without a hypothesis about the files or about times. What the clean-up takes
  for an orphan is over for good or was overdue (`OrphansAreOver`), which needs that a file grows old either with its row
  or as overdue (`OldIsSettled`), also between the reading of the rows and of the time. A preview that is about to be
  recorded is fresh, one about to be removed is in no row. A copy is there from the first byte written until the flight that
  reads it has landed (`JobsKeepCopies`, `CopiesWait`), or is `Exposed`, so that a job can fail only with an excuse
  (`FailuresExcused`).
* The same module for `OrdinaryTransfers`: `TransfersTheorem`, its types, `IndexedIsThere`, `IndexedOnce` and
  `StraysAreKnown`, for any finite set of files (`FinitelySent`), alone or as an album, and any bounds. `IndexedOnce` is not
  inductive: a file is indexed once because one hand at a time holds it, so `Once` says of every file that was not in
  two hands that at most one of the handler of its message, the snapshot of its album, its task in the queue
  and the recovery has it, that what the recovery read of it is still so while it is to be taken up, and that once an
  object of it is indexed its record is settled or its task is past the index. What is not indexed is known because
  the record names its object before the storage is asked (`PathsKnown`, where the storage can tell the path),
  and a record that is saving outlives every step that forgets the task.
* `SessionsProofs`: `CallsTheorem` (`WorkerCalls`), `LoginsTheorem` (`AccountLogin`), `PoolTheorem`
  (`UserClientPool`) and `TransportTheorem` (`UserTransport`), types and safety of each, for every number of calls,
  flows, connections and troubles. The invariants say who holds what. A client is its entry's or in quarantine, and the slots counted are a cardinality of the calls that
  hold one. Of a sender of a user account, `RequestsKnown` weighs each request: how often it was sent, and whether
  it is queued or in the batch being packed, is never more than the number of times it was entered. A
  request that timed out in a batch and was entered again is in both, which is why sent alone is not
  inductive. Hypotheses: the values for no owner and for a deleted row are no flows (`LoginNames`),
  the calls of a pool are finite (`PoolBounds`), so are the requests of a sender, and there is room for one read at
  least (`TransportBounds`).
  The proof of the pool found an earlier statement too strong: after an expired session took the cooldown out
  of the row, a write of the next one, or the end of another call, may still be under way; `CooldownSurvives` now
  excepts a client that is leaving and allows the row to be empty.
* The same module for the uploads to providers: `OneDriveKeeps`, `GoogleKeeps`, `PathsKeep`, types and safety. Each invariant says what a request whose answer was lost can still do. For OneDrive
  the session is past every request that is under way unless the upload has tried since
  (`LargeKnown`), and a file made through a session closes it (`MadeIsThere`). For Google the promise of
  a level is kept by one upload of its provider object (`LockOwners`), the parent of an upload is the folder
  its object has cached for the level before (`ParentsCached`), and a folder that is there when another of its name is to be
  made came after the upload looked, from another object or late (`NotMadeYet`). Before its first request an upload has no file and none on its way
  (`FilesKnown`). For the others, nothing is on its way before the file is sent (`NotSentYet`).
  `SizesAreNumbers` says that sizes and attempts are numbers, `PathsAreNested` that a path has a folder,
  an account a provider object, and that the value for no owner of a lock is no upload.
* `BotProofs`: `SendersTheorem` (`BotTransport`), `LifecycleTheorem` (`BotLifecycle`), `DialoguesTheorem`
  (`BotDialogues`), `CommandsTheorem` (`BotFileCommands`) and `CentreTheorem` (`TaskCentre`), types and safety of each. A sender that is not retired is
  known to the slot of its data centre (`SlotsKnown`). Of the bot's lane the invariant says what an operation has
  stopped before it goes on (`StopsFirst`), of which settings a client is made (`ClientConfigured`), that a retry
  in the lane that is not out of date is the one that is due (`LaneKnown`), and how many attempts may have been made by
  then (`AttemptsKnown`), which is what bounds `attempt`: a change of the configuration may fail while a retry is
  due. Of a draft, each handler that waits relies on flags that keep every other off (`HandlersFit`): this, not
  the single thread, is why two handlers never work on one draft (`OneHandler`), why nothing changes a draft that is being
  submitted, and why a second job cannot be made. Of the commands, that a file about to be removed with its row was
  indexed before (`RowsIndexed`), since otherwise a transfer that goes on could index it afterwards. Of the task centre,
  that the version which is hidden of a task belongs to an end of it or has been left behind (`KnownOver`): versions only
  grow, so a task that goes on is never the one that was hidden; and that a handler which is to cancel a job has taken
  its prompt alone (`JobsConfirmed`).
  Hypotheses: `LifeBounds`, no credentials are none, the environment has some or none, and a restart is tried twice
  or more (four times in the code); `OpeningSteps`, a draft begins with a step that the code knows;
  `TasksDistinct`, no channel job is an ordinary download, and the mark of a prompt for all tasks is no card.

**Only model-checked.** Liveness (`DrainingEnds`, `FilesEnd`, `CompletionEnds`, `CancelEnds`,
`DerivativesEnd`, `ItemsEnd`) and everything about `ENABLED`, which are outside the prover's reach; the properties
of the other modules in `MCComponents`: `ChannelScan`, `AlbumExpansion`, `SubscriptionCenter`,
`WebUploads`, `WebFiles` and `Deployment`; of `OrdinaryTransfers` `NotForgotten`, which relates the row of the task to the counters of the group and needs
that files sent alone have tasks of their own. What recursive definitions compute cannot be proved either; the models that have theorems
have none. The properties of the runs `services` and `components` are those of one chosen instance, stated by
case; the theorems are about the modules, for every instance.

## 5. Findings

1. `chunk_stored`. Maintenance claims the journal row of a completion that is still running,
   deletes its object, and the completion commits (`services/chunkUploadReconciliation.ts:53`).
   The claim of the Telegram write journal excludes writes in flight, this one does not.
2. `active_target`. Two overlapping runs of `StorageManager.init` can leave a deleted account as the
   active target in memory (`services/storage.ts:1375`).
3. `channel_cooldown`. A storage cooldown takes the protection of its lease from a write that is going
   on; the recovery pass deletes the object before it is stored and closes the journal row over the
   worker's note, and after a crash the object stays without a row
   (`services/telegramChannelJobs.ts:1080`).
4. `subscription_rest`. A scan of a subscription reads at most `SUBSCRIPTION_SCAN_LIMIT` messages, but its job
   names the newest message of the channel as its end (2278). When a recovery pass completes that job it
   moves the cursor there (`services/telegramChannelJobs.ts:2458`), over messages that no scan has read, while
   the user was told that "the remaining items will be handled in a later scan" (`i18n/telegram.ts:1178`). No
   fault is needed: a pass takes up the job of the scanner's own run, which `runningChannelJobs` does not know.

### Observations

What was met while modelling, without a run of its own. Words in `code` are the variables or definitions
by which a model excepts it.

Queue and uploads
* `prioritizeGroup` cannot see hidden groups, so the prioritise button of a channel job always
  answers that no file waits (`services/downloadTaskQueue.ts:529`). Lowering the download limit does not
  stop running files.
* Two failed statements, one that ends the window and one while its items are marked failed, leave a
  failed job with items that stay downloading (`Stranded`): neither the repair
  (`services/telegramChannelJobs.ts:2506`), nor the release, nor a retry takes them up. One failed
  statement does it when a pause and a resume fall between the last load of a window and its end
  (1416). Items of a cancelled job that a crash left downloading stay so.
* A crash between the insert into `files` and the note of its id leaves a journal row that needs a
  person (`Untold`, `LeftToPerson`).
* A lease whose release fails blocks the deletion of its account for ever, while the comment at
  `services/storageAccountOperation.ts:75` expects it to expire. The lock file of a chunk survives a crash
  (`chunkUploadSessions.ts:96`). `getTarget` throws outside the catch of a journal row
  (`routes/chunkedUpload.ts:64`). Requests that hold a pool connection ask for a second one (153).
* The persisted row of a group refuses to leave a final state when files are retried
  (`services/transferTasks.ts:299`).

Files
* The orphan scan reads the rows of local files only, and matches names (`orphanCleanup.ts:138`). So the merged
  file of a completion is protected by its age alone (`chunkedUpload.ts:335`), and when the target is elsewhere so is the
  same file as the source of its derivatives: after ten minutes in the queue, or a restart that takes the job up
  later, it is removed and the derivatives end as failed, though object and row stay. A local object written more than ten
  minutes after its content was, with a row that comes after the rows were read, goes although it is then indexed
  (`Exposed`, `overdue`). Copies in other directories are never scanned: that of a job whose row was deleted while it
  was queued stays.
* Two provider objects of one Google account, or a creation of which the answer was lost, can leave two folders of a
  name (`storage.ts:1013`, 1025); the provider that has cached one keeps it, the next takes the older.
* Batch deletion reports success for files outside the scope; renaming or moving a folder can merge two.
* qBittorrent: the source can be gone although the last update of its row failed; the retry finds it so.

Channels and subscriptions
* A subscription job whose item fails leaves a gap behind the cursor (`telegramChannelJobs.ts:2256`, 2441),
  while `docs/configuration.md:164` promises none; the scanner's own run is not in
  `runningChannelJobs`, so a pass may load the same job; one paused job of a subscription blocks its scans;
  a crash or a cancel leads to a second job over the same range; albums over the end of a scan are loaded
  twice; jobs of a manual restoration end as failed after success; restoring over a paused job leaves it
  unresumable; a stale failure of a scan disables a subscription just enabled.
* Scans: a job that crashed after its last file stays running; the deletion of the post at the cursor fails
  the job for good; `notifyStorageCooldownOnce` can lose an update.
* Ordinary files: a file of an album that comes late stays pending (`late`), a recovery between
  remembering and `ensureGroup` indexes twice (`twice`), a lost COMMIT or failed final update leaves a second
  copy (`torn`), an abort before the final update marks a stored file cancelled.

Accounts and the bot
* A cooldown noted during a write of the previous one is forgotten in memory; two starts of a login leave two
  flows; a login reported as failed may have been persisted; a cancelled worker call whose work succeeded is
  reported as cancelled; an aborted `open` leaks its iterator.
* A refused change of the bot's configuration has already cancelled the retry; a retry is scheduled with the
  new generation; the undoing of a migration takes the credentials of the environment (`undone`).
* A numeric answer deletes whichever draft is kept (`telegramBot.ts:599`); an INSERT whose answer is lost makes a
  second job. The web's cancel of a failed group marks only its row (`routes/tasks.ts:332`). Clearing the
  local directory removes paths indexed since (`orphaned`, `telegramCommands.ts:886`).

Web page
* A simple upload whose turn is cancelled while the capabilities are asked for keeps its slot
  (`stuck`, `frontend/src/services/api.ts:418`); a retry of a cancelled chunked upload always fails; an upload whose
  answer was lost is stored twice when it is sent again (`doubt`).
* A change begun in one folder reloads that folder into the one shown now (`strayed`, contrary to the comment at
  `App.tsx:664`); a page in flight brings a deleted file back (`ghosts`).
* On the subscription page a change moves its row to the front, so that on a later page another
  channel is selected; panels may wait for a refresh when the selected channel was deleted elsewhere (`crossed`).

Providers and deployment
* An upload refused for good after an earlier lost answer ends without a look whether the file is there
  (`oneDriveUpload.ts:164`, `googleDriveUpload.ts:67`; `blind`); a session whose creation was not answered is
  never closed (`left`); two uploads that make the same OneDrive folder meet a 409 (`storage.ts:667`).
* An installation interrupted between `.env` and `LOCAL_STORAGE_SOURCE` cannot be completed by
  running it again, nor one interrupted between its directory and `.env`; a killed `backup.sh` leaves the
  backend stopped.

## 6. Plan

1. Inductive invariants of the other modules in `MCComponents`, in this order: `AlbumExpansion`
   and `NotForgotten` of `OrdinaryTransfers`.
2. An abstract specification of a torrent's file, refined by `QbittorrentTransfers`.
3. More of the pool: several connections of one account, and the chat cards that report on its jobs.

-------------------------- MODULE SubscriptionSync --------------------------
(* The subscription of a channel (telegramChannelJobs.ts): the scanner      *)
(* turns the messages behind the subscription's cursor into a job, loads    *)
(* its files and moves the cursor when the job is done; recovery passes     *)
(* load what a crash, an error or a pause left over, also of a job that the *)
(* scanner is loading at the moment, since only the runs of recovery        *)
(* passes are known to runChannelJob.  A message blocked as an              *)
(* advertisement can be restored, by a job of its own.                      *)
(*                                                                          *)
(* One subscription; messages are numbered from 1.  Left out: albums that   *)
(* reach over the end of a scan (their files are loaded twice), cooldowns   *)
(* (see ChannelDownloads), leases of live runs, which do not lapse.         *)
EXTENDS Naturals, FiniteSets, FiniteSetsExt

CONSTANTS
    MaxId,          \* messages the channel gets
    Files,          \* those with a file the subscription wants
    Ads,            \* files the filter takes for advertisements
    ScanLimit,      \* SUBSCRIPTION_SCAN_LIMIT
    MaxJobs,        \* jobs that are created
    MaxFaults,      \* failed calls and crashes
    MaxControls     \* controls of the user, but for those that lift one

Ids == 1 .. MaxId
Jobs == 1 .. MaxJobs

VARIABLES
    posts,      \* the newest message of the channel
    sub,        \* row of the subscription: on, due, cursor
    since,      \* where the user last let it begin (not kept by the code)
    leapt,      \* messages the cursor passed that no scan had read (nor this)
    jobs,       \* rows of jobs: status, done (finished_at), range, ad restored,
                \* and the last message of their scan (not kept)
    media,      \* status of the item of a message in a job
    scan,       \* the scanner
    works,      \* runs started by recovery passes
    verdict,    \* decision about an advertisement
    restoring,  \* the request that restores it
    fromNow,    \* what a request to begin from now has read
    slips, wishes   \* faults and controls so far

vars == <<posts, sub, since, leapt, jobs, media, scan, works, verdict, restoring,
          fromNow, slips, wishes>>

NoJob == [status |-> "none", done |-> FALSE, from |-> 0, last |-> 0, to |-> 0, ad |-> 0]
Idle == [pc |-> "idle", cursor |-> 0, last |-> 0, to |-> 0, job |-> 0,
         take |-> {}, fine |-> {}, bad |-> {}]

Runners == {"scanner", "worker"}
Ended == {"success", "failed", "skipped"}

-----------------------------------------------------------------------------
(* Rows of jobs and items.                                                 *)

(* A row that is not used yet: the next one.                               *)
IsNew(j) ==
    /\ jobs[j].status = "none"
    /\ \A k \in Jobs : jobs[k].status = "none" => j <= k

(* "barred": waiting by its status, but paused_at or cancelled_at is set.  *)
Held(j) == jobs[j].status \in {"paused", "cancelled", "barred"}

(* The guard of updateJob, of the finalisation and of claims.              *)
Open(j) == ~Held(j) /\ ~jobs[j].done

Claimable(j, i) == Open(j) /\ media[j][i] = "pending"

Remaining(j) ==
    \E i \in Ids : media[j][i] \in Runners \cup {"pending", "lost"}

Failed(j) == {i \in Ids : media[j][i] = "failed"}

WithStatus(j, s) == [jobs EXCEPT ![j].status = s]
Closed(j, s) == [jobs EXCEPT ![j].status = s, ![j].done = TRUE]

(* finalizeSubscriptionJobInTransaction: the job and the cursor, or none,  *)
(* when the subscription is off.                                           *)
Finalizes(j, s, advance) ==
    /\ jobs' = Closed(j, s)
    /\ sub' = [sub EXCEPT !.cursor = Max({@, advance})]

-----------------------------------------------------------------------------
(* The scanner (runSubscriptionScan).                                      *)

ScanRow ==
    /\ scan.pc = "idle" /\ sub.on /\ sub.due
    /\ scan' = [Idle EXCEPT !.pc = "look", !.cursor = sub.cursor]
    /\ UNCHANGED <<posts, sub, since, leapt, jobs, media, works, verdict, restoring,
                   fromNow, slips, wishes>>

ScanLook ==
    /\ scan.pc = "look"
    /\ sub' = [sub EXCEPT !.due = FALSE]
    /\ scan' = IF posts <= scan.cursor THEN Idle
               ELSE [scan EXCEPT !.pc = "read", !.to = posts,
                                 !.last = Min({scan.cursor + ScanLimit, posts})]
    /\ UNCHANGED <<posts, since, leapt, jobs, media, works, verdict, restoring,
                   fromNow, slips, wishes>>

Scanned == scan.cursor + 1 .. scan.last

Blocked(found) == {i \in Ads \cap found : verdict[i] # "normal"}
Judged(blocked) == [i \in Ads |-> IF i \in blocked THEN "blocked" ELSE verdict[i]]

(* Advertisements are blocked unless the user has said otherwise; without  *)
(* any file the cursor moves at once.                                      *)
ScanRead ==
    LET found == Files \cap Scanned
        blocked == Blocked(found)
    IN  /\ scan.pc = "read"
        /\ IF found = {}
           THEN /\ sub' = [sub EXCEPT !.cursor = Max({@, scan.last})]
                /\ scan' = Idle
           ELSE /\ scan' = [scan EXCEPT !.pc = "create", !.take = found \ blocked]
                /\ UNCHANGED sub
        /\ verdict' = Judged(blocked)
        /\ UNCHANGED <<posts, since, leapt, jobs, media, works, restoring, fromNow,
                       slips, wishes>>

(* The job names the newest message of the channel as the end of its       *)
(* range, not the end of what is scanned.                                  *)
ScanCreate ==
    /\ scan.pc = "create"
    /\ \E j \in Jobs :
          /\ IsNew(j)
          /\ jobs' = [jobs EXCEPT ![j] = [NoJob EXCEPT !.status = "queued",
                        !.from = scan.cursor + 1, !.last = scan.last, !.to = scan.to]]
          /\ scan' = [scan EXCEPT !.pc = "persist", !.job = j]
    /\ UNCHANGED <<posts, sub, since, leapt, media, works, verdict, restoring, fromNow,
                   slips, wishes>>

Persisted(j, ids) ==
    [media EXCEPT ![j] = [i \in Ids |->
        IF i \in ids /\ @[i] = "none" THEN "pending" ELSE @[i]]]

ScanPersist ==
    /\ scan.pc = "persist"
    /\ media' = Persisted(scan.job, scan.take)
    /\ scan' = [scan EXCEPT !.pc = "start"]
    /\ UNCHANGED <<posts, sub, since, leapt, jobs, works, verdict, restoring, fromNow,
                   slips, wishes>>

(* updateJob looks at pauses and cancellations, not at the end of the job. *)
ScanStart ==
    /\ scan.pc = "start"
    /\ jobs' = IF Held(scan.job) THEN jobs ELSE WithStatus(scan.job, "running")
    /\ scan' = [scan EXCEPT !.pc = "load"]
    /\ UNCHANGED <<posts, sub, since, leapt, media, works, verdict, restoring, fromNow,
                   slips, wishes>>

(* downloadPendingForJob waits for the end of a pause, for this             *)
(* subscription and all the others.                                         *)
Drained(j, w) ==
    /\ \A i \in Ids : media[j][i] # w
    /\ jobs[j].status # "paused"
    /\ \A i \in Ids : ~Claimable(j, i)

(* The scanner knows the failures of its own downloads: the last message   *)
(* up to which nothing failed.                                             *)
Contiguous ==
    LET processed == (scan.fine \cup (Scanned \ scan.take)) \ scan.bad
    IN  {n \in scan.cursor .. scan.last :
            (scan.cursor + 1 .. n) \subseteq processed /\ n + 1 \notin processed}

(* Mutant of ScanTally: the cursor goes to the newest message of the       *)
(* channel.                                                                *)
ScanTallyNewest ==
    /\ scan.pc = "load" /\ Drained(scan.job, "scanner")
    /\ \/ (Held(scan.job) \/ Remaining(scan.job)) /\ scan' = Idle
       \/ /\ ~Held(scan.job) /\ ~Remaining(scan.job)
          /\ \E n \in IF scan.bad # {} THEN Contiguous ELSE {posts} :
                scan' = [scan EXCEPT !.pc = "finish", !.to = n]
    /\ UNCHANGED <<posts, sub, since, leapt, jobs, media, works, verdict, restoring,
                   fromNow, slips, wishes>>

(* Items that wait, or that somebody loads, leave the job to a pass.      *)
ScanTally ==
    /\ scan.pc = "load" /\ Drained(scan.job, "scanner")
    /\ \/ (Held(scan.job) \/ Remaining(scan.job)) /\ scan' = Idle
       \/ /\ ~Held(scan.job) /\ ~Remaining(scan.job)
          /\ \E n \in IF scan.bad # {} THEN Contiguous ELSE {scan.last} :
                scan' = [scan EXCEPT !.pc = "finish", !.to = n]
    /\ UNCHANGED <<posts, sub, since, leapt, jobs, media, works, verdict, restoring,
                   fromNow, slips, wishes>>

ScanFinish ==
    /\ scan.pc = "finish"
    /\ IF Open(scan.job) /\ sub.on
       THEN Finalizes(scan.job, IF scan.bad = {} THEN "completed" ELSE "partial", scan.to)
       ELSE UNCHANGED <<jobs, sub>>
    /\ scan' = Idle
    /\ UNCHANGED <<posts, since, leapt, media, works, verdict, restoring, fromNow,
                   slips, wishes>>

-----------------------------------------------------------------------------
(* Downloads, by the scanner or by the run of a recovery pass.             *)

Loads(w, j) ==
    IF w = "scanner" THEN scan.pc = "load" /\ scan.job = j ELSE works[j] = "load"

Claim(w, j, i) ==
    /\ Loads(w, j) /\ Claimable(j, i)
    /\ media' = [media EXCEPT ![j][i] = w]
    /\ UNCHANGED <<posts, sub, since, leapt, jobs, scan, works, verdict, restoring,
                   fromNow, slips, wishes>>

Settle(w, j, i) ==
    /\ media[j][i] = w
    /\ \E s \in Ended :
          /\ media' = [media EXCEPT ![j][i] = s]
          /\ scan' = IF w = "worker" THEN scan
                     ELSE IF s = "failed" THEN [scan EXCEPT !.bad = @ \cup {i}]
                     ELSE [scan EXCEPT !.fine = @ \cup {i}]
    /\ UNCHANGED <<posts, sub, since, leapt, jobs, works, verdict, restoring, fromNow,
                   slips, wishes>>

(* A window that fails gives its items back.                               *)
GivenBack(j, w) ==
    [media EXCEPT ![j] = [i \in Ids |-> IF @[i] = w THEN "pending" ELSE @[i]]]

-----------------------------------------------------------------------------
(* Recovery passes (recoverInterruptedTelegramJobs, recoverTelegramJob).   *)

(* Items whose worker is gone, when their lease has lapsed.                *)
Release(j, i) ==
    /\ media[j][i] = "lost" /\ ~jobs[j].done
    /\ media' = [media EXCEPT ![j][i] = "pending"]
    /\ UNCHANGED <<posts, sub, since, leapt, jobs, scan, works, verdict, restoring,
                   fromNow, slips, wishes>>

Repair(j) ==
    /\ jobs[j].done /\ ~Held(j)
    /\ \E i \in Ids : media[j][i] = "pending"
    /\ jobs' = [jobs EXCEPT ![j].status = "running", ![j].done = FALSE]
    /\ UNCHANGED <<posts, sub, since, leapt, media, scan, works, verdict, restoring,
                   fromNow, slips, wishes>>

Pick(j) ==
    /\ works[j] = "off"
    /\ ~jobs[j].done /\ jobs[j].status \in {"queued", "pending", "running"}
    /\ \E i \in Ids : media[j][i] = "pending"
    /\ works' = [works EXCEPT ![j] = "begin"]
    /\ UNCHANGED <<posts, sub, since, leapt, jobs, media, scan, verdict, restoring,
                   fromNow, slips, wishes>>

Begin(j) ==
    /\ works[j] = "begin"
    /\ IF Held(j) THEN works' = [works EXCEPT ![j] = "off"] /\ UNCHANGED jobs
       ELSE /\ works' = [works EXCEPT ![j] = "load"]
            /\ jobs' = WithStatus(j, "running")
    /\ UNCHANGED <<posts, sub, since, leapt, media, scan, verdict, restoring, fromNow,
                   slips, wishes>>

Loaded(j) ==
    /\ works[j] = "load" /\ Drained(j, "worker")
    /\ works' = [works EXCEPT ![j] = CASE Held(j) \/ Remaining(j) -> "off"
                                       [] Failed(j) # {} -> "faulty"
                                       [] OTHER -> "finish"]
    /\ UNCHANGED <<posts, sub, since, leapt, jobs, media, scan, verdict, restoring,
                   fromNow, slips, wishes>>

(* The end of the range; after a failure the message before the first one, *)
(* or what this run had done when a retry has taken the failures away.     *)
Advances(j) ==
    IF works[j] = "finish" THEN {jobs[j].to}
    ELSE IF Failed(j) # {}
    THEN {Max({jobs[j].from, i}) - 1 : i \in {k \in Failed(j) : \A h \in Failed(j) : k <= h}}
    ELSE {n \in jobs[j].from - 1 .. jobs[j].to :
              \A i \in jobs[j].from .. n : media[j][i] \in {"success", "skipped"}}

(* A job that restores an advertisement has no range: it is called failed  *)
(* whatever it did.  The same when the subscription is off.                *)
Complete(j) ==
    /\ works[j] \in {"finish", "faulty"}
    /\ works' = [works EXCEPT ![j] = "off"]
    /\ IF jobs[j].ad # 0 \/ (Open(j) /\ ~sub.on)
       THEN /\ jobs' = IF Held(j) THEN jobs ELSE Closed(j, "failed")
            /\ UNCHANGED <<sub, leapt>>
       ELSE IF Open(j)
       THEN /\ \E n \in Advances(j) :
                   Finalizes(j, IF works[j] = "finish" THEN "completed" ELSE "partial", n)
            /\ leapt' = IF works[j] = "finish"
                        THEN leapt \cup {i \in jobs[j].last + 1 .. jobs[j].to : i > sub.cursor}
                        ELSE leapt
       ELSE UNCHANGED <<jobs, sub, leapt>>
    /\ UNCHANGED <<posts, since, media, scan, verdict, restoring, fromNow,
                   slips, wishes>>

-----------------------------------------------------------------------------
(* Restoring an advertisement (POST /decisions/:id/review).                *)

JobOf(i) == {j \in Jobs : jobs[j].ad = i}

RestoreClaim(i) ==
    /\ verdict[i] = "blocked" /\ restoring[i] = "no"
    /\ restoring' = [restoring EXCEPT ![i] = "claimed"]
    /\ UNCHANGED <<posts, sub, since, leapt, jobs, media, scan, works, verdict, fromNow,
                   slips, wishes>>

(* At most one job for a decision, which a later request goes on with.     *)
RestoreCreate(i) ==
    /\ restoring[i] = "claimed" /\ sub.on
    /\ \/ JobOf(i) # {} /\ UNCHANGED jobs
       \/ /\ JobOf(i) = {}
          /\ \E j \in Jobs :
                IsNew(j) /\ jobs' = [jobs EXCEPT ![j] =
                                        [NoJob EXCEPT !.status = "queued", !.ad = i]]
    /\ restoring' = [restoring EXCEPT ![i] = "created"]
    /\ UNCHANGED <<posts, sub, since, leapt, media, scan, works, verdict, fromNow,
                   slips, wishes>>

RestorePersist(i) ==
    /\ restoring[i] = "created"
    /\ \E j \in JobOf(i) : media' = Persisted(j, {i})
    /\ restoring' = [restoring EXCEPT ![i] = "stored"]
    /\ UNCHANGED <<posts, sub, since, leapt, jobs, scan, works, verdict, fromNow,
                   slips, wishes>>

(* The status is written whatever it was; the marks of a pause or a        *)
(* cancellation stay.                                                      *)
RestoreStart(i) ==
    /\ restoring[i] = "stored"
    /\ \E j \in JobOf(i) :
          jobs' = [jobs EXCEPT ![j].status = IF Held(j) THEN "barred" ELSE "pending",
                               ![j].done = FALSE]
    /\ restoring' = [restoring EXCEPT ![i] = "started"]
    /\ UNCHANGED <<posts, sub, since, leapt, media, scan, works, verdict, fromNow,
                   slips, wishes>>

RestoreDone(i) ==
    /\ restoring[i] = "started"
    /\ restoring' = [restoring EXCEPT ![i] = "restored"]
    /\ verdict' = [verdict EXCEPT ![i] = "normal"]
    /\ UNCHANGED <<posts, sub, since, leapt, jobs, media, scan, works, fromNow, slips,
                   wishes>>

-----------------------------------------------------------------------------
(* The channel, the clock and the user.                                    *)

Post ==
    /\ posts < MaxId
    /\ posts' = posts + 1
    /\ UNCHANGED <<sub, since, leapt, jobs, media, scan, works, verdict, restoring,
                   fromNow, slips, wishes>>

Due ==
    /\ ~sub.due /\ scan.pc = "idle" /\ posts > sub.cursor
    /\ sub' = [sub EXCEPT !.due = TRUE]
    /\ UNCHANGED <<posts, since, leapt, jobs, media, scan, works, verdict, restoring,
                   fromNow, slips, wishes>>

Wish ==
    /\ wishes < MaxControls
    /\ wishes' = wishes + 1
    /\ UNCHANGED <<posts, scan, works, verdict, restoring, slips>>

Pause(j) ==
    /\ Wish
    /\ ~jobs[j].done /\ jobs[j].status \notin {"none", "paused"}
    /\ jobs' = WithStatus(j, "paused")
    /\ UNCHANGED <<sub, since, leapt, media, fromNow>>

Resume(j) ==
    /\ jobs[j].status = "paused"
    /\ jobs' = [jobs EXCEPT ![j].status = "running", ![j].done = FALSE]
    /\ UNCHANGED <<posts, sub, since, leapt, media, scan, works, verdict, restoring,
                   fromNow, slips, wishes>>

(* The status first, then the items that wait: here in one step.           *)
Cancel(j) ==
    /\ Wish
    /\ ~jobs[j].done /\ jobs[j].status # "none"
    /\ jobs' = Closed(j, "cancelled")
    /\ media' = [media EXCEPT ![j] = [i \in Ids |->
                    IF @[i] = "pending" THEN "skipped" ELSE @[i]]]
    /\ UNCHANGED <<sub, since, leapt, fromNow>>

Retry(j) ==
    /\ Wish
    /\ jobs[j].status \in {"failed", "partial"} /\ Failed(j) # {}
    /\ jobs' = [jobs EXCEPT ![j].status = "running", ![j].done = FALSE]
    /\ media' = [media EXCEPT ![j] = [i \in Ids |->
                    IF @[i] = "failed" THEN "pending" ELSE @[i]]]
    /\ UNCHANGED <<sub, since, leapt, fromNow>>

(* Unsubscribing; the deletion of the row is one that is never lifted.     *)
SwitchOff ==
    /\ Wish
    /\ sub.on
    /\ sub' = [sub EXCEPT !.on = FALSE]
    /\ UNCHANGED <<since, leapt, jobs, media, fromNow>>

(* Subscribing again keeps the cursor; a sync on demand is due at once.    *)
SwitchOn ==
    /\ ~sub.on
    /\ \E now \in BOOLEAN : sub' = [sub EXCEPT !.on = TRUE, !.due = @ \/ now]
    /\ UNCHANGED <<posts, since, leapt, jobs, media, scan, works, verdict, restoring,
                   fromNow, slips, wishes>>

AskFromNow ==
    /\ Wish
    /\ fromNow = {}
    /\ fromNow' = {posts}
    /\ UNCHANGED <<sub, since, leapt, jobs, media>>

FromNow ==
    /\ fromNow # {}
    /\ \E n \in fromNow : sub' = [sub EXCEPT !.cursor = n] /\ since' = n
    /\ fromNow' = {}
    /\ UNCHANGED <<posts, leapt, jobs, media, scan, works, verdict, restoring, slips,
                   wishes>>

-----------------------------------------------------------------------------
(* Failures.                                                               *)

Slip ==
    /\ slips < MaxFaults
    /\ slips' = slips + 1
    /\ UNCHANGED <<posts, since, leapt, verdict, fromNow, wishes>>

(* A step of the scan throws; when no account may read the channel, the    *)
(* subscription is switched off.                                           *)
ScanBreaks ==
    /\ Slip
    /\ scan.pc # "idle"
    /\ scan' = Idle
    /\ \/ scan.pc \in {"look", "read"} /\ sub' = [sub EXCEPT !.on = FALSE]
       \/ UNCHANGED sub
    /\ media' = IF scan.pc = "load" THEN GivenBack(scan.job, "scanner") ELSE media
    /\ UNCHANGED <<jobs, works, restoring>>

WorkBreaks(j) ==
    /\ Slip
    /\ works[j] # "off"
    /\ works' = [works EXCEPT ![j] = "off"]
    /\ media' = GivenBack(j, "worker")
    /\ jobs' = IF Held(j) \/ jobs[j].status = "completed" THEN jobs
               ELSE Closed(j, "failed")
    /\ UNCHANGED <<sub, scan, restoring>>

(* A request that failed, or ended with the process, can be made again,    *)
(* after five minutes at the latest.                                       *)
RestoreBreaks(i) ==
    /\ Slip
    /\ restoring[i] \notin {"no", "restored"}
    /\ restoring' = [restoring EXCEPT ![i] = "no"]
    /\ UNCHANGED <<sub, jobs, media, scan, works>>

Crash ==
    /\ Slip
    /\ scan' = Idle
    /\ works' = [j \in Jobs |-> "off"]
    /\ media' = [j \in Jobs |-> [i \in Ids |->
                    IF media[j][i] \in Runners THEN "lost" ELSE media[j][i]]]
    /\ restoring' = [i \in Ads |->
                        IF restoring[i] = "restored" THEN "restored" ELSE "no"]
    /\ UNCHANGED <<sub, jobs>>

-----------------------------------------------------------------------------

Init ==
    /\ posts = 0 /\ since = 0 /\ leapt = {}
    /\ sub = [on |-> TRUE, due |-> TRUE, cursor |-> 0]
    /\ jobs = [j \in Jobs |-> NoJob]
    /\ media = [j \in Jobs |-> [i \in Ids |-> "none"]]
    /\ scan = Idle
    /\ works = [j \in Jobs |-> "off"]
    /\ verdict = [i \in Ads |-> "none"]
    /\ restoring = [i \in Ads |-> "no"]
    /\ fromNow = {} /\ slips = 0 /\ wishes = 0

Scans ==
    \/ ScanRow \/ ScanLook \/ ScanRead \/ ScanCreate \/ ScanPersist
    \/ ScanStart \/ ScanTally \/ ScanFinish \/ ScanBreaks

Works(j) ==
    \/ Repair(j) \/ Pick(j) \/ Begin(j) \/ Loaded(j) \/ Complete(j) \/ WorkBreaks(j)
    \/ Pause(j) \/ Resume(j) \/ Cancel(j) \/ Retry(j)
    \/ \E i \in Ids :
          Release(j, i) \/ \E w \in Runners : Claim(w, j, i) \/ Settle(w, j, i)

Restores(i) ==
    \/ RestoreClaim(i) \/ RestoreCreate(i) \/ RestorePersist(i)
    \/ RestoreStart(i) \/ RestoreDone(i) \/ RestoreBreaks(i)

Next ==
    \/ Scans \/ \E j \in Jobs : Works(j)
    \/ \E i \in Ads : Restores(i)
    \/ Post \/ Due \/ SwitchOff \/ SwitchOn \/ AskFromNow \/ FromNow \/ Crash

Spec == Init /\ [][Next]_vars

-----------------------------------------------------------------------------

TypeOK ==
    /\ posts \in 0 .. MaxId /\ since \in 0 .. MaxId
    /\ sub \in [on : BOOLEAN, due : BOOLEAN, cursor : 0 .. MaxId]
    /\ \A j \in Jobs :
          /\ jobs[j].status \in {"none", "queued", "pending", "running", "paused", "barred",
                                 "cancelled", "completed", "partial", "failed"}
          /\ jobs[j].from \in 0 .. MaxId /\ jobs[j].to \in 0 .. MaxId
    /\ media \in [Jobs -> [Ids -> Ended \cup Runners \cup {"none", "pending", "lost"}]]
    /\ works \in [Jobs -> {"off", "begin", "load", "finish", "faulty"}]
    /\ scan.bad \subseteq scan.take /\ scan.fine \subseteq scan.take

(* A file that was judged an advertisement, or of which a job has an item: *)
(* its download came to an end, a pass will still load it, or the user has *)
(* cancelled it.                                                           *)
Handled(i) ==
    \/ i \in Ads /\ verdict[i] # "none"
    \/ \E j \in Jobs : media[j][i] # "none"

(* The cursor passes a file only when it is handled, however scans,        *)
(* passes, crashes, controls and "from now" interleave, except those that  *)
(* the end of a recovered job leaps over.                                  *)
Recorded == \A i \in Files \ leapt : since < i /\ i <= sub.cursor => Handled(i)

(* "This scan reached its limit [...], so the remaining items will be      *)
(* handled in a later scan" (i18n/telegram.ts:1178): the cursor stays      *)
(* before them.  The code moves it to the newest message when a recovery   *)
(* pass completes the job (telegramChannelJobs.ts:2458).                   *)
RestIsScanned == \A i \in Files : since < i /\ i <= sub.cursor => Handled(i)

(* What the user was told is restored has an item, in a job of its own.    *)
RestoredOnce ==
    \A i \in Ads :
        /\ Cardinality(JobOf(i)) <= 1
        /\ restoring[i] = "restored" => \E j \in JobOf(i) : media[j][i] # "none"

SyncKept == Recorded /\ RestoredOnce
=============================================================================

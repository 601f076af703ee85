------------------------- MODULE OrdinaryTransfers -------------------------
(* Files that are sent to the bot, alone or as one album: what is          *)
(* remembered of each of them (telegramOrdinaryRecovery.ts), the row of    *)
(* their task (transferTasks.ts), the workers that fetch, store and index  *)
(* them, and the pass that takes them up after a restart                   *)
(* (telegramUpload.ts).                                                    *)
EXTENDS Naturals, Sequences, FiniteSets

CONSTANTS
    Files,          \* messages with a file, of one task
    Album,          \* whether they form an album
    Prepared,       \* whether the storage tells an object's path beforehand
    MaxArrivals,    \* bound: deliveries of messages
    MaxTasks,       \* bound: tasks of the download queue, in all
    MaxControls,    \* bound: pauses, cancellations and retries
    MaxTroubles     \* bound: failures, crashes and restarts of the bot

VARIABLES
    row,        \* transfer_tasks.status of the task, or "none"
    ref,        \* ordinaryFiles: the state of each file
    path,       \* storedPath: the object that a file's ref names, or 0
    objects,    \* all written so far: file, in the storage, indexed, reported
    hand,       \* the handler of a message: where it is, and its album queue
    queues,     \* album queues made: files that are pending, processingStarted
    current,    \* mediaGroupQueues: the one of the album, or 0
    timer,      \* of the debouncer
    batch,      \* processBatchUploadSnapshot: its stage and files
    group,      \* the group of the download queue
    tasks,      \* of that group, until they are settled
    failures,   \* files of failed tasks in the queue's history
    news,       \* states of the group that are yet to be persisted
    pass,       \* recoverOrdinaryTelegramTasks
    late,       \* files that were known and not among those with which their album began
    twice,      \* files in two hands, or whose success could not be noted
    torn,       \* objects whose index is not as it was taken to be
    arrivals, made, controls, troubles

store == <<row, ref, path, objects>>
album == <<queues, current, timer, batch>>
queue == <<group, tasks, failures, made>>
ghosts == <<late, twice, torn>>
bounds == <<arrivals, controls, troubles>>
vars == <<store, hand, album, queue, news, pass, ghosts, bounds>>

Final == {"completed", "failed", "cancelled"}
Settled == {"success", "failed", "cancelled"}
Max2(a, b) == IF a > b THEN a ELSE b

Trouble == troubles < MaxTroubles /\ troubles' = troubles + 1 /\ UNCHANGED <<arrivals, controls>>
Control == controls < MaxControls /\ controls' = controls + 1 /\ UNCHANGED <<arrivals, troubles>>

-----------------------------------------------------------------------------
(* What is remembered.                                                     *)

(* A failure replaces a success.                                           *)
NotedAlways(f, s) == [ref EXCEPT ![f] = s]

(* updateOrdinaryFile: a success is only taken back by a cancellation.     *)
Noted(f, s) == IF ref[f] = "success" /\ s # "cancelled" THEN ref ELSE [ref EXCEPT ![f] = s]
Note(f, s) == ref' = Noted(f, s)

(* persistOrdinaryTransferTask: a final row stays.                         *)
Written(s) == IF row \in Final /\ ~(row = "cancelled" /\ s = "cancelled") THEN row ELSE s

(* snapshotGroup, ordinaryStatus.                                          *)
Waiting(ts) == {i \in DOMAIN ts : ts[i].at = "waiting"}
Active(ts) == DOMAIN ts \ Waiting(ts)
Ended(g) == g.done + g.failed + g.cancelled
Over(g, ts) == ts = <<>> /\ Ended(g) > 0 /\ Ended(g) >= g.expected
Status(g, ts) ==
    CASE g.over = "cancelled" -> "cancelled"
      [] g.over # "cancelled" /\ Over(g, ts) -> IF g.failed > 0 THEN "failed" ELSE "completed"
      [] g.over # "cancelled" /\ ~Over(g, ts) /\ g.over # "none" -> "paused"
      [] g.over = "none" /\ ~Over(g, ts) /\ Active(ts) # {} -> "running"
      [] OTHER -> "pending"

(* notifyGroup: one after the other.                                       *)
Tell == LET s == Status(group', tasks')
        IN news' = IF news # <<>> /\ news[Len(news)] = s THEN news ELSE Append(news, s)

Persist ==
    /\ news # <<>>
    /\ row' = Written(Head(news)) /\ news' = Tail(news)
    /\ UNCHANGED <<ref, path, objects, hand, album, queue, pass, ghosts, bounds>>

-----------------------------------------------------------------------------
(* The group.                                                              *)

NoGroup == [live |-> FALSE, over |-> "none", expected |-> 0, done |-> 0, failed |-> 0, cancelled |-> 0]
Fresh(n) == [NoGroup EXCEPT !.live = TRUE, !.expected = n]

(* ensureGroup: one that has ended is replaced.                            *)
Ensured(n) ==
    IF group.live /\ ~(tasks = <<>> /\ group.over = "cancelled") /\ ~Over(group, tasks)
    THEN [group EXCEPT !.expected = Max2(@, n)]
    ELSE Fresh(n)

Task(f, k) == [file |-> f, kind |-> k, at |-> "waiting", obj |-> 0, good |-> FALSE, abort |-> FALSE]

(* add: a cancelled group takes nothing; onPendingCancelled is told.       *)
Add(g, fs, k) ==
    /\ made + Cardinality(fs) <= MaxTasks
    /\ IF g.over = "cancelled"
       THEN /\ ref' = [f \in Files |-> IF f \in fs THEN "cancelled" ELSE ref[f]]
            /\ group' = g /\ UNCHANGED <<tasks, made>>
       ELSE \E order \in [1..Cardinality(fs) -> fs] :
               /\ \A f \in fs : \E i \in DOMAIN order : order[i] = f
               /\ tasks' = tasks \o [i \in DOMAIN order |-> Task(order[i], k)]
               /\ group' = [g EXCEPT
                     !.expected = Max2(@, Len(tasks') + Ended(g)),
                     !.over = IF @ = "pausing" /\ Active(tasks) = {} THEN "paused" ELSE @]
               /\ made' = made + Cardinality(fs)
               /\ UNCHANGED ref

-----------------------------------------------------------------------------
(* A message: its target, what is remembered, its album or its own task.   *)

Idle == [at |-> "idle", q |-> 0]

Arrive(f) ==
    /\ hand[f].at = "idle" /\ arrivals < MaxArrivals
    /\ arrivals' = arrivals + 1 /\ UNCHANGED <<controls, troubles>>
    /\ IF Album /\ current = 0
       THEN queues' = Append(queues, [files |-> {}, busy |-> FALSE]) /\ current' = Len(queues')
       ELSE UNCHANGED <<queues, current>>
    /\ hand' = [hand EXCEPT ![f] = [at |-> "target", q |-> current']]
    /\ UNCHANGED <<store, timer, batch, queue, news, pass, ghosts>>

(* rememberOrdinaryFile: once for each message; no room: the handler fails. *)
Remember(f) ==
    /\ hand[f].at = "target"
    /\ IF ref[f] # "none"
       THEN hand' = [hand EXCEPT ![f] = Idle] /\ UNCHANGED <<row, ref, late, twice>>
       ELSE /\ hand' = [hand EXCEPT ![f].at = "remembered"]
            /\ ref' = [ref EXCEPT ![f] = "pending"]
            /\ row' = IF row = "none" THEN "pending" ELSE row
            /\ late' = IF row # "none" /\ (row \in Final \/ group.live \/ batch.stage # "none" \/ pass.at # "none")
                       THEN late \cup {f} ELSE late
            /\ UNCHANGED twice
    /\ UNCHANGED <<path, objects, album, queue, news, pass, torn, bounds>>

NoRoom(f) ==
    /\ hand[f].at = "target" /\ ref[f] = "none" /\ Trouble
    /\ hand' = [hand EXCEPT ![f] = Idle]
    /\ UNCHANGED <<store, album, queue, news, pass, ghosts>>

(* The file joins the queue that the handler got before; by now it may be  *)
(* one that is no longer looked at.                                        *)
Join(f) ==
    /\ Album /\ hand[f].at = "remembered"
    /\ hand' = [hand EXCEPT ![f] = Idle]
    /\ queues' = [queues EXCEPT ![hand[f].q].files = @ \cup {f}]
    /\ timer' = TRUE
    /\ late' = IF hand[f].q # current \/ queues[current].busy THEN late \cup {f} ELSE late
    /\ UNCHANGED <<store, current, batch, queue, news, pass, twice, torn, bounds>>

(* admitOrdinaryTransferTask.                                              *)
Admit(f) ==
    /\ ~Album /\ hand[f].at = "remembered"
    /\ hand' = [hand EXCEPT ![f].at = "admitted"]
    /\ row' = Written("pending")
    /\ UNCHANGED <<ref, path, objects, album, queue, news, pass, ghosts, bounds>>

NotAdmitted(f) ==
    /\ ~Album /\ hand[f].at = "remembered" /\ Trouble
    /\ hand' = [hand EXCEPT ![f] = Idle]
    /\ UNCHANGED <<store, album, queue, news, pass, ghosts>>

Ensure(f) ==
    /\ hand[f].at = "admitted"
    /\ hand' = [hand EXCEPT ![f].at = "ensured"]
    /\ group' = Ensured(1) /\ UNCHANGED <<tasks, failures, made>>
    /\ Tell
    /\ UNCHANGED <<store, album, pass, ghosts, bounds>>

Enqueue(f) ==
    /\ hand[f].at = "ensured"
    /\ hand' = [hand EXCEPT ![f] = Idle]
    /\ Add(group, {f}, "single") /\ Tell
    /\ UNCHANGED <<row, path, objects, failures, album, pass, ghosts, bounds>>

-----------------------------------------------------------------------------
(* An album: processBatchUpload.                                           *)

NoBatch == [stage |-> "none", files |-> {}]

(* takePendingMediaGroupSnapshot.                                          *)
Fire ==
    /\ timer /\ timer' = FALSE
    /\ IF current = 0 \/ (current # 0 => queues[current].busy)
       THEN UNCHANGED <<queues, current, batch, late>>
       ELSE IF queues[current].files = {}
            THEN current' = 0 /\ UNCHANGED <<queues, batch, late>>
            ELSE /\ queues' = [queues EXCEPT ![current].busy = TRUE]
                 /\ batch' = [stage |-> "taken", files |-> queues[current].files]
                 /\ late' = late \cup ({f \in Files : ref[f] # "none"} \ queues[current].files)
                 /\ UNCHANGED current
    /\ UNCHANGED <<store, hand, queue, news, pass, twice, torn, bounds>>

AlbumAdmitted ==
    /\ batch.stage = "taken"
    /\ row' = Written("pending")
    /\ batch' = [batch EXCEPT !.stage = "admitted"]
    /\ UNCHANGED <<ref, path, objects, hand, queues, current, timer, queue, news, pass, ghosts, bounds>>

(* An album that fails before its files are queued is tried again.         *)
AlbumFails ==
    /\ batch.stage \in {"taken", "admitted", "ensured"} /\ Trouble
    /\ batch' = NoBatch /\ timer' = TRUE
    /\ queues' = [queues EXCEPT ![current].busy = FALSE]
    /\ UNCHANGED <<store, hand, current, queue, news, pass, ghosts>>

AlbumEnsured ==
    /\ batch.stage = "admitted"
    /\ batch' = [batch EXCEPT !.stage = "ensured"]
    /\ group' = Ensured(Cardinality(batch.files)) /\ UNCHANGED <<tasks, failures, made>>
    /\ Tell
    /\ UNCHANGED <<store, hand, queues, current, timer, pass, ghosts, bounds>>

AlbumQueued ==
    /\ batch.stage = "ensured"
    /\ batch' = [batch EXCEPT !.stage = "queued"]
    /\ queues' = [queues EXCEPT ![current].files = @ \ batch.files]
    /\ Add(group, batch.files, "album") /\ Tell
    /\ UNCHANGED <<row, path, objects, hand, current, timer, failures, pass, ghosts, bounds>>

(* The files of the snapshot are through: those that came since, or none.  *)
AlbumDone ==
    /\ batch.stage = "queued"
    /\ \A i \in DOMAIN tasks : tasks[i].kind # "album"
    /\ batch' = NoBatch
    /\ IF queues[current].files # {}
       THEN /\ queues' = [queues EXCEPT ![current].busy = FALSE]
            /\ timer' = TRUE /\ UNCHANGED current
       ELSE current' = 0 /\ UNCHANGED <<queues, timer>>
    /\ UNCHANGED <<store, hand, queue, news, pass, ghosts, bounds>>

-----------------------------------------------------------------------------
(* A task: attemptUpload, attemptSingleUpload.                             *)

At(i, s) == i \in DOMAIN tasks /\ tasks[i].at = s
Set(i, t) == tasks' = [tasks EXCEPT ![i] = t] /\ UNCHANGED <<group, failures, made>>
Verdict(i, good) == Set(i, [tasks[i] EXCEPT !.at = "verdict", !.good = good])

Start(i) ==
    /\ At(i, "waiting") /\ group.over = "none"
    /\ Set(i, [tasks[i] EXCEPT !.at = "download"])
    /\ Note(tasks[i].file, "downloading") /\ Tell
    /\ UNCHANGED <<row, path, objects, hand, album, pass, ghosts, bounds>>

Write(i) ==
    /\ At(i, "download") /\ ~tasks[i].abort
    /\ objects' = Append(objects, [file |-> tasks[i].file, there |-> FALSE, indexed |-> FALSE, told |-> FALSE])
    /\ Set(i, [tasks[i] EXCEPT !.at = "save", !.obj = Len(objects')])
    /\ Note(tasks[i].file, "saving")
    /\ path' = [path EXCEPT ![tasks[i].file] = IF Prepared /\ ref'[tasks[i].file] = "saving" THEN Len(objects') ELSE @]
    /\ UNCHANGED <<row, hand, album, news, pass, ghosts, bounds>>

DownloadFails(i) ==
    /\ At(i, "download")
    /\ IF tasks[i].abort THEN UNCHANGED bounds ELSE Trouble
    /\ Verdict(i, FALSE)
    /\ UNCHANGED <<store, hand, album, news, pass, ghosts>>

Store(i) ==
    /\ At(i, "save")
    /\ objects' = [objects EXCEPT ![tasks[i].obj].there = TRUE]
    /\ Set(i, [tasks[i] EXCEPT !.at = "index"])
    /\ UNCHANGED <<row, ref, path, hand, album, news, pass, ghosts, bounds>>

(* An error that may hide a success.                                       *)
StoreFails(i) ==
    /\ At(i, "save") /\ Trouble
    /\ \E wrote \in BOOLEAN : objects' = [objects EXCEPT ![tasks[i].obj].there = wrote]
    /\ Verdict(i, FALSE)
    /\ UNCHANGED <<row, ref, path, hand, album, news, pass, ghosts>>

(* indexOrdinaryFile: the index and the success at once.                   *)
Index(i) ==
    /\ At(i, "index")
    /\ objects' = [objects EXCEPT ![tasks[i].obj].indexed = TRUE]
    /\ ref' = [ref EXCEPT ![tasks[i].file] = "success"]
    /\ Set(i, [tasks[i] EXCEPT !.at = "check"])
    /\ UNCHANGED <<row, path, hand, album, news, pass, ghosts, bounds>>

(* The answer to COMMIT is lost: it is taken for a failure.                *)
IndexLost(i) ==
    /\ At(i, "index") /\ Trouble
    /\ \E removed \in BOOLEAN :
          /\ removed => tasks[i].kind = "single"
          /\ objects' = [objects EXCEPT ![tasks[i].obj].indexed = TRUE, ![tasks[i].obj].there = ~removed]
    /\ ref' = [ref EXCEPT ![tasks[i].file] = "success"]
    /\ Verdict(i, FALSE)
    /\ twice' = twice \cup {tasks[i].file} /\ torn' = torn \cup {tasks[i].obj}
    /\ UNCHANGED <<row, path, hand, album, news, pass, late>>

(* saveAndIndexWithCompensation; an album's file keeps its object.         *)
IndexFails(i) ==
    /\ At(i, "index") /\ Trouble
    /\ \E removed \in BOOLEAN :
          /\ removed => tasks[i].kind = "single"
          /\ objects' = [objects EXCEPT ![tasks[i].obj].there = ~removed]
    /\ Verdict(i, FALSE)
    /\ UNCHANGED <<row, ref, path, hand, album, news, pass, ghosts>>

Check(i) ==
    /\ At(i, "check")
    /\ IF tasks[i].abort
       THEN /\ objects' = [objects EXCEPT ![tasks[i].obj].there = FALSE]
            /\ Set(i, [tasks[i] EXCEPT !.at = "undo"])
       ELSE Verdict(i, TRUE) /\ UNCHANGED objects
    /\ UNCHANGED <<row, ref, path, hand, album, news, pass, ghosts, bounds>>

(* compensateIndexedWriteAfterCancel: first the object, then the index.    *)
Undo(i) ==
    /\ At(i, "undo")
    /\ objects' = [objects EXCEPT ![tasks[i].obj].indexed = FALSE]
    /\ Verdict(i, FALSE)
    /\ UNCHANGED <<row, ref, path, hand, album, news, pass, ghosts, bounds>>

UndoFails(i) ==
    /\ At(i, "undo") /\ Trouble
    /\ \E gone \in BOOLEAN : objects' = [objects EXCEPT ![tasks[i].obj].there = ~gone]
    /\ torn' = torn \cup {tasks[i].obj}
    /\ Verdict(i, FALSE)
    /\ UNCHANGED <<row, ref, path, hand, album, news, pass, late, twice>>

Without(i) == [j \in 1..(Len(tasks) - 1) |-> IF j < i THEN tasks[j] ELSE tasks[j + 1]]

(* What the queue does when a task ends.                                   *)
Settle(i, good) ==
    LET t == tasks[i]
        g == IF t.abort THEN [group EXCEPT !.cancelled = @ + 1]
             ELSE IF good THEN [group EXCEPT !.done = @ + 1]
             ELSE [group EXCEPT !.failed = @ + 1]
    IN /\ tasks' = Without(i)
       /\ group' = [g EXCEPT !.over =
              IF @ = "pausing" /\ Active(tasks') = {}
              THEN IF tasks' # <<>> \/ Ended(g) < g.expected THEN "paused" ELSE "none"
              ELSE @]
       /\ failures' = IF t.abort \/ good THEN failures ELSE failures \cup {t.file}
       /\ UNCHANGED made

Reported(i) ==
    IF tasks[i].obj = 0 \/ (tasks[i].good /\ ~tasks[i].abort) THEN objects
    ELSE [objects EXCEPT ![tasks[i].obj].told = TRUE]

Finish(i) ==
    /\ At(i, "verdict")
    /\ Note(tasks[i].file, IF tasks[i].abort THEN "cancelled"
                           ELSE IF tasks[i].good THEN "success" ELSE "failed")
    /\ objects' = Reported(i)
    /\ Settle(i, tasks[i].good) /\ Tell
    /\ UNCHANGED <<row, path, hand, album, pass, ghosts, bounds>>

(* The last update fails: so does the task.                                *)
FinishFails(i) ==
    /\ At(i, "verdict") /\ Trouble
    /\ objects' = Reported(i)
    /\ Settle(i, FALSE) /\ Tell
    /\ twice' = IF tasks[i].good THEN twice \cup {tasks[i].file} ELSE twice
    /\ UNCHANGED <<row, ref, path, hand, album, pass, late, torn>>

-----------------------------------------------------------------------------
(* Controls.                                                               *)

Open == group.live /\ group.over # "cancelled" /\ ~Over(group, tasks)

Pause ==
    /\ Open /\ group.over = "none" /\ Control
    /\ group' = [group EXCEPT !.over = IF Active(tasks) # {} THEN "pausing" ELSE "paused"]
    /\ UNCHANGED <<tasks, failures, made>> /\ Tell
    /\ UNCHANGED <<store, hand, album, pass, ghosts>>

ResumeGroup ==
    /\ Open /\ group.over # "none"
    /\ group' = [group EXCEPT !.over = "none"]
    /\ UNCHANGED <<tasks, failures, made>> /\ Tell
    /\ UNCHANGED <<store, hand, album, pass, ghosts, bounds>>

(* cancelGroup: what waits is removed, what runs is aborted.               *)
Cancel ==
    /\ Open /\ Control
    /\ LET gone == {tasks[i].file : i \in Waiting(tasks)}
       IN /\ ref' = [f \in Files |-> IF f \in gone THEN "cancelled" ELSE ref[f]]
          /\ group' = [group EXCEPT !.over = "cancelled", !.cancelled = @ + Cardinality(Waiting(tasks))]
    /\ \E order \in [1..Cardinality(Active(tasks)) -> Active(tasks)] :
          /\ \A i \in Active(tasks) : \E k \in DOMAIN order : order[k] = i
          /\ \A k, l \in DOMAIN order : k < l => order[k] < order[l]
          /\ tasks' = [k \in DOMAIN order |-> [tasks[order[k]] EXCEPT !.abort = TRUE]]
    /\ UNCHANGED <<failures, made>> /\ Tell
    /\ UNCHANGED <<row, path, objects, hand, album, pass, ghosts>>

(* retryFailed.                                                            *)
Retry(f) ==
    /\ f \in failures /\ group.live /\ group.over # "cancelled" /\ Control
    /\ failures' = failures \ {f}
    /\ Add([group EXCEPT !.failed = IF @ > 0 THEN @ - 1 ELSE 0], {f}, IF Album THEN "again" ELSE "single")
    /\ Tell
    /\ UNCHANGED <<row, path, objects, hand, album, pass, ghosts>>

-----------------------------------------------------------------------------
(* The pass, when a bot has been up for a while.                           *)

(* Whoever has the file of a message.                                      *)
InHand(f) ==
    \/ hand[f].at # "idle" \/ f \in batch.files
    \/ (current # 0 /\ f \in queues[current].files)
    \/ \E i \in DOMAIN tasks : tasks[i].file = f

NoPass == [at |-> "none", refs |-> [f \in Files |-> "none"], paused |-> FALSE, todo |-> {}, again |-> {},
           done |-> 0, failed |-> 0, cancelled |-> 0]

(* readRecoverableOrdinaryTasks.                                           *)
PassReads ==
    /\ pass.at = "none" /\ row \in {"pending", "running", "paused"} /\ Trouble
    /\ pass' = [at |-> "read", refs |-> ref, paused |-> row = "paused", todo |-> {}, again |-> {},
                done |-> 0, failed |-> 0, cancelled |-> 0]
    /\ UNCHANGED <<store, hand, album, queue, news, ghosts>>

Count(s) == Cardinality({f \in Files : pass.refs[f] = s})

(* A group that the queue knows is left alone.                             *)
PassTakes ==
    /\ pass.at = "read"
    /\ IF group.live THEN pass' = NoPass /\ UNCHANGED twice
       ELSE /\ pass' = [pass EXCEPT !.at = "taken",
                  !.todo = {f \in Files : pass.refs[f] \in {"pending", "downloading", "saving"}},
                  !.done = Count("success"), !.failed = Count("failed"), !.cancelled = Count("cancelled")]
            /\ twice' = twice \cup {f \in pass'.todo : InHand(f)}
    /\ UNCHANGED <<store, hand, album, queue, news, late, torn, bounds>>

(* The target of the task is gone.                                         *)
PassFails ==
    /\ pass.at = "taken" /\ Trouble
    /\ pass' = NoPass /\ row' = "failed"
    /\ UNCHANGED <<ref, path, objects, hand, album, queue, news, ghosts>>

(* A file that was being saved: its object is removed before it is loaded  *)
(* again, unless it is indexed.                                            *)
Found(f) == \E o \in DOMAIN objects : objects[o].file = f /\ objects[o].indexed
Unsure(f) == pass.refs[f] = "saving" /\ ~Found(f)

Resumed(f) ==
    /\ f \in pass.todo
    /\ IF pass.refs[f] = "saving" /\ Found(f)
       THEN /\ Note(f, "success")
            /\ pass' = [pass EXCEPT !.todo = @ \ {f}, !.done = @ + 1]
            /\ UNCHANGED objects
       ELSE /\ Unsure(f) => path[f] # 0
            /\ objects' = IF Unsure(f) THEN [objects EXCEPT ![path[f]].there = FALSE] ELSE objects
            /\ Note(f, "pending")
            /\ pass' = [pass EXCEPT !.todo = @ \ {f}, !.again = @ \cup {f}]
    /\ UNCHANGED <<row, path, hand, album, queue, news, ghosts, bounds>>

(* Its path is not known, it cannot be removed, or the message is gone.    *)
NotResumed(f) ==
    /\ f \in pass.todo /\ (pass.refs[f] = "saving" => ~Found(f))
    /\ IF Unsure(f) /\ path[f] = 0 THEN UNCHANGED bounds ELSE Trouble
    /\ Note(f, "failed")
    /\ objects' = [o \in DOMAIN objects |->
                     IF objects[o].file = f THEN [objects[o] EXCEPT !.told = TRUE] ELSE objects[o]]
    /\ pass' = [pass EXCEPT !.todo = @ \ {f}, !.failed = @ + 1]
    /\ UNCHANGED <<row, path, hand, album, queue, news, ghosts>>

(* restoreGroup, and a task for every file that is left.                   *)
PassRestores ==
    /\ pass.at = "taken" /\ pass.todo = {}
    /\ pass' = NoPass
    /\ LET known == {f \in Files : pass.refs[f] # "none"}
       IN Add([Ensured(Cardinality(known)) EXCEPT
                 !.done = pass.done, !.failed = pass.failed, !.cancelled = pass.cancelled,
                 !.over = IF pass.paused THEN "paused" ELSE @],
              pass.again, "again")
    /\ Tell
    /\ UNCHANGED <<row, path, objects, failures, hand, album, ghosts, bounds>>

-----------------------------------------------------------------------------
Crash ==
    /\ Trouble
    /\ torn' = torn \cup {tasks[i].obj : i \in {j \in DOMAIN tasks : tasks[j].at = "undo"}}
    /\ hand' = [f \in Files |-> Idle]
    /\ queues' = <<>> /\ current' = 0 /\ timer' = FALSE /\ batch' = NoBatch
    /\ group' = NoGroup /\ tasks' = <<>> /\ failures' = {} /\ news' = <<>> /\ pass' = NoPass
    /\ UNCHANGED <<store, made, late, twice>>

Init ==
    /\ row = "none" /\ ref = [f \in Files |-> "none"] /\ path = [f \in Files |-> 0] /\ objects = <<>>
    /\ hand = [f \in Files |-> Idle]
    /\ queues = <<>> /\ current = 0 /\ timer = FALSE /\ batch = NoBatch
    /\ group = NoGroup /\ tasks = <<>> /\ failures = {} /\ news = <<>>
    /\ pass = NoPass
    /\ late = {} /\ twice = {} /\ torn = {}
    /\ arrivals = 0 /\ made = 0 /\ controls = 0 /\ troubles = 0

Message == \E f \in Files : \/ Arrive(f) \/ Remember(f) \/ NoRoom(f) \/ Join(f) \/ Admit(f)
                            \/ NotAdmitted(f) \/ Ensure(f) \/ Enqueue(f)
AlbumStep == Fire \/ AlbumAdmitted \/ AlbumFails \/ AlbumEnsured \/ AlbumQueued \/ AlbumDone
Work == \E i \in DOMAIN tasks : \/ Start(i) \/ Write(i) \/ DownloadFails(i) \/ Store(i) \/ StoreFails(i)
                                \/ Index(i) \/ IndexLost(i) \/ IndexFails(i) \/ Check(i) \/ Undo(i) \/ UndoFails(i)
                                \/ Finish(i) \/ FinishFails(i)
Controls == Pause \/ ResumeGroup \/ Cancel \/ (\E f \in Files : Retry(f))
Pass == PassReads \/ PassTakes \/ PassFails \/ PassRestores
        \/ (\E f \in Files : Resumed(f) \/ NotResumed(f))

Next == Persist \/ Message \/ AlbumStep \/ Work \/ Controls \/ Pass \/ Crash

Spec == Init /\ [][Next]_vars

-----------------------------------------------------------------------------
(* Properties.                                                             *)

TypeOK ==
    /\ row \in {"none", "pending", "running", "paused"} \cup Final
    /\ ref \in [Files -> {"none", "pending", "downloading", "saving"} \cup Settled]
    /\ path \in [Files -> 0..Len(objects)]
    /\ \A o \in DOMAIN objects : objects[o].file \in Files
    /\ current \in 0..Len(queues)
    /\ batch.files \subseteq Files /\ failures \subseteq Files

Busy(o) == \E i \in DOMAIN tasks : tasks[i].obj = o

(* An indexed file is in the storage, except where its removal failed or   *)
(* was interrupted.                                                        *)
IndexedIsThere ==
    \A o \in DOMAIN objects :
        objects[o].indexed => objects[o].there \/ Busy(o) \/ objects[o].told \/ o \in torn

(* A file is indexed once, whatever fails, crashes or is sent again.       *)
IndexedOnce ==
    \A f \in Files \ twice :
        Cardinality({o \in DOMAIN objects : objects[o].file = f /\ objects[o].indexed}) <= 1

(* An object that is not indexed is in a worker's hands, named by its      *)
(* file's record, or was reported.                                         *)
StraysAreKnown ==
    \A o \in DOMAIN objects :
        objects[o].there /\ ~objects[o].indexed =>
            \/ Busy(o) \/ objects[o].told \/ objects[o].file \in twice
            \/ ref[objects[o].file] = "saving" /\ path[objects[o].file] \in {o, 0}

(* A file that is neither settled nor in anybody's hands will be taken up, *)
(* or its task is said to have failed or to be cancelled.                  *)
NotForgotten ==
    \A f \in Files \ late :
        ref[f] \notin Settled \cup {"none"} /\ ~InHand(f) /\ pass.at = "none" => row # "completed"

TransfersKept == IndexedIsThere /\ IndexedOnce /\ StraysAreKnown /\ NotForgotten
=============================================================================

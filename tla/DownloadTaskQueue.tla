------------------------- MODULE DownloadTaskQueue -------------------------
(***************************************************************************)
(* The in-memory queue of file downloads of the Telegram bot               *)
(* (backend/src/services/downloadTaskQueue.ts) with the executor of a task *)
(* as telegramUpload.ts drives it.                                         *)
(*                                                                         *)
(* A task is one file of one group.  It waits in `queue`, is started by    *)
(* processNext when a download slot is free, downloads, waits for one of   *)
(* the upload slots, uploads, and settles.  Users pause, resume, cancel,   *)
(* prioritise and retry groups, chats (scopes) or everything; a task short *)
(* of disk space holds a system pause.  Every handler runs to completion   *)
(* on one JavaScript thread, so it is one action; what interleaves are the *)
(* handlers, between an abort and the executor that notices it, between a  *)
(* pause and the active files that still finish.                           *)
(***************************************************************************)
EXTENDS OrderedSet

CONSTANTS
    Tasks, Groups,
    GroupOf,        \* the group of each task
    Hidden,         \* groups the ordinary controls do not see: channel jobs
    Scopes,         \* chat/user pairs that can be paused or cancelled together
    ScopeGroups,    \* the groups each scope matches
    Limits,         \* the values setMaxConcurrent is called with
    InitialLimit,
    Expected,       \* the expectedTotal values ensureGroup is called with
    MaxUploads,     \* 10 in the code
    MaxHistory,     \* 50 in the code
    MaxGroups,      \* 500 in the code
    RetryLimit,     \* the limit retryFailed is called with
    MaxRetries      \* bound: how often one file is retried

ASSUME QueueAssumption ==
    /\ IsFiniteSet(Tasks)
    /\ IsFiniteSet(Groups)
    /\ GroupOf \in [Tasks -> Groups]
    /\ Hidden \subseteq Groups
    /\ ScopeGroups \in [Scopes -> SUBSET Groups]
    /\ Limits \subseteq Nat \ {0}
    /\ InitialLimit \in Limits
    /\ Expected \subseteq Nat
    /\ MaxUploads \in Nat \ {0}
    /\ MaxHistory \in Nat
    /\ MaxGroups \in Nat
    /\ RetryLimit \in Nat
    /\ MaxRetries \in Nat

VARIABLES
    queue,          \* pending tasks, in the order they are considered
    phase,          \* phase of each active task, "none" when not active
    outcome,        \* how a task ended, "none" while it has not
    aborted,        \* active tasks whose abort signal has fired
    waiters,        \* active tasks waiting for an upload slot, in order
    history,        \* settled tasks, newest first
    known,          \* groups that have a record
    group,          \* the record of each known group
    maxConcurrent,
    userPaused,
    scopePauses,    \* scopes paused by a user
    overrides,      \* groups resumed one by one inside a paused scope
    blockers,       \* active tasks that hold the disk-pressure pause
    retries

executorVars == <<queue, phase, outcome, aborted, waiters, history, retries>>
groupVars == <<known, group>>
controlVars == <<maxConcurrent, userPaused, scopePauses, overrides, blockers>>
vars == <<executorVars, groupVars, controlVars>>

-----------------------------------------------------------------------------
(* Types.                                                                  *)

Downloads == {"downloading", "retrying"}
Phases == Downloads \cup {"waiting_upload", "uploading", "waiting_storage"}
Outcomes == {"success", "failed", "cancelled"}
Overrides == {"none", "pausing", "paused", "cancelling", "cancelled"}

GroupRecord == [expected : Nat, completed : Nat, failed : Nat,
                cancelled : Nat, override : Overrides]

NewGroup(n) == [expected |-> n, completed |-> 0, failed |-> 0,
                cancelled |-> 0, override |-> "none"]

MaxOf(a, b) == IF a >= b THEN a ELSE b
MinOf(a, b) == IF a <= b THEN a ELSE b

-----------------------------------------------------------------------------
(* What the handlers read.                                                 *)

Pending == Elems(queue)
Active == {t \in Tasks : phase[t] # "none"}
Live == Pending \cup Active
FilesOf(g) == {t \in Tasks : GroupOf[t] = g}

Settled(r) == r.completed + r.failed + r.cancelled

(* Mutant of Terminal: a group counts as cancelled while files still stop. *)
TerminalWhileCancelling(r, live) ==
    \/ r.override \in {"cancelling", "cancelled"}
    \/ /\ live = {}
       /\ Settled(r) > 0
       /\ Settled(r) >= r.expected

(* A record is terminal, in snapshotGroup's terms completed or cancelled,  *)
(* given the live tasks of its group.                                      *)
Terminal(r, live) ==
    \/ r.override = "cancelled"
    \/ /\ r.override # "cancelling"
       /\ live = {}
       /\ Settled(r) > 0
       /\ Settled(r) >= r.expected

TerminalGroup(g) == Terminal(group[g], Live \cap FilesOf(g))

ScopePaused(g) ==
    /\ g \notin overrides
    /\ \E s \in scopePauses : g \in ScopeGroups[s]

GloballyPaused == userPaused \/ blockers # {}

Runnable(t) ==
    /\ group[GroupOf[t]].override = "none"
    /\ ~ScopePaused(GroupOf[t])

(* The answer of a control call addressed to one group.                    *)
ControlReply(g, includeHidden) ==
    CASE g \notin known -> "not_found"
      [] g \in known /\ g \in Hidden /\ ~includeHidden -> "not_found"
      [] g \in known /\ (g \notin Hidden \/ includeHidden) ->
            IF TerminalGroup(g) THEN "terminal" ELSE "ok"

-----------------------------------------------------------------------------
(* The two schedulers, and the bookkeeping of settled tasks.               *)

DownloadCount(ph) == Cardinality({t \in Tasks : ph[t] \in Downloads})
UploadCount(ph) == Cardinality({t \in Tasks : ph[t] = "uploading"})

(* Mutants of ToStart: one starts files under a pause, one the last added. *)
ToStartPaused(q, ph) ==
    FirstOf(q, {t \in Elems(q) : Runnable(t)'}, maxConcurrent' - DownloadCount(ph))
ToStartLast(q, ph) ==
    IF GloballyPaused' THEN {}
    ELSE FirstOf(Reversed(q), {t \in Elems(q) : Runnable(t)'},
                 maxConcurrent' - DownloadCount(ph))

(* processNext: start the first runnable tasks of q while slots are free.  *)
(* It reads the controls as the handler has just left them.                *)
ToStart(q, ph) ==
    IF GloballyPaused' THEN {}
    ELSE FirstOf(q, {t \in Elems(q) : Runnable(t)'},
                 maxConcurrent' - DownloadCount(ph))

ProcessNext(q, ph) ==
    LET started == ToStart(q, ph)
    IN /\ queue' = Without(q, started)
       /\ phase' = [t \in Tasks |-> IF t \in started THEN "downloading" ELSE ph[t]]

(* processUploads: the first waiters that find an upload slot free.        *)
ToUpload(w, ph) == FirstOf(w, Elems(w), MaxUploads - UploadCount(ph))

Promoted(w, ph) ==
    [t \in Tasks |-> IF t \in ToUpload(w, ph) THEN "uploading" ELSE ph[t]]

ProcessUploads(w, ph) == waiters' = Without(w, ToUpload(w, ph))

(* pushHistory keeps the newest MaxHistory settled tasks ...               *)
PushHistory(new) ==
    LET all == Concat(new, Without(history, Elems(new)))
    IN history' = Keep(all, FirstOf(all, Elems(all), MaxHistory))

(* ... and drops terminal groups beyond MaxGroups, the least recently      *)
(* changed first: which ones those are is left open.                       *)
Pruned(terminal) ==
    {S \in SUBSET terminal :
        Cardinality(S) = MinOf(Cardinality(terminal),
                               MaxOf(0, Cardinality(known) - MaxGroups))}

Forget(gr, S) == [g \in Groups |-> IF g \in S THEN NewGroup(0) ELSE gr[g]]

-----------------------------------------------------------------------------
(* Groups and files come in.                                               *)

(* ensureGroup: a terminal group of that id starts over.                   *)
EnsureGroup(g, n) ==
    LET renew == g \notin known \/ TerminalGroup(g)
    IN /\ known' = known \cup {g}
       /\ group' = [group EXCEPT ![g] =
                        IF renew THEN NewGroup(n)
                        ELSE [group[g] EXCEPT !.expected = MaxOf(@, n)]]
       /\ overrides' = IF renew THEN overrides \ {g} ELSE overrides
       /\ UNCHANGED <<executorVars, maxConcurrent, userPaused, scopePauses, blockers>>

(* restoreGroup, after a restart: the files that settled before it keep    *)
(* their outcome; the others are added again.                              *)
RestoreGroup(g, ended, paused) ==
    LET with(o) == Cardinality({t \in FilesOf(g) : ended[t] = o})
    IN /\ g \notin known
       /\ \A t \in FilesOf(g) : outcome[t] = "none"
       /\ known' = known \cup {g}
       /\ group' = [group EXCEPT ![g] =
                        [expected |-> Cardinality(FilesOf(g)),
                         completed |-> with("success"),
                         failed |-> with("failed"),
                         cancelled |-> with("cancelled"),
                         override |-> IF paused THEN "paused" ELSE "none"]]
       /\ outcome' = [t \in Tasks |-> IF GroupOf[t] = g THEN ended[t] ELSE outcome[t]]
       /\ UNCHANGED <<queue, phase, aborted, waiters, history, retries, controlVars>>

(* Mutant of Extended: the new files are not added to expectedTotal.       *)
ExtendedShort(r, g, n) ==
    [r EXCEPT !.expected = MaxOf(@, Cardinality(Live \cap FilesOf(g)) + Settled(r))]

(* The record of g after n more of its files are appended to the queue.    *)
Extended(r, g, n) ==
    [r EXCEPT
        !.expected = MaxOf(@, Cardinality(Live \cap FilesOf(g)) + Settled(r) + n),
        !.override = IF @ = "pausing" /\ Active \cap FilesOf(g) = {}
                     THEN "paused" ELSE @]

Refusing(g) == group[g].override \in {"cancelling", "cancelled"}

Fresh(t) == outcome[t] = "none" /\ t \notin Live

(* add *)
Add(t) ==
    LET g == GroupOf[t]
    IN /\ Fresh(t)
       /\ g \in known
       /\ ~Refusing(g)
       /\ group' = [group EXCEPT ![g] = Extended(@, g, 1)]
       /\ UNCHANGED <<controlVars, known>>
       /\ ProcessNext(AddLast(queue, t), phase)
       /\ UNCHANGED <<outcome, aborted, waiters, history, retries>>

(* add to a group that is being cancelled: only its callback runs.         *)
AddRefused(t) ==
    /\ Fresh(t)
    /\ GroupOf[t] \in known
    /\ Refusing(GroupOf[t])
    /\ outcome' = [outcome EXCEPT ![t] = "cancelled"]
    /\ UNCHANGED <<queue, phase, aborted, waiters, history, retries, groupVars, controlVars>>

(* Mutants of Recount: a decrement without the floor, none at all.         *)
RecountUnbounded(r, k) == [r EXCEPT !.failed = @ - k]
RecountForgotten(r, k) == r

(* k failed files of the group are to be tried again.                      *)
Recount(r, k) == [r EXCEPT !.failed = MaxOf(0, @ - k)]

(* retryFailed: the newest failed files of a group go back to the queue.   *)
RetryFailed(g) ==
    LET failed == {t \in Elems(history) : GroupOf[t] = g /\ outcome[t] = "failed"}
        chosen == FirstOf(history, failed, RetryLimit)
        k == Cardinality(chosen)
    IN /\ g \in known
       /\ ~Refusing(g)
       /\ chosen # {}
       /\ \A t \in chosen : retries[t] < MaxRetries
       /\ retries' = [t \in Tasks |-> IF t \in chosen THEN retries[t] + 1 ELSE retries[t]]
       /\ outcome' = [t \in Tasks |-> IF t \in chosen THEN "none" ELSE outcome[t]]
       /\ history' = Without(history, chosen)
       /\ group' = [group EXCEPT ![g] = Extended(Recount(@, k), g, k)]
       /\ UNCHANGED <<controlVars, known>>
       /\ ProcessNext(Concat(queue, Keep(history, chosen)), phase)
       /\ UNCHANGED <<aborted, waiters>>

-----------------------------------------------------------------------------
(* The executor of an active task.                                         *)

(* setRetrying *)
SetRetrying(t) ==
    /\ phase[t] = "downloading"
    /\ t \notin blockers
    /\ phase' = [phase EXCEPT ![t] = "retrying"]
    /\ UNCHANGED <<queue, outcome, aborted, waiters, history, retries, groupVars, controlVars>>

(* resetProgress and updateProgress: the next attempt receives bytes.      *)
Progress(t) ==
    /\ phase[t] = "retrying"
    /\ phase' = [phase EXCEPT ![t] = "downloading"]
    /\ UNCHANGED <<queue, outcome, aborted, waiters, history, retries, groupVars, controlVars>>

(* waitForDiskWatermark, while a download lacks disk space ...             *)
DiskWait(t) ==
    /\ phase[t] = "downloading"
    /\ t \notin aborted
    /\ t \notin blockers
    /\ blockers' = blockers \cup {t}
    /\ UNCHANGED <<executorVars, groupVars, maxConcurrent, userPaused, scopePauses, overrides>>

(* ... until it has some, gives up or is aborted.                          *)
DiskRelease(t) ==
    /\ t \in blockers
    /\ blockers' = blockers \ {t}
    /\ UNCHANGED <<groupVars, maxConcurrent, userPaused, scopePauses, overrides>>
    /\ ProcessNext(queue, phase)
    /\ UNCHANGED <<outcome, aborted, waiters, history, retries>>

(* beginUpload: the download slot is free again at once.                   *)
BeginUpload(t) ==
    LET asked == [phase EXCEPT ![t] = "waiting_upload"]
        line == AddLast(Without(waiters, {t}), t)
    IN /\ phase[t] \in {"downloading", "waiting_storage"}
       /\ t \notin aborted
       /\ t \notin blockers
       /\ UNCHANGED <<groupVars, controlVars>>
       /\ ProcessUploads(line, asked)
       /\ ProcessNext(queue, Promoted(line, asked))
       /\ UNCHANGED <<outcome, aborted, history, retries>>

(* Mutant of WaitForStorage: the upload slot is given to nobody.           *)
WaitForStorageHoldsSlot(t) ==
    /\ phase[t] = "uploading"
    /\ phase' = [phase EXCEPT ![t] = "waiting_storage"]
    /\ UNCHANGED <<queue, outcome, aborted, waiters, history, retries, groupVars, controlVars>>

(* waitForStorage: the target refuses writes for a while, the upload slot  *)
(* goes to the next waiter.                                                *)
WaitForStorage(t) ==
    LET stopped == [phase EXCEPT ![t] = "waiting_storage"]
    IN /\ phase[t] = "uploading"
       /\ ProcessUploads(waiters, stopped)
       /\ phase' = Promoted(waiters, stopped)
       /\ UNCHANGED <<queue, outcome, aborted, history, retries, groupVars, controlVars>>

(* Mutant of EndOf: what the executor returned decides.                    *)
EndAsReturned(t, result) == result

(* An abort decides over what the executor returned.                       *)
EndOf(t, result) == IF t \in aborted THEN "cancelled" ELSE result

Counted(r, end) ==
    CASE end = "success" -> [r EXCEPT !.completed = @ + 1]
      [] end = "failed" -> [r EXCEPT !.failed = @ + 1]
      [] end = "cancelled" -> [r EXCEPT !.cancelled = @ + 1]

(* Mutant of AfterLast: the group stays in cancelling.                     *)
AfterLastOnlyPause(r, pending) ==
    IF r.override # "pausing" THEN r.override
    ELSE IF pending \/ Settled(r) < r.expected THEN "paused" ELSE "none"

(* The override of a group whose last active file has ended.               *)
AfterLast(r, pending) ==
    CASE r.override = "pausing" ->
            IF pending \/ Settled(r) < r.expected THEN "paused" ELSE "none"
      [] r.override = "cancelling" -> "cancelled"
      [] OTHER -> r.override

(* Mutant of Reschedule: the upload slot that became free is forgotten.    *)
RescheduleDownloads(line, left) ==
    /\ waiters' = line
    /\ ProcessNext(queue, left)

Reschedule(line, left) ==
    /\ ProcessUploads(line, left)
    /\ ProcessNext(queue, Promoted(line, left))

(* The executor returns or throws, and the finally block of execute runs.  *)
Settle(t, result) ==
    LET g == GroupOf[t]
        counted == Counted(group[g], EndOf(t, result))
        last == (Active \ {t}) \cap FilesOf(g) = {}
        record == IF last
                  THEN [counted EXCEPT !.override =
                            AfterLast(counted, Pending \cap FilesOf(g) # {})]
                  ELSE counted
        records == [group EXCEPT ![g] = record]
        rest(h) == (Live \ {t}) \cap FilesOf(h)
    IN /\ phase[t] # "none"
       /\ t \notin blockers
       /\ t \notin Elems(waiters)
       /\ phase[t] = "waiting_storage" => t \in aborted
       /\ outcome' = [outcome EXCEPT ![t] = EndOf(t, result)]
       /\ aborted' = aborted \ {t}
       /\ PushHistory({<<t, t>>})
       /\ \E S \in Pruned({h \in known : Terminal(records[h], rest(h))}) :
             /\ known' = known \ S
             /\ group' = Forget(records, S)
             /\ overrides' = (overrides \ S) \ (IF Terminal(record, rest(g)) THEN {g} ELSE {})
       /\ UNCHANGED <<maxConcurrent, userPaused, scopePauses, blockers, retries>>
       /\ Reschedule(Without(waiters, {t}), [phase EXCEPT ![t] = "none"])

-----------------------------------------------------------------------------
(* Controls.                                                               *)

SetMaxConcurrent(n) ==
    /\ maxConcurrent' = n
    /\ UNCHANGED <<groupVars, userPaused, scopePauses, overrides, blockers>>
    /\ ProcessNext(queue, phase)
    /\ UNCHANGED <<outcome, aborted, waiters, history, retries>>

(* prioritizeGroup takes no includeHidden argument.                        *)
PrioritizeReply(g) ==
    LET reply == ControlReply(g, FALSE)
    IN IF reply # "ok" THEN reply
       ELSE IF group[g].override \in {"paused", "pausing", "cancelling"} THEN "blocked"
       ELSE IF Pending \cap FilesOf(g) = {} THEN "terminal"
       ELSE "ok"

PrioritizeGroup(g) ==
    /\ PrioritizeReply(g) = "ok"
    /\ UNCHANGED <<groupVars, controlVars>>
    /\ ProcessNext(ToFront(queue, Pending \cap FilesOf(g)), phase)
    /\ UNCHANGED <<outcome, aborted, waiters, history, retries>>

(* pauseGroup: files already being transferred are finished first.         *)
PauseGroup(g) ==
    /\ ControlReply(g, TRUE) = "ok"
    /\ group[g].override = "none"
    /\ group' = [group EXCEPT ![g].override =
                    IF Active \cap FilesOf(g) # {} THEN "pausing" ELSE "paused"]
    /\ UNCHANGED <<known, controlVars>>
    /\ ProcessNext(queue, phase)
    /\ UNCHANGED <<outcome, aborted, waiters, history, retries>>

ResumeGroup(g) ==
    /\ ControlReply(g, TRUE) = "ok"
    /\ blockers = {}
    /\ group[g].override # "cancelling"
    /\ ~userPaused
    /\ overrides' = IF ScopePaused(g) THEN overrides \cup {g} ELSE overrides
    /\ group' = [group EXCEPT ![g].override = "none"]
    /\ UNCHANGED <<known, maxConcurrent, userPaused, scopePauses, blockers>>
    /\ ProcessNext(queue, phase)
    /\ UNCHANGED <<outcome, aborted, waiters, history, retries>>

(* cancelGroupTasks, for every group of gs: pending files settle at once,  *)
(* active ones are told to stop and settle when their executor has.  Which *)
(* other terminal groups are pruned meanwhile depends on the order of gs.  *)
CancelGroupTasks(gs) ==
    LET removed == {t \in Pending : GroupOf[t] \in gs}
        hit == {t \in Active : GroupOf[t] \in gs}
        idle == {g \in gs : Active \cap FilesOf(g) = {}}
        records == [g \in Groups |->
                        IF g \notin gs THEN group[g]
                        ELSE [group[g] EXCEPT
                                !.cancelled = @ + Cardinality(removed \cap FilesOf(g)),
                                !.override = IF g \in idle THEN "cancelled" ELSE "cancelling"]]
        old == {g \in known \ gs : TerminalGroup(g)}
        early == {N \in SUBSET idle : \E t \in removed : GroupOf[t] \notin N}
    IN /\ outcome' = [t \in Tasks |-> IF t \in removed THEN "cancelled" ELSE outcome[t]]
       /\ aborted' = aborted \cup hit
       /\ waiters' = Without(waiters, hit)
       /\ PushHistory(Reversed(Keep(queue, removed)))
       /\ \E S \in IF removed = {} THEN {{}} ELSE UNION {Pruned(old \cup N) : N \in early} :
             /\ known' = known \ S
             /\ group' = Forget(records, S)
             /\ overrides' = overrides \ (gs \cup S)
       /\ UNCHANGED <<maxConcurrent, userPaused, blockers, retries>>

Cancellable(g) == g \in known /\ ~TerminalGroup(g) /\ group[g].override # "cancelling"

CancelGroup(g) ==
    /\ Cancellable(g)
    /\ CancelGroupTasks({g})
    /\ UNCHANGED scopePauses
    /\ ProcessNext(Without(queue, FilesOf(g)), phase)

(* cancelScope also lifts the pause of the scope.                          *)
CancelScope(s) ==
    LET gs == {g \in ScopeGroups[s] : Cancellable(g)}
    IN /\ CancelGroupTasks(gs)
       /\ scopePauses' = scopePauses \ {s}
       /\ ProcessNext(Without(queue, UNION {FilesOf(g) : g \in gs}), phase)

(* forceStopAll starts nothing.                                            *)
ForceStopAll ==
    LET gs == {g \in Groups : Cancellable(g)}
    IN /\ CancelGroupTasks(gs)
       /\ queue' = Without(queue, UNION {FilesOf(g) : g \in gs})
       /\ UNCHANGED <<phase, scopePauses>>

(* cancel, with a selector that names one file.                            *)
CancelPending(t) ==
    LET g == GroupOf[t]
        records == [group EXCEPT ![g].cancelled = @ + 1]
    IN /\ t \in Pending
       /\ outcome' = [outcome EXCEPT ![t] = "cancelled"]
       /\ PushHistory({<<t, t>>})
       /\ \E S \in Pruned({h \in known : Terminal(records[h], (Live \ {t}) \cap FilesOf(h))}) :
             /\ known' = known \ S
             /\ group' = Forget(records, S)
             /\ overrides' = overrides \ S
       /\ UNCHANGED <<maxConcurrent, userPaused, scopePauses, blockers>>
       /\ ProcessNext(Without(queue, {t}), phase)
       /\ UNCHANGED <<aborted, waiters, retries>>

CancelActive(t) ==
    /\ t \in Active
    /\ aborted' = aborted \cup {t}
    /\ waiters' = Without(waiters, {t})
    /\ UNCHANGED <<groupVars, controlVars>>
    /\ ProcessNext(queue, phase)
    /\ UNCHANGED <<outcome, history, retries>>

PauseAll ==
    /\ userPaused' = TRUE
    /\ UNCHANGED <<executorVars, groupVars, maxConcurrent, scopePauses, overrides, blockers>>

(* Mutant of ResumeAll: the queue is not looked at.                        *)
ResumeAllAlone ==
    /\ userPaused' = FALSE
    /\ UNCHANGED <<executorVars, groupVars, maxConcurrent, scopePauses, overrides, blockers>>

ResumeAll ==
    /\ userPaused' = FALSE
    /\ UNCHANGED <<groupVars, maxConcurrent, scopePauses, overrides, blockers>>
    /\ ProcessNext(queue, phase)
    /\ UNCHANGED <<outcome, aborted, waiters, history, retries>>

(* Mutant of PauseScope: groups resumed during an earlier pause stay so.   *)
PauseScopeAlone(s) ==
    /\ scopePauses' = scopePauses \cup {s}
    /\ UNCHANGED <<executorVars, groupVars, maxConcurrent, userPaused, overrides, blockers>>

PauseScope(s) ==
    /\ scopePauses' = scopePauses \cup {s}
    /\ overrides' = overrides \ (ScopeGroups[s] \cap known)
    /\ UNCHANGED <<executorVars, groupVars, maxConcurrent, userPaused, blockers>>

ResumeScope(s) ==
    /\ scopePauses' = scopePauses \ {s}
    /\ UNCHANGED <<groupVars, maxConcurrent, userPaused, overrides, blockers>>
    /\ ProcessNext(queue, phase)
    /\ UNCHANGED <<outcome, aborted, waiters, history, retries>>

-----------------------------------------------------------------------------
Init ==
    /\ queue = EmptyOrder
    /\ phase = [t \in Tasks |-> "none"]
    /\ outcome = [t \in Tasks |-> "none"]
    /\ aborted = {}
    /\ waiters = EmptyOrder
    /\ history = EmptyOrder
    /\ known = {}
    /\ group = [g \in Groups |-> NewGroup(0)]
    /\ maxConcurrent = InitialLimit
    /\ userPaused = FALSE
    /\ scopePauses = {}
    /\ overrides = {}
    /\ blockers = {}
    /\ retries = [t \in Tasks |-> 0]

Ends(t) == \E result \in {"success", "failed"} : Settle(t, result)

Execution ==
    \E t \in Tasks :
        \/ SetRetrying(t)
        \/ Progress(t)
        \/ DiskWait(t)
        \/ DiskRelease(t)
        \/ BeginUpload(t)
        \/ WaitForStorage(t)
        \/ Ends(t)

Arrival ==
    \/ \E g \in Groups, n \in Expected : EnsureGroup(g, n)
    \/ \E g \in Groups, ended \in [Tasks -> Outcomes \cup {"none"}], paused \in BOOLEAN :
          RestoreGroup(g, ended, paused)
    \/ \E t \in Tasks : Add(t) \/ AddRefused(t)
    \/ \E g \in Groups : RetryFailed(g)

Control ==
    \/ \E n \in Limits : SetMaxConcurrent(n)
    \/ \E g \in Groups : \/ PrioritizeGroup(g)
                         \/ PauseGroup(g)
                         \/ ResumeGroup(g)
                         \/ CancelGroup(g)
    \/ \E s \in Scopes : \/ PauseScope(s)
                         \/ ResumeScope(s)
                         \/ CancelScope(s)
    \/ \E t \in Tasks : CancelPending(t) \/ CancelActive(t)
    \/ PauseAll
    \/ ResumeAll
    \/ ForceStopAll

Next == Execution \/ Arrival \/ Control

Spec == Init /\ [][Next]_vars

-----------------------------------------------------------------------------
(* Properties.                                                             *)

(* The variables hold what their comments say.                             *)
TypeOK ==
    /\ IsOrder(queue, Tasks)
    /\ phase \in [Tasks -> Phases \cup {"none"}]
    /\ outcome \in [Tasks -> Outcomes \cup {"none"}]
    /\ aborted \subseteq Tasks
    /\ IsOrder(waiters, Tasks)
    /\ IsOrder(history, Tasks)
    /\ known \subseteq Groups
    /\ group \in [Groups -> GroupRecord]
    /\ maxConcurrent \in Limits
    /\ userPaused \in BOOLEAN
    /\ scopePauses \subseteq Scopes
    /\ overrides \subseteq Groups
    /\ blockers \subseteq Tasks
    /\ retries \in [Tasks -> Nat]

(* A group says pausing or cancelling exactly as long as some file of it   *)
(* still runs, and a cancelled or paused group runs nothing; a group being *)
(* cancelled has nothing left to start, so no file outlives its            *)
(* cancellation whatever was added, retried or resumed meanwhile.          *)
OverridesMatchFiles ==
    \A g \in Groups :
        /\ group[g].override \in {"pausing", "cancelling"} => Active \cap FilesOf(g) # {}
        /\ group[g].override \in {"paused", "cancelled"} => Active \cap FilesOf(g) = {}
        /\ group[g].override \in {"cancelling", "cancelled"} => Pending \cap FilesOf(g) = {}

(* Every active file of a group being cancelled has received the abort, so *)
(* none of them can end as a success.                                      *)
CancellingIsAborted ==
    \A t \in Active : group[GroupOf[t]].override = "cancelling" => t \in aborted

(* A file that waits or runs belongs to a group that has a record: neither *)
(* starting a terminal group over nor pruning drops the group of a file    *)
(* that can still change its counters.                                     *)
LiveFilesHaveGroup == \A t \in Live : GroupOf[t] \in known

(* A file is in one place: pending, active, or ended; only an active file  *)
(* has an abort to notice or waits for an upload slot, and what the history *)
(* lists has ended.                                                        *)
OnePlace ==
    /\ Pending \cap Active = {}
    /\ \A t \in Live : outcome[t] = "none"
    /\ aborted \subseteq Active
    /\ Elems(waiters) \subseteq Active
    /\ \A t \in Elems(history) : outcome[t] # "none"

(* The counters of a group never count a file twice nor one that has not   *)
(* ended, through retries, restarts of the group and pruning.              *)
CountedOnce ==
    \A g \in known :
        LET ended(o) == Cardinality({t \in FilesOf(g) : outcome[t] = o})
        IN /\ group[g].completed <= ended("success")
           /\ group[g].failed <= ended("failed")
           /\ group[g].cancelled <= ended("cancelled")

(* expectedTotal covers every file of the group, so the group is not shown *)
(* complete while one of its files is still to come.                       *)
ExpectedCoversFiles ==
    \A g \in known :
        Settled(group[g]) + Cardinality(Live \cap FilesOf(g)) <= group[g].expected

(* No free slot is wasted: whatever handler ran last, a file that may run  *)
(* waits only while every download slot is taken.  Each handler that frees *)
(* a slot or lifts a pause has to call processNext.                        *)
NoRunnableFileWaits ==
    GloballyPaused \/ DownloadCount(phase) >= maxConcurrent
                   \/ \A t \in Pending : ~Runnable(t)

(* Uploads: never more than the limit, every file that asked for a slot is *)
(* in line, and the line is empty unless all upload slots are taken.       *)
UploadSlots ==
    /\ UploadCount(phase) <= MaxUploads
    /\ Elems(waiters) = {t \in Active : phase[t] = "waiting_upload" /\ t \notin aborted}
    /\ Elems(waiters) # {} => UploadCount(phase) = MaxUploads

(* The system pause is held only by a file that is downloading: no cancel, *)
(* retry or settlement leaves the queue stopped for nobody.                *)
DiskPauseHasHolder == \A t \in blockers : phase[t] = "downloading"

(* A step starts files only within the download limit and only files no    *)
(* pause or cancellation holds back once the step is done: "only the set   *)
(* number of simultaneous downloads limits the download slots; uploads do  *)
(* not take one" (CHANGELOG 2.5.0).                                        *)
StartsRespectControls ==
    [][LET started == {t \in Pending : phase'[t] # "none"}
       IN started # {} =>
            /\ DownloadCount(phase') <= maxConcurrent'
            /\ ~GloballyPaused'
            /\ \A t \in started : Runnable(t)']_vars

(* Files are served in order: a step that starts a file leaves no runnable *)
(* file that was ahead of it in the queue, unless it put a group in front. *)
ServedInOrder ==
    [][\A t, u \in Pending :
          <<u, t>> \in queue /\ phase'[t] # "none" /\ u \in Pending'
             => ~Runnable(u)' \/ PrioritizeGroup(GroupOf[t])]_vars

(* An ended file stays as it ended, except that a failed one can be        *)
(* retried; an aborted file never ends as success or failure.              *)
EndsForGood ==
    [][\A t \in Tasks :
          /\ outcome[t] # "none" /\ outcome'[t] # outcome[t]
                => outcome[t] = "failed" /\ t \in Live'
          /\ t \in aborted /\ t \notin Active' => outcome'[t] = "cancelled"]_vars

(* A pause of a scope holds back every group it matches, also those that   *)
(* were resumed one by one during an earlier pause.                        *)
ScopePauseIsComplete ==
    [][\A s \in Scopes : s \in scopePauses' \ scopePauses =>
          \A t \in Live : GroupOf[t] \in ScopeGroups[s] => ScopePaused(GroupOf[t])']_vars

-----------------------------------------------------------------------------
(* Liveness.  An executor returns once the file was downloaded and saved,  *)
(* failed or noticed its abort; the disk has space again some day (the     *)
(* wait has no limit by default); a storage target refuses writes only so  *)
(* often.                                                                  *)
Fairness ==
    \A t \in Tasks :
        /\ SF_vars(Ends(t))
        /\ SF_vars(BeginUpload(t))
        /\ WF_vars(DiskRelease(t))

LiveSpec == Spec /\ Fairness

(* A pause or a cancellation that waits for running files takes effect.    *)
DrainingEnds ==
    \A g \in Groups, o \in {"pausing", "cancelling"} : []<>(group[g].override # o)

HeldBack(t) == userPaused \/ ~Runnable(t)

(* A file that was added ends, unless users hold it back in the queue: no  *)
(* slot, line or pause of another file keeps it for ever.                  *)
FilesEnd ==
    \A t \in Tasks : []<>(t \notin Live \/ (t \in Pending /\ HeldBack(t)))
=============================================================================

----------------------------- MODULE TaskCentre -----------------------------
(* What administrators do to tasks from the web page (routes/tasks.ts) and *)
(* from the cards and commands of the bot (telegramCommands.ts), while the *)
(* tasks go on: prompts, one-time confirmations, and records that are      *)
(* dismissed from the lists (taskCenterDismissals.ts).                     *)
EXTENDS Naturals, Sequences, FiniteSets

CONSTANTS
    Jobs,           \* channel jobs, known by their row
    Groups,         \* ordinary downloads, known by their group and its row
    Cards,          \* messages of the bot with a task on them
    MaxEvents,      \* bound: what happens to the tasks without the task centre
    MaxPrompts,     \* bound: prompts on cards, and for a whole chat
    MaxTokens       \* bound: confirmations that the web page asks for

VARIABLES
    jobs,       \* status and updated_at of rows of telegram_background_jobs
    groups,     \* state and version of groups of the queue
    rows,       \* status and updated_at of the groups' rows
    told,       \* snapshots of a group on their way to its row
    dismissed,  \* the version of a task that is hidden; <<>>: none
    prompts,    \* prompts shown, and what became of them
    pending,    \* pendingTaskCenterCancels: the prompt of a card, or 0
    tokens,     \* webDestructiveConfirmationStore
    handlers,   \* handlers that wait for the database
    stopped,    \* tasks whose cancellation was answered with success
    events,
    issued

tasks == <<jobs, groups, rows, told>>
vars == <<tasks, dismissed, prompts, pending, tokens, handlers, stopped, events, issued>>

Tasks == Jobs \cup Groups
Unfinished == {"running", "paused"}
Final == {"completed", "failed", "cancelled"}
Happens == events < MaxEvents /\ events' = events + 1

(* isTaskDismissible.                                                      *)
Dismissible(status) == status \in Final

-----------------------------------------------------------------------------
(* What a list shows of a task: its row, or the group while it is kept.    *)

InMemory(g) == groups[g].status # "gone"
Seen(t) ==
    IF t \in Jobs THEN [status |-> jobs[t].status, version |-> <<"row", jobs[t].version>>]
    ELSE IF InMemory(t) THEN [status |-> groups[t].status, version |-> <<"live", groups[t].version>>]
    ELSE [status |-> rows[t].status, version |-> <<"row", rows[t].version>>]

(* filterDismissedTasks.                                                   *)
Hidden(t) == dismissed[t] = Seen(t).version

(* findTaskCenterItem: nothing that is over but failed jobs and groups.    *)
Findable(t) ==
    IF t \in Jobs THEN jobs[t].status \in Unfinished \cup {"failed"} /\ ~Hidden(t)
    ELSE groups[t].status \in Unfinished

-----------------------------------------------------------------------------
(* The tasks go on.                                                        *)

Turn(entry, status) == [status |-> status, version |-> entry.version + 1]
SetJob(j, status) == jobs' = [jobs EXCEPT ![j] = Turn(@, status)]

(* A change of a group, and its snapshot in the chain of the group.        *)
SetGroups(gs, status) ==
    /\ groups' = [g \in Groups |-> IF g \in gs THEN Turn(groups[g], status) ELSE groups[g]]
    /\ told' = [g \in Groups |-> IF g \in gs THEN Append(told[g], status) ELSE told[g]]

JobEnds ==
    \E j \in Jobs, s \in {"completed", "failed"} :
        /\ jobs[j].status = "running" /\ Happens
        /\ SetJob(j, s)
        /\ UNCHANGED <<groups, rows, told, dismissed, prompts, pending, tokens, handlers, stopped, issued>>

(* An item of a failed job is settled after all: the list shows its time.  *)
JobTouched ==
    \E j \in Jobs :
        /\ jobs[j].status = "failed" /\ Happens
        /\ SetJob(j, "failed")
        /\ UNCHANGED <<groups, rows, told, dismissed, prompts, pending, tokens, handlers, stopped, issued>>

GroupEnds ==
    \E g \in Groups, s \in {"completed", "failed"} :
        /\ groups[g].status = "running" /\ Happens
        /\ SetGroups({g}, s)
        /\ UNCHANGED <<jobs, rows, dismissed, prompts, pending, tokens, handlers, stopped, issued>>

(* A snapshot reaches the row, which does not leave a final state.         *)
Snapshot ==
    \E g \in Groups :
        /\ told[g] # <<>> /\ told' = [told EXCEPT ![g] = Tail(@)]
        /\ LET s == Head(told[g])
           IN  rows' = IF rows[g].status \notin Final \/ <<rows[g].status, s>> = <<"cancelled", "cancelled">>
                       THEN [rows EXCEPT ![g] = Turn(@, s)] ELSE rows
        /\ UNCHANGED <<jobs, groups, dismissed, prompts, pending, tokens, handlers, stopped, events, issued>>

(* A group that is over leaves memory.                                     *)
Forget ==
    \E g \in Groups :
        /\ groups[g].status \in Final /\ told[g] = <<>>
        /\ groups' = [groups EXCEPT ![g].status = "gone"]
        /\ UNCHANGED <<jobs, rows, told, dismissed, prompts, pending, tokens, handlers, stopped, events, issued>>

-----------------------------------------------------------------------------
(* Controls without a confirmation.  Each is one statement, or one call of *)
(* the queue, whose condition decides.                                     *)

Control(from, to) ==
    \/ \E j \in Jobs :
          /\ jobs[j].status \in from /\ SetJob(j, to)
          /\ UNCHANGED <<groups, rows, told>>
    \/ \E g \in Groups :
          /\ groups[g].status \in from /\ SetGroups({g}, to)
          /\ UNCHANGED <<jobs, rows>>

Controlled == Happens /\ UNCHANGED <<dismissed, prompts, pending, tokens, handlers, stopped, issued>>

Pause == Control({"running"}, "paused") /\ Controlled
Resume == Control({"paused"}, "running") /\ Controlled
Retry == Control({"failed"}, "running") /\ Controlled

(* cancelTelegramBackgroundJob.                                            *)
CancelJob(j) ==
    /\ jobs' = IF jobs[j].status \in Unfinished THEN [jobs EXCEPT ![j] = Turn(@, "cancelled")] ELSE jobs
    /\ UNCHANGED <<groups, rows, told>>

(* cancelDownloadTaskGroup.                                                *)
CancelGroups(gs) ==
    /\ SetGroups({g \in gs : groups[g].status \in Unfinished}, "cancelled")
    /\ UNCHANGED <<jobs, rows>>

(* The answer is success when there was something to cancel.               *)
StoppedBy(ts) ==
    stopped \cup {t \in ts : IF t \in Jobs THEN jobs[t].status \in Unfinished
                             ELSE groups[t].status \in Unfinished}

(* The command that names a task asks for no confirmation.                 *)
CancelTask ==
    \E t \in Tasks :
        /\ Happens
        /\ IF t \in Jobs THEN CancelJob(t) ELSE CancelGroups({t})
        /\ stopped' = StoppedBy({t})
        /\ UNCHANGED <<dismissed, prompts, pending, tokens, handlers, issued>>

-----------------------------------------------------------------------------
(* A card of the bot.  A press looks the task up first, and the prompt is  *)
(* kept, or taken, when it has been found.                                 *)

Waiting(at) == {h \in handlers : h.at = at}
Prompt(t, c) == [task |-> t, card |-> c, expired |-> FALSE, taken |-> FALSE, uses |-> 0]
Handler(at, t, c, n) == [at |-> at, task |-> t, card |-> c, prompt |-> n]

Press(at) ==
    \E c \in Cards, t \in Tasks :
        /\ Findable(t)
        /\ Handler(at, t, c, 0) \notin handlers
        /\ handlers' = handlers \cup {Handler(at, t, c, 0)}
        /\ UNCHANGED <<tasks, dismissed, prompts, pending, tokens, stopped, events, issued>>

PressCancel == Len(prompts) < MaxPrompts /\ Press("ask")

(* The button of a prompt outlives it: another prompt takes its card.      *)
PressConfirm ==
    /\ \E n \in 1..Len(prompts) : prompts[n].card \in Cards
    /\ Press("find")

(* The task is not listed any more: the card shows the list instead.       *)
NotFound ==
    \E h \in Waiting("ask") \cup Waiting("find") :
        /\ ~Findable(h.task)
        /\ handlers' = handlers \ {h}
        /\ UNCHANGED <<tasks, dismissed, prompts, pending, tokens, stopped, events, issued>>

(* handleTaskCenterCallback, cancel_prompt.                                *)
Ask ==
    \E h \in Waiting("ask") :
        /\ Findable(h.task)
        /\ handlers' = handlers \ {h}
        /\ IF Len(prompts) < MaxPrompts
           THEN /\ prompts' = Append(prompts, Prompt(h.task, h.card))
                /\ pending' = [pending EXCEPT ![h.card] = Len(prompts) + 1]
           ELSE UNCHANGED <<prompts, pending>>
        /\ UNCHANGED <<tasks, dismissed, tokens, stopped, events, issued>>

Expire ==
    \E n \in 1..Len(prompts) :
        /\ ~prompts[n].expired /\ ~prompts[n].taken
        /\ prompts' = [prompts EXCEPT ![n].expired = TRUE]
        /\ UNCHANGED <<tasks, dismissed, pending, tokens, handlers, stopped, events, issued>>

(* The prompt that is kept for the card is the one that was confirmed.     *)
Good(h, n) == n # 0 /\ ~prompts[n].expired /\ prompts[n].task = h.task

(* cancel_confirm: what is kept for the card goes, whatever it is, before  *)
(* anything is awaited.                                                    *)
Confirm ==
    \E h \in Waiting("find") :
        LET n == pending[h.card]
            good == Good(h, n)
        IN  /\ Findable(h.task)
            /\ pending' = [pending EXCEPT ![h.card] = 0]
            /\ IF good /\ h.task \in Groups
               THEN /\ handlers' = handlers \ {h} /\ CancelGroups({h.task})
                    /\ prompts' = [prompts EXCEPT ![n].taken = TRUE, ![n].uses = @ + 1]
                    /\ stopped' = StoppedBy({h.task})
               ELSE /\ UNCHANGED stopped
                    /\ prompts' = IF n = 0 THEN prompts ELSE [prompts EXCEPT ![n].taken = TRUE]
                    /\ handlers' = (handlers \ {h}) \cup
                           (IF good THEN {Handler("job", h.task, h.card, n)} ELSE {})
                    /\ UNCHANGED tasks
            /\ UNCHANGED <<dismissed, tokens, events, issued>>

(* operateChannelTaskCenterItem: the job is listed again and cancelled.    *)
(* A card of progress then goes back to it, and forgets what it kept.      *)
CancelTheJob ==
    \E h \in Waiting("job") :
        /\ CancelJob(h.task)
        /\ prompts' = [prompts EXCEPT ![h.prompt].uses = @ + 1]
        /\ handlers' = handlers \ {h}
        /\ stopped' = StoppedBy({h.task})
        /\ pending' \in {pending, [pending EXCEPT ![h.card] = 0]}
        /\ UNCHANGED <<dismissed, tokens, events, issued>>

-----------------------------------------------------------------------------
(* All tasks of a chat, with a prompt of its own: requestBulkTaskCancel-   *)
(* lation, handleBulkTaskCancelCallback, cancelTasksForScope.              *)

AskAll ==
    /\ Len(prompts) < MaxPrompts
    /\ prompts' = Append(prompts, Prompt("all", "all"))
    /\ UNCHANGED <<tasks, dismissed, pending, tokens, handlers, stopped, events, issued>>

ConfirmAll ==
    \E n \in 1..Len(prompts) :
        /\ prompts[n].card = "all" /\ ~prompts[n].taken /\ ~prompts[n].expired
        /\ prompts' = [prompts EXCEPT ![n].taken = TRUE, ![n].uses = @ + 1]
        /\ handlers' = handlers \cup {[at |-> "list", prompt |-> n]}
        /\ UNCHANGED <<tasks, dismissed, pending, tokens, stopped, events, issued>>

(* listTelegramActiveTaskQueues, dismissed jobs included.                  *)
ListAll ==
    \E h \in Waiting("list") :
        /\ handlers' = (handlers \ {h}) \cup {[at |-> "all", prompt |-> h.prompt,
               left |-> {j \in Jobs : jobs[j].status \in Unfinished \cup {"failed"}}]}
        /\ UNCHANGED <<tasks, dismissed, prompts, pending, tokens, stopped, events, issued>>

CancelAll ==
    \E h \in Waiting("all") :
        /\ \/ \E j \in h.left :
                 /\ CancelJob(j) /\ stopped' = StoppedBy({j})
                 /\ handlers' = (handlers \ {h}) \cup {[h EXCEPT !.left = @ \ {j}]}
           \/ /\ h.left = {} /\ handlers' = handlers \ {h}
              /\ CancelGroups(Groups) /\ stopped' = StoppedBy(Groups)
        /\ UNCHANGED <<dismissed, prompts, pending, tokens, events, issued>>

-----------------------------------------------------------------------------
(* The web page cancels one task.                                          *)

Issue(token) ==
    /\ issued < MaxTokens /\ issued' = issued + 1
    /\ tokens' = tokens \cup {token}

PrepareCancel ==
    \E t \in Tasks :
        /\ Issue([use |-> "cancel", task |-> t, id |-> issued])
        /\ UNCHANGED <<tasks, dismissed, prompts, pending, handlers, stopped, events>>

(* The token is consumed at once, and the row read.                        *)
CancelByWeb ==
    \E k \in tokens :
        /\ k.use = "cancel" /\ tokens' = tokens \ {k}
        /\ handlers' = handlers \cup {[at |-> IF k.task \in Jobs THEN "webJob" ELSE "webRow", task |-> k.task]}
        /\ UNCHANGED <<tasks, dismissed, prompts, pending, stopped, events, issued>>

CancelJobByWeb ==
    \E h \in Waiting("webJob") :
        /\ CancelJob(h.task) /\ stopped' = StoppedBy({h.task})
        /\ handlers' = handlers \ {h}
        /\ UNCHANGED <<dismissed, prompts, pending, tokens, events, issued>>

(* By the row as it is read: a download that failed is given up in its row *)
(* only; any other one is cancelled in the queue first.                    *)
CancelGroupByWeb ==
    \E h \in Waiting("webRow") :
        LET g == h.task
        IN  /\ IF rows[g].status = "failed" THEN UNCHANGED <<tasks, stopped>>
               ELSE CancelGroups({g}) /\ stopped' = StoppedBy({g})
            /\ handlers' = (handlers \ {h}) \cup
                   IF rows[g].status = "failed" \/ groups[g].status \in Unfinished
                   THEN {[at |-> "webMark", task |-> g]} ELSE {}
            /\ UNCHANGED <<dismissed, prompts, pending, tokens, events, issued>>

MarkByWeb ==
    \E h \in Waiting("webMark") :
        /\ rows' = [rows EXCEPT ![h.task] = Turn(@, "cancelled")]
        /\ handlers' = handlers \ {h}
        /\ UNCHANGED <<jobs, groups, told, dismissed, prompts, pending, tokens, stopped, events, issued>>

-----------------------------------------------------------------------------
(* The web page dismisses the records of tasks that are over.              *)

(* dismissals/prepare: what was shown, with its versions.                  *)
PrepareDismissal ==
    \E ts \in SUBSET {t \in Tasks : Dismissible(Seen(t).status) /\ ~Hidden(t)} :
        /\ ts # {}
        /\ Issue([use |-> "dismiss", id |-> issued, shown |-> {<<t, Seen(t).version>> : t \in ts}])
        /\ UNCHANGED <<tasks, dismissed, prompts, pending, handlers, stopped, events>>

ConfirmDismissal ==
    \E k \in tokens :
        /\ k.use = "dismiss" /\ tokens' = tokens \ {k}
        /\ handlers' = handlers \cup {[at |-> "check", shown |-> k.shown]}
        /\ UNCHANGED <<tasks, dismissed, prompts, pending, stopped, events, issued>>

(* Of what was shown, that which has not changed.                          *)
Unchanged(shown) == {s \in shown : Dismissible(Seen(s[1]).status) /\ Seen(s[1]).version = s[2]}

CheckDismissal ==
    \E h \in Waiting("check") :
        /\ handlers' = (handlers \ {h}) \cup {[at |-> "save", items |-> Unchanged(h.shown)]}
        /\ UNCHANGED <<tasks, dismissed, prompts, pending, tokens, stopped, events, issued>>

(* saveTaskCenterDismissals, one statement after the other.                *)
SaveDismissal ==
    \E h \in Waiting("save") :
        /\ \/ \E s \in h.items :
                 /\ dismissed' = [dismissed EXCEPT ![s[1]] = s[2]]
                 /\ handlers' = (handlers \ {h}) \cup {[h EXCEPT !.items = @ \ {s}]}
           \/ h.items = {} /\ handlers' = handlers \ {h} /\ UNCHANGED dismissed
        /\ UNCHANGED <<tasks, prompts, pending, tokens, stopped, events, issued>>

-----------------------------------------------------------------------------
Init ==
    /\ jobs = [j \in Jobs |-> [status |-> "running", version |-> 0]]
    /\ groups = [g \in Groups |-> [status |-> "running", version |-> 0]]
    /\ rows = [g \in Groups |-> [status |-> "running", version |-> 0]]
    /\ told = [g \in Groups |-> <<>>]
    /\ dismissed = [t \in Tasks |-> <<>>]
    /\ prompts = <<>> /\ pending = [c \in Cards |-> 0] /\ tokens = {} /\ handlers = {}
    /\ stopped = {} /\ events = 0 /\ issued = 0

Next ==
    \/ JobEnds \/ JobTouched \/ GroupEnds \/ Snapshot \/ Forget \/ Pause \/ Resume \/ Retry \/ CancelTask
    \/ PressCancel \/ PressConfirm \/ NotFound \/ Ask \/ Expire \/ Confirm \/ CancelTheJob
    \/ AskAll \/ ConfirmAll \/ ListAll \/ CancelAll
    \/ PrepareCancel \/ CancelByWeb \/ CancelJobByWeb \/ CancelGroupByWeb \/ MarkByWeb
    \/ PrepareDismissal \/ ConfirmDismissal \/ CheckDismissal \/ SaveDismissal

Spec == Init /\ [][Next]_vars

-----------------------------------------------------------------------------
States == Unfinished \cup Final
Entries(status) == [status : status, version : Nat]

(* Every variable keeps its type.                                          *)
TypeOK ==
    /\ jobs \in [Jobs -> Entries(States)] /\ rows \in [Groups -> Entries(States)]
    /\ groups \in [Groups -> Entries(States \cup {"gone"})]
    /\ told \in [Groups -> Seq(States)]
    /\ pending \in [Cards -> 0..Len(prompts)]
    /\ stopped \subseteq Tasks /\ events \in 0..MaxEvents /\ issued \in 0..MaxTokens

(* A prompt cancels what it names, and once, whatever is pressed meanwhile *)
(* (pendingTaskCenterCancels, destructiveConfirmations).                   *)
OnlyWhatWasConfirmed ==
    /\ \A n \in 1..Len(prompts) : prompts[n].uses + Cardinality({h \in Waiting("job") : h.prompt = n}) <= 1
    /\ \A h \in Waiting("job") : prompts[h.prompt].task = h.task

(* What is hidden from the lists is over: a task that goes on after its    *)
(* record was dismissed is seen again (taskCenterDismissals.ts:29).        *)
HiddenIsOver == \A t \in Tasks : Hidden(t) => Dismissible(Seen(t).status)

(* What was reported as cancelled never runs again; the queue has not lost *)
(* a group whose row it reported to be cancelled.                          *)
StoppedStays ==
    \A t \in stopped :
        IF t \in Jobs THEN jobs[t].status = "cancelled" ELSE groups[t].status \in {"cancelled", "gone"}

TaskCentreKept == OnlyWhatWasConfirmed /\ HiddenIsOver /\ StoppedStays
=============================================================================

---------------------------- MODULE BotDialogues ----------------------------
(* The drafts of one user in one chat (telegramBot.ts): a draft goes from  *)
(* step to step by texts and by the buttons of its card, whose handlers    *)
(* overlap at every await, until it is confirmed, once, or cancelled.      *)
EXTENDS Naturals, Sequences, FiniteSets

CONSTANTS
    Openings,       \* kinds and steps that a draft begins with
    Presses,        \* buttons pressed at a time
    MaxDrafts,      \* bound: drafts begun
    MaxPicks,       \* bound: storage targets chosen for the chat
    MaxTroubles     \* bound: calls that fail

VARIABLES
    drafts,     \* TelegramWizardState objects, with what came of them
    store,      \* the draft that telegramWizardStates keeps, or 0
    tasks,      \* handlers that wait
    pick,       \* the chat's target selection, by version; 0: none
    picks,      \* versions given
    taken,      \* the selections consumed by a draft
    troubles

choice == <<pick, picks, taken>>
vars == <<drafts, store, tasks, choice, troubles>>

Current(d) == store = d
Trouble == troubles < MaxTroubles /\ troubles' = troubles + 1

Draft(kind, step) ==
    [kind |-> kind, step |-> step, editing |-> FALSE, target |-> FALSE, pin |-> 0,
     processing |-> FALSE, submitting |-> FALSE, created |-> FALSE,
     cancelling |-> FALSE, cancelled |-> FALSE,
     torn |-> FALSE, jobs |-> 0]

Waiting(at) == {t \in tasks : t.at = at}
Pressing == {t \in tasks : t.at = "fetch"}

(* What was pressed on a card is void when the draft has another one.      *)
Outdated == {[t EXCEPT !.old = TRUE] : t \in Pressing}

-----------------------------------------------------------------------------
(* A draft begins with a message, and is kept when it has been sent.       *)

StartTelegramWizard ==
    /\ Len(drafts) + Cardinality(Waiting("start")) < MaxDrafts
    /\ \E o \in Openings :
          tasks' = tasks \cup {[at |-> "start", kind |-> o[1], step |-> o[2]]}
    /\ UNCHANGED <<drafts, store, choice, troubles>>

Started ==
    \E t \in Waiting("start") :
        /\ drafts' = Append(drafts, Draft(t.kind, t.step)) /\ store' = Len(drafts) + 1
        /\ tasks' = (tasks \ (Pressing \cup {t})) \cup Outdated
        /\ UNCHANGED <<choice, troubles>>

(* The panel of subscriptions becomes the card of a new one (tsub_add).    *)
Add ==
    /\ Len(drafts) < MaxDrafts
    /\ drafts' = Append(drafts, Draft("manage", "source")) /\ store' = Len(drafts) + 1
    /\ tasks' \in {tasks, (tasks \ Pressing) \cup Outdated}
    /\ UNCHANGED <<choice, troubles>>

(* Its time is over, or others need its place.                             *)
Expire ==
    /\ store # 0 /\ store' = 0 /\ UNCHANGED <<drafts, tasks, choice, troubles>>

-----------------------------------------------------------------------------
(* A text.                                                                 *)

(* Mutant of Busy: a submission does not count.                            *)
BusyBut(d) == drafts[d].processing \/ drafts[d].cancelling \/ drafts[d].cancelled

Busy(d) ==
    \/ drafts[d].processing \/ drafts[d].submitting \/ drafts[d].created
    \/ drafts[d].cancelling \/ drafts[d].cancelled

Put(d, r) == drafts' = [drafts EXCEPT ![d] = r]
Waits(d, at) == tasks' = tasks \cup {[at |-> at, draft |-> d]}

(* A change while a submission reads the draft tears it.                   *)
Changed(r) == [r EXCEPT !.torn = @ \/ r.submitting]
Handling(d) == [drafts[d] EXCEPT !.processing = TRUE]

(* The next step is asked for; an edited field leads back to the card.     *)
Advance(d, r, step) ==
    /\ Put(d, [Changed(r) EXCEPT !.step = IF r.editing THEN "confirm" ELSE step,
                                 !.editing = FALSE])
    /\ Waits(d, "prompt")

Filter(r) == IF r.kind = "tag" THEN "tag" ELSE "start"

(* Something is wrong with the text, and the user is told.                 *)
Complain(d) == Put(d, Handling(d)) /\ Waits(d, "reply")

Enter(d) ==
    LET r == Changed(Handling(d)) IN
    CASE r.step = "source" -> Put(d, r) /\ Waits(d, "validate")
      [] r.step = "tag"    -> Advance(d, r, "path")
      [] r.step = "start"  -> Put(d, [r EXCEPT !.step = "end"]) /\ Waits(d, "prompt")
      [] r.step = "end"    -> Advance(d, r, "path")
      [] r.step = "path" /\ r.kind = "manage" -> Put(d, r) /\ Waits(d, "subscribe")
      [] r.step = "path" /\ r.target          -> Advance(d, r, "confirm")
      [] OTHER             -> Put(d, r) /\ Waits(d, "target")

(* submitTelegramWizard.                                                   *)
Submit(d) == Put(d, [drafts[d] EXCEPT !.submitting = TRUE]) /\ Waits(d, "submit")

Text ==
    /\ store # 0
    /\ LET d == store IN
       /\ ~Busy(d)
       /\ \/ Complain(d) /\ UNCHANGED store
          \/ Complain(d) /\ store' = 0                                  \* "cancel"
          \/ /\ drafts[d].step = "mode" /\ UNCHANGED store
             /\ \E kind \in {"tag", "date"} :
                   Advance(d, [Handling(d) EXCEPT !.kind = kind], "source")
          \/ drafts[d].step \notin {"mode", "confirm"} /\ Enter(d) /\ UNCHANGED store
          \/ drafts[d].step = "confirm" /\ Submit(d) /\ UNCHANGED store
          \/ /\ drafts[d].kind = "manage" /\ drafts[d].step = "source"  \* a number
             /\ Put(d, Handling(d)) /\ Waits(d, "list") /\ UNCHANGED store
    /\ UNCHANGED <<choice, troubles>>

Leaves(t) == tasks' = tasks \ {t}
Becomes(t, at) == tasks' = (tasks \ {t}) \cup {[t EXCEPT !.at = at]}
Free(d) == [drafts[d] EXCEPT !.processing = FALSE]

(* The handler ends, or throws.                                            *)
Replied ==
    \E t \in Waiting("reply") :
        /\ Leaves(t) /\ Put(t.draft, Free(t.draft))
        /\ UNCHANGED <<store, choice, troubles>>

Validated ==
    \E t \in Waiting("validate") :
        LET d == t.draft
            r == drafts[d]
        IN /\ \/ Trouble /\ Becomes(t, "reply") /\ UNCHANGED drafts
              \/ /\ UNCHANGED troubles
                 /\ Put(d, [Changed(r) EXCEPT
                              !.step = IF r.kind = "manage" THEN "path"
                                       ELSE IF r.editing THEN "confirm" ELSE Filter(r),
                              !.editing = FALSE])
                 /\ Becomes(t, "prompt")
           /\ UNCHANGED <<store, choice>>

(* The storage is pinned when the path is known.                           *)
Targeted ==
    \E t \in Waiting("target") :
        /\ Put(t.draft, [Changed(drafts[t.draft]) EXCEPT
                           !.target = TRUE, !.pin = pick, !.step = "confirm",
                           !.editing = FALSE])
        /\ Becomes(t, "prompt")
        /\ UNCHANGED <<store, choice, troubles>>

(* sendTelegramWizardPrompt: the draft that is kept has a new card.        *)
Prompted ==
    \E t \in Waiting("prompt") :
        /\ Put(t.draft, Free(t.draft))
        /\ \/ /\ tasks' = IF Current(t.draft) THEN (tasks \ (Pressing \cup {t})) \cup Outdated
                          ELSE tasks \ {t}
              /\ UNCHANGED troubles
           \/ Leaves(t) /\ Trouble
        /\ UNCHANGED <<store, choice>>

(* The draft of a subscription ends with it, and may be tried again when   *)
(* it fails.                                                               *)
Subscribed ==
    \E t \in Waiting("subscribe") :
        /\ Becomes(t, "reply")
        /\ \/ /\ Put(t.draft, [drafts[t.draft] EXCEPT !.jobs = @ + 1])
              /\ store' = IF Current(t.draft) THEN 0 ELSE store
              /\ UNCHANGED troubles
           \/ Trouble /\ UNCHANGED <<drafts, store>>
        /\ UNCHANGED choice

(* The number of a subscription: whichever draft is kept by now is gone.   *)
Listed ==
    \E t \in Waiting("list") :
        /\ Becomes(t, "reply") /\ store' = 0
        /\ UNCHANGED <<drafts, choice, troubles>>

-----------------------------------------------------------------------------
(* A button of the card.                                                   *)

(* The chat is served: default_path and confirm fetch the message first.   *)
Press(n) ==
    /\ store # 0 /\ ~Busy(store) /\ drafts[store].step \in {"path", "confirm"}
    /\ \A t \in Pressing : t.press # n
    /\ tasks' = tasks \cup {[at |-> "fetch", press |-> n, old |-> FALSE,
                             step |-> drafts[store].step]}
    /\ UNCHANGED <<drafts, store, choice, troubles>>

(* Mutant of Valid: the draft is known already.                            *)
ValidOnce(t) == store # 0 /\ ~t.old

(* The card is looked at again, with the step it was pressed for.          *)
Valid(t) == store # 0 /\ ~t.old /\ drafts[store].step = t.step /\ ~Busy(store)

Fetched ==
    \E t \in Pressing :
        /\ IF ~Valid(t) THEN Leaves(t) /\ UNCHANGED drafts
           ELSE IF t.step = "confirm"
           THEN /\ Put(store, [drafts[store] EXCEPT !.submitting = TRUE])
                /\ tasks' = (tasks \ {t}) \cup {[at |-> "submit", draft |-> store]}
           ELSE LET r == Changed(Handling(store))
                    at == IF r.kind = "manage" THEN "subscribe"
                          ELSE IF r.target THEN "prompt" ELSE "target"
                IN /\ Put(store, IF at # "prompt" THEN r
                                 ELSE [r EXCEPT !.step = "confirm", !.editing = FALSE])
                   /\ tasks' = (tasks \ {t}) \cup {[at |-> at, draft |-> store]}
        /\ UNCHANGED <<store, choice, troubles>>

Edit ==
    /\ store # 0 /\ ~Busy(store) /\ drafts[store].step = "confirm"
    /\ \E step \in {"source", "path", Filter(drafts[store])} :
          Put(store, [Changed(drafts[store]) EXCEPT !.editing = TRUE, !.step = step])
    /\ UNCHANGED <<store, tasks, choice, troubles>>

(* The kind, or whether comments are wanted.                               *)
Choose ==
    /\ store # 0 /\ ~Busy(store)
    /\ \/ /\ drafts[store].step = "mode"
          /\ \E kind \in {"tag", "date"} :
                Put(store, [Changed(drafts[store]) EXCEPT !.kind = kind, !.step = "source"])
       \/ /\ drafts[store].step = "confirm"
          /\ Put(store, Changed(drafts[store]))
    /\ UNCHANGED <<store, tasks, choice, troubles>>

(* cancelTelegramWizard: the card first.                                   *)
Cancel ==
    /\ store # 0 /\ ~Busy(store)
    /\ Put(store, [drafts[store] EXCEPT !.cancelling = TRUE]) /\ Waits(store, "cancel")
    /\ UNCHANGED <<store, choice, troubles>>

Cancelled ==
    \E t \in Waiting("cancel") :
        /\ Leaves(t)
        /\ \/ /\ Put(t.draft, [drafts[t.draft] EXCEPT !.cancelling = FALSE, !.cancelled = TRUE])
              /\ store' = IF Current(t.draft) THEN 0 ELSE store
              /\ UNCHANGED troubles
           \/ /\ Put(t.draft, [drafts[t.draft] EXCEPT !.cancelling = FALSE])
              /\ Trouble /\ UNCHANGED store
        /\ UNCHANGED choice

-----------------------------------------------------------------------------
(* The submission, whose job is made of what the draft has by then.        *)

Created ==
    \E t \in Waiting("submit") :
        /\ Put(t.draft, [drafts[t.draft] EXCEPT !.created = TRUE, !.jobs = @ + 1])
        /\ store' = IF Current(t.draft) THEN 0 ELSE store
        /\ Becomes(t, "effects")
        /\ UNCHANGED <<choice, troubles>>

Rejected ==
    \E t \in Waiting("submit") :
        /\ Trouble /\ Becomes(t, "restore") /\ UNCHANGED <<drafts, store, choice>>

(* Mutant of Same: whatever is selected by then.                           *)
SameAny(pin) == TRUE

(* consumeConfirmedTelegramTargetState compares versions.                  *)
Same(pin) == pick = pin

Settled ==
    \E t \in Waiting("effects") \cup Waiting("restore") :
        LET r == drafts[t.draft]
            consumes == t.at = "effects" /\ r.pin # 0 /\ pick # 0 /\ Same(r.pin)
        IN /\ Leaves(t) /\ Put(t.draft, [r EXCEPT !.submitting = FALSE])
           /\ taken' = IF consumes THEN taken \cup {<<t.draft, pick>>} ELSE taken
           /\ pick' = IF consumes THEN 0 ELSE pick
           /\ UNCHANGED <<store, picks, troubles>>

-----------------------------------------------------------------------------
(* Another command chooses a target for the chat, or an upload uses it.    *)
Select ==
    /\ picks < MaxPicks /\ picks' = picks + 1 /\ pick' = picks + 1
    /\ UNCHANGED <<drafts, store, tasks, taken, troubles>>

Use ==
    /\ pick # 0 /\ pick' = 0
    /\ UNCHANGED <<drafts, store, tasks, picks, taken, troubles>>

(* Drafts and handlers are lost with the process.                          *)
Restart ==
    /\ Trouble /\ store' = 0 /\ tasks' = {} /\ UNCHANGED <<drafts, choice>>

Init ==
    /\ drafts = <<>> /\ store = 0 /\ tasks = {}
    /\ pick = 0 /\ picks = 0 /\ taken = {} /\ troubles = 0

Next ==
    \/ StartTelegramWizard \/ Started \/ Add \/ Expire
    \/ Text \/ Replied \/ Validated \/ Targeted \/ Prompted \/ Subscribed \/ Listed
    \/ (\E n \in Presses : Press(n)) \/ Fetched \/ Edit \/ Choose \/ Cancel \/ Cancelled
    \/ Created \/ Rejected \/ Settled
    \/ Select \/ Use \/ Restart

Spec == Init /\ [][Next]_vars

-----------------------------------------------------------------------------
Steps == {"mode", "source", "tag", "start", "end", "path", "confirm"}

TypeOK ==
    /\ store \in 0..Len(drafts)
    /\ \A d \in DOMAIN drafts : drafts[d].step \in Steps /\ drafts[d].jobs \in Nat

(* One handler at a time works on a draft.                                 *)
Alone ==
    \A d \in DOMAIN drafts :
        Cardinality({t \in tasks : t.at \notin {"start", "fetch"} /\ t.draft = d}) <= 1

(* A draft makes one job or one subscription, and none once it was seen to *)
(* be cancelled; nobody changes it between its submission and its job.     *)
OneJob ==
    \A d \in DOMAIN drafts :
        /\ drafts[d].jobs <= 1
        /\ drafts[d].jobs = 1 => ~drafts[d].torn /\ ~drafts[d].cancelled

(* It is the selection of the job that the job consumes.                   *)
TakenWithJob ==
    \A p \in taken : drafts[p[1]].created /\ drafts[p[1]].pin = p[2]

DialoguesKept == Alone /\ OneJob /\ TakenWithJob
=============================================================================

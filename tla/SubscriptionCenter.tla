------------------------- MODULE SubscriptionCenter -------------------------
(* SubscriptionCenter.tsx and the routes of routes/subscriptions.ts behind   *)
(* it: the page lists the channels, and of the selected one its rules and    *)
(* judgements; one change at a time is sent and what it touches read again,  *)
(* while the bot and other pages change the same rows.  What a row says is   *)
(* abstracted to how often it was changed.  A change of the page's state and *)
(* the effects it sets off are one step.                                     *)
EXTENDS Naturals, Sequences, FiniteSets, SequencesExt

CONSTANTS
    Subs,        \* ids of subscriptions
    Known,       \* those that exist at first, in the order of the list
    Views,       \* filters of the judgements
    PageSize,    \* SUBSCRIPTION_PAGE_SIZE
    MaxMoves,    \* what the user selects
    MaxChanges,  \* changes by the page
    MaxRivals,   \* changes by others
    MaxTroubles  \* failed requests

VARIABLES
    order,    \* the subscriptions there are, the one last changed first
    on,       \* the enabled ones
    config,   \* changes of each row,
    rules,    \* of its rules
    verdicts, \* and of its judgements
    page,     \* subscriptionPage
    list,     \* the rows shown, id -> config
    pick,     \* [sub, view, records]: selectedId, the filter, the tab
    shown,    \* "rules", "verdicts" -> [scope, value, failed]
    reads,    \* requests of the page, [of, scope, live, mine, answer]
    change,   \* the change under way, [what, sub, page, view, at]
    floor,    \* what each row said when the page was told of its last change
    stale,    \* the last reading of the list failed
    crossed,  \* a change read again another channel or page than was then selected
    moves, changes, rivals, troubles

vars == <<order, on, config, rules, verdicts, page, list, pick, shown, reads, change,
          floor, stale, crossed, moves, changes, rivals, troubles>>
server == <<order, on, config, rules, verdicts>>
counts == <<moves, changes, rivals, troubles>>

None == "none"
Blank == [scope |-> [page |-> 0, sub |-> None, view |-> None], value |-> {}, failed |-> FALSE]
Idle == [what |-> None, sub |-> None, page |-> 0, view |-> None, at |-> None]
Zero == [s \in Subs |-> 0]
Family == {"list", "rules", "verdicts"}
At(n, s, v) == [page |-> n, sub |-> s, view |-> v]
Page(n) == At(n, None, None)
Panel(s) == At(0, s, None)
Key(p) == At(0, p.sub, p.view)
Loads(of, scope, mine) ==
    [of |-> of, scope |-> scope, live |-> TRUE, mine |-> mine, answer |-> <<>>]

Init ==
    /\ order = Known /\ on = ToSet(Known)
    /\ config = Zero /\ rules = Zero /\ verdicts = Zero
    /\ page = 1 /\ list = <<>> /\ pick \in [sub : {None}, view : Views, records : {FALSE}]
    /\ shown = [f \in {"rules", "verdicts"} |-> Blank]
    /\ reads = {Loads("list", Page(1), FALSE)} /\ change = Idle
    /\ floor = [f \in Family |-> Zero] /\ stale = FALSE /\ crossed = FALSE
    /\ moves = 0 /\ changes = 0 /\ rivals = 0 /\ troubles = 0

Trouble == troubles < MaxTroubles /\ troubles' = troubles + 1
Exists(s) == s \in ToSet(order)

-----------------------------------------------------------------------------
(* Requests of the page                                                      *)

(* One generation for each family: what was asked before counts no more.     *)
Bump(families, rs) == {[r EXCEPT !.live = @ /\ r.of \notin families] : r \in rs}
Loading(of) == \E r \in reads : r.of = of /\ r.live

(* The effects of a selection: its rules, and its judgements if they show.   *)
Wanted(p, mine) ==
    (IF p.sub = None THEN {} ELSE {Loads("rules", Panel(p.sub), mine)})
      \union (IF p.sub = None \/ ~p.records THEN {} ELSE {Loads("verdicts", Key(p), mine)})
Select(p, rs) ==
    /\ pick' = p
    /\ reads' = Bump({"rules", "verdicts"}, rs) \union Wanted(p, FALSE)
    /\ shown' = [f \in {"rules", "verdicts"} |-> Blank]

(* The buttons are disabled while a change or the list is under way.         *)
Saving == change.what # None
Free == ~Saving /\ ~Loading("list")
RulesReady == /\ pick.sub # None /\ shown["rules"].scope = Panel(pick.sub) /\ ~Loading("rules")
VerdictsReady == /\ pick.sub # None /\ pick.records
                 /\ shown["verdicts"].scope = Key(pick) /\ ~Loading("verdicts")

-----------------------------------------------------------------------------
(* The routes                                                                *)

(* What a read finds: a page of the rows by their last change, the rules of  *)
(* a row, and its judgements unless it is disabled.                          *)
Slice(n) == SubSeq(order, (n - 1) * PageSize + 1,
                   IF n * PageSize < Len(order) THEN n * PageSize ELSE Len(order))
RulesOf(s) == {rules[x] : x \in {s} \intersect ToSet(order)}
VerdictsOf(s) == {verdicts[x] : x \in {s} \intersect on}
Found(r) ==
    [rows |-> IF r.of = "list" THEN Slice(r.scope.page) ELSE <<>>,
     total |-> Len(order),
     config |-> IF r.of = "list" THEN config ELSE Zero,
     value |-> CASE r.of = "list" -> {} [] r.of = "rules" -> RulesOf(r.scope.sub)
                 [] r.of = "verdicts" -> VerdictsOf(r.scope.sub)]
Serve(r) ==
    /\ r.answer = <<>>
    /\ reads' = (reads \ {r}) \union {[r EXCEPT !.answer = <<Found(r)>>]}
    /\ UNCHANGED <<server, page, list, pick, shown, change, floor, stale, crossed, counts>>

(* The row goes to the front of the list.  The editor makes a subscription,  *)
(* or enables the one there is of that channel.                              *)
Others(s) == SelectSeq(order, LAMBDA x : x # s)
Touch(s) == order' = <<s>> \o Others(s) /\ config' = [config EXCEPT ![s] = @ + 1]
Unborn(s) == config[s] = 0 /\ s \notin ToSet(Known)
SetEnabled(s) ==
    /\ Exists(s) /\ Touch(s) /\ UNCHANGED <<rules, verdicts>>
    /\ on' = IF s \in on THEN on \ {s} ELSE on \union {s}
Configure(s) == Exists(s) /\ Touch(s) /\ UNCHANGED <<on, rules, verdicts>>
Subscribe(s) ==
    /\ Exists(s) \/ Unborn(s)
    /\ Touch(s) /\ on' = on \union {s} /\ UNCHANGED <<rules, verdicts>>
Delete(s) ==
    /\ Exists(s) /\ order' = Others(s) /\ config' = [config EXCEPT ![s] = @ + 1]
    /\ on' = on \ {s} /\ UNCHANGED <<rules, verdicts>>
ChangeRule(s) ==
    /\ Exists(s) /\ rules' = [rules EXCEPT ![s] = @ + 1]
    /\ UNCHANGED <<order, on, config, verdicts>>
Review(s) ==  \* with the template that is learnt
    /\ Exists(s) /\ verdicts' = [verdicts EXCEPT ![s] = @ + 1]
    /\ rules' = [rules EXCEPT ![s] = @ + 1] /\ UNCHANGED <<order, on, config>>
Kinds == {"enabled", "mode", "config", "create", "delete", "rule", "review"}
Effect(what, s) ==
    CASE what = "enabled" -> SetEnabled(s) [] what \in {"mode", "config"} -> Configure(s)
      [] what = "create" -> Subscribe(s) [] what = "delete" -> Delete(s)
      [] what = "rule" -> ChangeRule(s) [] what = "review" -> Review(s)

(* The bot or another page.                                                  *)
Rival ==
    /\ rivals < MaxRivals /\ rivals' = rivals + 1
    /\ \E s \in Subs, what \in Kinds : Effect(what, s)
    /\ UNCHANGED <<page, list, pick, shown, reads, change, floor, stale, crossed>>
    /\ UNCHANGED <<moves, changes, troubles>>

-----------------------------------------------------------------------------
(* Answers                                                                   *)

LastPage(total) == IF total = 0 THEN 1 ELSE (total + PageSize - 1) \div PageSize

(* loadSubscriptions: the page goes back to the last there is, or shows the  *)
(* rows and keeps the selection if it is among them.                         *)
ListCame(r) ==
    LET a == r.answer[1]
        ids == ToSet(a.rows)
        next == IF pick.sub \in ids THEN pick.sub
                ELSE IF a.rows = <<>> THEN None ELSE a.rows[1]
    IN  IF r.scope.page > LastPage(a.total)
        THEN /\ page' = LastPage(a.total)
             /\ reads' = (reads \ {r}) \union {Loads("list", Page(n), FALSE) : n \in {page'} \ {page}}
             /\ UNCHANGED <<list, pick, shown, stale>>
        ELSE /\ list' = [s \in ids |-> a.config[s]] /\ stale' = FALSE
             /\ IF next = pick.sub
                THEN reads' = reads \ {r} /\ UNCHANGED <<pick, shown>>
                ELSE Select([pick EXCEPT !.sub = next], reads \ {r})
             /\ UNCHANGED page
PanelCame(r) ==
    /\ shown' = [shown EXCEPT ![r.of] =
                    [scope |-> r.scope, value |-> r.answer[1].value, failed |-> FALSE]]
    /\ reads' = reads \ {r} /\ UNCHANGED <<page, list, pick, stale>>
Dropped(r) ==
    /\ reads' = reads \ {r}
    /\ UNCHANGED <<page, list, pick, shown, stale>>

(* An answer of an older generation is not looked at.                        *)
Arrive(r) ==
    /\ r.answer # <<>>
    /\ IF ~r.live THEN Dropped(r) ELSE IF r.of = "list" THEN ListCame(r) ELSE PanelCame(r)
    /\ UNCHANGED <<server, change, floor, crossed, counts>>
Lost(r) ==
    /\ Trouble
    /\ IF ~r.live THEN Dropped(r)
       ELSE /\ reads' = reads \ {r}
            /\ IF r.of = "list" THEN stale' = TRUE /\ UNCHANGED shown
               ELSE shown' = [shown EXCEPT ![r.of] = [Blank EXCEPT !.failed = TRUE]]
                    /\ UNCHANGED stale
            /\ UNCHANGED <<page, list, pick>>
    /\ UNCHANGED <<server, change, floor, crossed, moves, changes, rivals>>

-----------------------------------------------------------------------------
(* Changes                                                                   *)

(* addRule, toggleRule and removeRule want the rules to be there, review the *)
(* judgements.  The dialog of the editor covers the page until it is done.   *)
Send(what, s) ==
    /\ changes < MaxChanges /\ changes' = changes + 1
    /\ Free
    /\ what # "create" => s = pick.sub /\ s \in DOMAIN list
    /\ what = "rule" => RulesReady
    /\ what = "review" => VerdictsReady /\ shown["verdicts"].value # {}
    /\ change' = [what |-> what, sub |-> s, page |-> page, view |-> pick.view, at |-> "sent"]
    /\ UNCHANGED <<server, page, list, pick, shown, reads, floor, stale, crossed>>
    /\ UNCHANGED <<moves, rivals, troubles>>
Handle ==
    /\ change.at = "sent"
    /\ Effect(change.what, change.sub)
    /\ change' = [change EXCEPT !.at = "done"]
    /\ UNCHANGED <<page, list, pick, shown, reads, floor, stale, crossed, counts>>

(* What is read again: what the page knew when the change was sent.          *)
Families == CASE change.what = "rule" -> {"rules"} [] change.what = "review" -> Family
              [] OTHER -> {"list"}
Scope(f) == CASE f = "list" -> Page(change.page) [] f = "rules" -> Panel(change.sub)
              [] f = "verdicts" -> Key(change)
Reload ==
    /\ reads' = Bump(Families, reads) \union {Loads(f, Scope(f), TRUE) : f \in Families}
    /\ shown' = [f \in {"rules", "verdicts"} |-> IF f \in Families THEN Blank ELSE shown[f]]
    /\ crossed' = (crossed \/ change.page # page \/ change.sub # pick.sub)
    /\ UNCHANGED <<page, pick>>
(* A deletion gives up the selection first.                                  *)
Deselect ==
    /\ pick' = [pick EXCEPT !.sub = None]
    /\ shown' = [f \in {"rules", "verdicts"} |-> Blank]
    /\ reads' = Bump(Family, reads) \union {Loads("list", Page(change.page), TRUE)}
    /\ crossed' = (crossed \/ change.page # page) /\ UNCHANGED page
(* onSaved of the editor selects its subscription, on the first page.        *)
Saved ==
    LET p == [pick EXCEPT !.sub = change.sub, !.records = FALSE]
    IN  /\ page' = 1
        /\ Select(p, Bump({"list"}, reads)
                       \union {Loads("list", Page(1), b) : b \in {change.page = 1}})
        /\ UNCHANGED crossed
Told == CASE change.what = "rule" -> {"rules"} [] change.what = "review" -> {"rules", "verdicts"}
          [] OTHER -> {"list"}
Now(f) == CASE f = "rules" -> rules [] f = "verdicts" -> verdicts [] f = "list" -> config
Done ==
    /\ change.at = "done" /\ change' = [change EXCEPT !.at = "reload"]
    /\ CASE change.what = "delete" -> Deselect
         [] change.what \in {"config", "create"} -> Saved
         [] OTHER -> Reload
    /\ floor' = [f \in Family |-> IF f \in Told
                                  THEN [floor[f] EXCEPT ![change.sub] = Now(f)[change.sub]]
                                  ELSE floor[f]]
    /\ UNCHANGED <<server, list, stale, counts>>
(* A refusal, or a failure before or after the effect: nothing is read.      *)
Failed ==
    /\ \/ /\ change.at = "sent" /\ ~Exists(change.sub)
          /\ ~(change.what = "create" /\ Unborn(change.sub))
          /\ UNCHANGED troubles
       \/ change.at \in {"sent", "done"} /\ Trouble
    /\ change' = Idle
    /\ UNCHANGED <<server, page, list, pick, shown, reads, floor, stale, crossed>>
    /\ UNCHANGED <<moves, changes, rivals>>
Unlock ==
    /\ change.at = "reload" /\ ~\E r \in reads : r.mine
    /\ change' = Idle
    /\ UNCHANGED <<server, page, list, pick, shown, reads, floor, stale, crossed, counts>>

-----------------------------------------------------------------------------
(* What the user selects                                                     *)

Move == moves < MaxMoves /\ moves' = moves + 1
        /\ UNCHANGED <<server, list, change, floor, stale, crossed, changes, rivals, troubles>>
SelectChannel(s) ==
    /\ Move /\ Free /\ s # pick.sub /\ s \in DOMAIN list
    /\ Select([pick EXCEPT !.sub = s], reads) /\ UNCHANGED page
SetView(v) ==
    /\ Move /\ Free /\ pick.records /\ v # pick.view
    /\ pick' = [pick EXCEPT !.view = v]
    /\ reads' = Bump({"verdicts"}, reads) \union
                    {Loads("verdicts", Key(pick'), FALSE) : s \in {pick.sub} \ {None}}
    /\ shown' = [shown EXCEPT !["verdicts"] = Blank] /\ UNCHANGED page
SetTab ==
    /\ Move /\ Free /\ pick.sub \in DOMAIN list
    /\ pick' = [pick EXCEPT !.records = ~@]
    /\ reads' = Bump({"verdicts"}, reads) \union
                    {Loads("verdicts", Key(pick), FALSE) : x \in {pick.records} \ {TRUE}}
    /\ shown' = [shown EXCEPT !["verdicts"] = Blank] /\ UNCHANGED page
SetPage(n) ==
    /\ Move /\ Free /\ n # page
    /\ page' = n
    /\ reads' = Bump({"list"}, reads) \union {Loads("list", Page(n), FALSE)}
    /\ UNCHANGED <<pick, shown>>
(* The language changes, whatever is under way, or the user refreshes: all   *)
(* effects run again.                                                        *)
Relabel ==
    /\ Move
    /\ reads' = Bump(Family, reads) \union {Loads("list", Page(page), FALSE)}
                  \union Wanted(pick, FALSE)
    /\ shown' = [f \in {"rules", "verdicts"} |-> Blank]
    /\ UNCHANGED <<page, pick>>

Next ==
    \/ \E r \in reads : Serve(r) \/ Arrive(r) \/ Lost(r)
    \/ \E what \in Kinds, s \in Subs : Send(what, s)
    \/ Handle \/ Done \/ Failed \/ Unlock \/ Rival
    \/ \E s \in Subs : SelectChannel(s)
    \/ \E v \in Views : SetView(v)
    \/ \E n \in 1..LastPage(Cardinality(Subs)) : SetPage(n)
    \/ SetTab \/ Relabel

Spec == Init /\ [][Next]_vars

-----------------------------------------------------------------------------
TypeOK ==
    /\ ToSet(order) \subseteq Subs /\ on \subseteq ToSet(order) /\ IsInjective(order)
    /\ {config, rules, verdicts} \subseteq [Subs -> Nat] /\ floor \in [Family -> [Subs -> Nat]]
    /\ page \in 1..Cardinality(Subs) /\ DOMAIN list \subseteq Subs
    /\ pick \in [sub : Subs \union {None}, view : Views, records : BOOLEAN]
    /\ \A r \in reads : r.of \in Family /\ {r.live, r.mine} \subseteq BOOLEAN
    /\ change.what \in Kinds \union {None} /\ change.sub \in Subs \union {None}
    /\ {stale, crossed} \subseteq BOOLEAN

(* One request of a family counts at a time.                                 *)
OneReading == \A f \in Family : Cardinality({r \in reads : r.of = f /\ r.live}) <= 1

(* Once the list has come, it says at least what the page's own changes did: *)
(* no answer from before a change is shown after it.                         *)
ListFresh ==
    ~Loading("list") /\ ~stale /\ ~crossed =>
        /\ \A s \in DOMAIN list : list[s] >= floor["list"][s]
        /\ pick.sub \in DOMAIN list \/ (pick.sub = None /\ DOMAIN list = {})

(* The rules and judgements that can be changed are those of the channel     *)
(* selected, and say at least what the page's own changes did.               *)
PanelsFresh ==
    /\ RulesReady => \A v \in shown["rules"].value : v >= floor["rules"][pick.sub]
    /\ VerdictsReady => \A v \in shown["verdicts"].value : v >= floor["verdicts"][pick.sub]

(* The panels of a selected channel are read, or said to have failed.        *)
PanelsCome ==
    pick.sub # None /\ ~crossed =>
        /\ Loading("rules") \/ RulesReady \/ shown["rules"].failed
        /\ pick.records => Loading("verdicts") \/ VerdictsReady \/ shown["verdicts"].failed

CenterKept == OneReading /\ ListFresh /\ PanelsFresh /\ PanelsCome

=============================================================================

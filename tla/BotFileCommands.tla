-------------------------- MODULE BotFileCommands ---------------------------
(* Files removed by the bot (telegramCommands.ts): one that a message      *)
(* names, or all of the local directory, after a one-time confirmation of  *)
(* what was there when it was asked for, while transfers store and index   *)
(* files of their own.                                                     *)
EXTENDS Naturals, Sequences, FiniteSets

CONSTANTS
    Files,
    MaxAsks,        \* bound: confirmations asked for
    MaxTroubles     \* bound: objects and rows that cannot be removed

VARIABLES
    stage,      \* what a transfer has done: "new", "stored", "indexed"
    objects,    \* files in UPLOAD_DIR
    rows,       \* files in the index
    asks,       \* confirmations: DestructiveConfirmationStore and its maps
    handlers,   \* handlers that wait
    named,      \* files that a confirmation has named
    orphaned,   \* of them, those that it named as files without a row
    removed,    \* files whose object a handler removed
    torn,       \* files whose row could not be removed after the object
    troubles

transfer == <<stage, objects, rows>>
ghosts == <<named, orphaned, removed, torn>>
vars == <<transfer, asks, handlers, ghosts, troubles>>

Waiting(at) == {h \in handlers : h.at = at}
Trouble == troubles < MaxTroubles /\ troubles' = troubles + 1
Step(h, next) == handlers' = (handlers \ {h}) \cup next

-----------------------------------------------------------------------------
(* A transfer to the local directory: its file, then its row.              *)

Store ==
    \E f \in Files :
        /\ stage[f] = "new"
        /\ stage' = [stage EXCEPT ![f] = "stored"] /\ objects' = objects \cup {f}
        /\ UNCHANGED <<rows, asks, handlers, ghosts, troubles>>

Index ==
    \E f \in Files :
        /\ stage[f] = "stored"
        /\ stage' = [stage EXCEPT ![f] = "indexed"] /\ rows' = rows \cup {f}
        /\ UNCHANGED <<objects, asks, handlers, ghosts, troubles>>

-----------------------------------------------------------------------------
(* Confirmations.                                                          *)

Ask(kind, files, orphans) ==
    /\ Len(asks) < MaxAsks
    /\ asks' = Append(asks, [kind |-> kind, files |-> files, orphans |-> orphans, open |-> TRUE])

(* handleDelete, and the button of a file that is listed.                  *)
AskDelete ==
    \E f \in rows :
        /\ Ask("delete", {f}, {})
        /\ UNCHANGED <<transfer, handlers, ghosts, troubles>>

(* storage_clear_ask: the directory is read first, and then the index.     *)
ReadDirectory ==
    /\ Len(asks) < MaxAsks
    /\ handlers' = handlers \cup {[at |-> "index", paths |-> objects]}
    /\ UNCHANGED <<transfer, asks, ghosts, troubles>>

AskClear ==
    \E h \in Waiting("index") :
        /\ Ask("clear", rows, h.paths \ rows)
        /\ Step(h, {})
        /\ UNCHANGED <<transfer, ghosts, troubles>>

(* The other button, or time.                                              *)
Cancel ==
    \E n \in 1..Len(asks) :
        /\ asks[n].open
        /\ asks' = [asks EXCEPT ![n].open = FALSE]
        /\ UNCHANGED <<transfer, handlers, ghosts, troubles>>

(* consume, before anything is awaited.                                    *)
Confirm ==
    \E n \in 1..Len(asks) :
        /\ asks[n].open
        /\ asks' = [asks EXCEPT ![n].open = FALSE]
        /\ named' = named \cup asks[n].files \cup asks[n].orphans
        /\ orphaned' = orphaned \cup asks[n].orphans
        /\ handlers' = handlers \cup
               {[at |-> "rows", n |-> n, files |-> asks[n].files, orphans |-> asks[n].orphans]}
        /\ UNCHANGED <<transfer, removed, torn, troubles>>

-----------------------------------------------------------------------------
(* The rows are read again, those that were named.                         *)

Rows(h) == rows \cap h.files

ReadRows ==
    \E h \in Waiting("rows") :
        /\ Step(h, {[at |-> "object", n |-> h.n, files |-> Rows(h), orphans |-> h.orphans]})
        /\ UNCHANGED <<transfer, asks, ghosts, troubles>>

(* removePhysicalFile: one that is not there is not an error.              *)
RemoveObject ==
    \E h \in Waiting("object") :
        \E f \in h.files :
            /\ objects' = objects \ {f} /\ removed' = removed \cup {f}
            /\ Step(h, {[at |-> "row", n |-> h.n, file |-> f, files |-> h.files \ {f}, orphans |-> h.orphans]})
            /\ UNCHANGED <<stage, rows, asks, named, orphaned, torn, troubles>>

Rest(h) == [at |-> "object", n |-> h.n, files |-> h.files, orphans |-> h.orphans]

RemoveRow ==
    \E h \in Waiting("row") :
        /\ rows' = rows \ {h.file}
        /\ Step(h, {Rest(h)})
        /\ UNCHANGED <<stage, objects, asks, ghosts, troubles>>

(* The row stays for another attempt, with or without its object.          *)
ObjectFails ==
    \E h \in Waiting("object") :
        \E f \in h.files :
            /\ Trouble
            /\ Step(h, {[h EXCEPT !.files = @ \ {f}]})
            /\ UNCHANGED <<transfer, asks, ghosts>>

RowFails ==
    \E h \in Waiting("row") :
        /\ Trouble
        /\ torn' = torn \cup {h.file}
        /\ Step(h, {Rest(h)})
        /\ UNCHANGED <<transfer, asks, named, orphaned, removed>>

(* Files without a row when the question was put, whatever they are now.   *)
RemoveOrphan ==
    \E h \in Waiting("object") :
        /\ h.files = {}
        /\ IF h.orphans = {} THEN Step(h, {}) /\ UNCHANGED <<objects, removed>>
           ELSE \E f \in h.orphans :
                   /\ objects' = objects \ {f} /\ removed' = removed \cup {f}
                   /\ Step(h, {[h EXCEPT !.orphans = @ \ {f}]})
        /\ UNCHANGED <<stage, rows, asks, named, orphaned, torn, troubles>>

-----------------------------------------------------------------------------
Init ==
    /\ stage = [f \in Files |-> "new"] /\ objects = {} /\ rows = {}
    /\ asks = <<>> /\ handlers = {}
    /\ named = {} /\ orphaned = {} /\ removed = {} /\ torn = {} /\ troubles = 0

Next ==
    \/ Store \/ Index
    \/ AskDelete \/ ReadDirectory \/ AskClear \/ Cancel \/ Confirm
    \/ ReadRows \/ RemoveObject \/ RemoveRow \/ ObjectFails \/ RowFails \/ RemoveOrphan

Spec == Init /\ [][Next]_vars

-----------------------------------------------------------------------------
(* Every variable keeps its type.                                          *)
TypeOK ==
    /\ stage \in [Files -> {"new", "stored", "indexed"}]
    /\ objects \subseteq Files /\ rows \subseteq Files
    /\ \A n \in 1..Len(asks) : asks[n].kind \in {"delete", "clear"} /\ asks[n].open \in BOOLEAN
                               /\ asks[n].files \subseteq Files /\ asks[n].orphans \subseteq Files
    /\ named \cup orphaned \cup removed \cup torn \subseteq Files /\ troubles \in 0..MaxTroubles

(* Nothing is removed that no confirmed question has named.                *)
OnlyNamed == removed \subseteq named

(* A file in the index is there, unless its row is about to go, or could   *)
(* not be removed, or the directory was cleared of it as an orphan.        *)
IndexedIsThere ==
    \A f \in rows : f \in objects \/ f \in torn \cup orphaned \/ \E h \in handlers : h.at = "row" /\ h.file = f

CommandsKept == OnlyNamed /\ IndexedIsThere
=============================================================================

---------------------------- MODULE BotTransport ----------------------------
(* The senders of one Telegram bot client (telegramBotTransport.ts): the   *)
(* main one, and one for each data centre that files are read from, which  *)
(* is borrowed by many and replaced when it is lost.                       *)
EXTENDS Naturals, Sequences, FiniteSets

CONSTANTS
    Dcs,            \* data centres of downloads
    Callers,        \* reads of a file
    MaxSenders,     \* bound: senders made
    MaxTroubles     \* bound: losses and failures

VARIABLES
    closed, failure,    \* of the client
    sender,     \* made so far: data centre, error, link; the first is the main one
    slot,       \* of each data centre: record, connecting, authError
    caller,     \* of each read
    destroying, \* the step of destroy
    troubles

vars == <<closed, failure, sender, slot, caller, destroying, troubles>>

Main == 1
Senders == DOMAIN sender
Trouble == troubles < MaxTroubles /\ troubles' = troubles + 1
Active == ~closed /\ ~failure                       \* assertActive
Usable(k) == Active /\ ~sender[k].error             \* assertSender
Up(k) == Usable(k) /\ sender[k].link = "open"       \* isConnected

-----------------------------------------------------------------------------
(* rejectRequests: whoever waits for an answer of these senders is told.   *)
Rejected(ks) ==
    [c \in Callers |-> IF caller[c].at = "sent" /\ caller[c].k \in ks
                       THEN [caller[c] EXCEPT !.at = "failed"] ELSE caller[c]]

(* retire, which begins their cleanup.                                     *)
Retired(ks) ==
    [k \in Senders |-> IF k \in ks
        THEN [dc |-> sender[k].dc, error |-> TRUE,
              link |-> IF sender[k].link \in {"opening", "open"}
                       THEN "closing" ELSE sender[k].link]
        ELSE sender[k]]

Retire(ks) == sender' = Retired(ks) /\ caller' = Rejected(ks)

(* A callback belongs to its sender.                                       *)
Own(k) == slot[sender[k].dc].record = k

(* lost.                                                                   *)
Lose(k, auth) ==
    IF closed \/ sender[k].error THEN UNCHANGED <<sender, caller, slot, failure>>
    ELSE IF k = Main
    THEN failure' = TRUE /\ Retire(Senders) /\ UNCHANGED slot
    ELSE IF ~Own(k) THEN UNCHANGED <<sender, caller, slot, failure>>
    ELSE /\ Retire({k}) /\ UNCHANGED failure
         /\ slot' = [slot EXCEPT ![sender[k].dc].auth = @ \/ auth]

(* A connection ends, or its key is refused.                               *)
Ends(k) ==
    /\ sender[k].link = "open" /\ Trouble
    /\ \E auth \in BOOLEAN : Lose(k, auth)
    /\ UNCHANGED <<closed, destroying>>

(* cleanup is over, or was not within ten seconds.                         *)
Cleaned(k) ==
    /\ sender[k].link = "closing"
    /\ \/ sender' = [sender EXCEPT ![k].link = "closed"] /\ UNCHANGED troubles
       \/ sender' = [sender EXCEPT ![k].link = "stuck"] /\ Trouble
    /\ UNCHANGED <<closed, failure, slot, caller, destroying>>

-----------------------------------------------------------------------------
(* Borrowing.                                                              *)

(* Mutant of Replaced: the one before need not be cleaned up.              *)
ReplacedAtOnce(d) == TRUE

(* The sender before has been cleaned up.                                  *)
Replaced(d) == slot[d].record # 0 => sender[slot[d].record].link = "closed"

Wait(c, d) == [caller EXCEPT ![c] = [at |-> "borrows", dc |-> d, k |-> 0]]

Borrow(c, d) ==
    /\ caller[c].at = "none" /\ Active
    /\ LET k == slot[d].record IN
       IF slot[d].auth
       THEN caller' = [caller EXCEPT ![c].at = "failed"] /\ UNCHANGED <<sender, slot>>
       ELSE IF slot[d].step # "none"
       THEN caller' = Wait(c, d) /\ UNCHANGED <<sender, slot>>
       ELSE IF k # 0 /\ Up(k)
       THEN /\ caller' = [caller EXCEPT ![c] = [at |-> "has", dc |-> d, k |-> k]]
            /\ UNCHANGED <<sender, slot>>
       ELSE /\ slot' = [slot EXCEPT ![d].step = "cleaning"]
            /\ caller' = Wait(c, d)
            /\ sender' = IF k # 0 THEN Retired({k}) ELSE sender
    /\ UNCHANGED <<closed, failure, destroying, troubles>>

(* Those that borrow from d get sender k, or an error (0).                 *)
Settled(d, k) ==
    [c \in Callers |-> IF caller[c].at = "borrows" /\ caller[c].dc = d
        THEN [at |-> IF k = 0 THEN "failed" ELSE "has", dc |-> d, k |-> k]
        ELSE caller[c]]

BorrowFails(d) ==
    /\ \/ slot[d].step = "cleaning"
          /\ (IF slot[d].record # 0
              THEN sender[slot[d].record].link = "stuck" \/ (~Active /\ Replaced(d))
              ELSE ~Active)
       \/ slot[d].step = "connecting" /\ sender[slot[d].record].error
    /\ slot' = [slot EXCEPT ![d].step = "none"]
    /\ caller' = Settled(d, 0)
    /\ UNCHANGED <<closed, failure, sender, destroying, troubles>>

(* _createExportedSender.                                                  *)
Create(d) ==
    /\ slot[d].step = "cleaning" /\ Active /\ Replaced(d)
    /\ Len(sender) < MaxSenders
    /\ sender' = Append(sender, [dc |-> d, error |-> FALSE, link |-> "opening"])
    /\ slot' = [slot EXCEPT ![d] = [record |-> Len(sender) + 1, step |-> "connecting",
                                    auth |-> slot[d].auth]]
    /\ UNCHANGED <<closed, failure, caller, destroying, troubles>>

(* _connectSender: connected, and authorized through the main sender.      *)
Connected(d) ==
    /\ slot[d].step = "connecting"
    /\ LET k == slot[d].record IN
       /\ Usable(k) /\ sender[k].link = "open"
       /\ slot' = [slot EXCEPT ![d].step = "none"]
       /\ caller' = Settled(d, k)
    /\ UNCHANGED <<closed, failure, sender, destroying, troubles>>

Opens(k) ==
    /\ sender[k].link = "opening" /\ Usable(k)
    /\ sender' = [sender EXCEPT ![k].link = "open"]
    /\ UNCHANGED <<closed, failure, slot, caller, destroying, troubles>>

(* It cannot be connected, takes thirty seconds, or is refused.            *)
ConnectFails(k) ==
    /\ sender[k].link \in {"opening", "open"} /\ Trouble
    /\ IF k = Main THEN sender[k].link = "opening"
       ELSE slot[sender[k].dc] = [slot[sender[k].dc] EXCEPT !.record = k, !.step = "connecting"]
    /\ \E auth \in BOOLEAN : Lose(k, auth)
    /\ UNCHANGED <<closed, destroying>>

-----------------------------------------------------------------------------
(* Requests.                                                               *)

Send(c) ==
    /\ caller[c].at = "has"
    /\ caller' = [caller EXCEPT ![c].at = IF Usable(caller[c].k) THEN "sent" ELSE "failed"]
    /\ UNCHANGED <<closed, failure, sender, slot, destroying, troubles>>

Answer(c) ==
    /\ caller[c].at = "sent" /\ Up(caller[c].k)
    /\ caller' = [caller EXCEPT ![c].at = "none"]
    /\ UNCHANGED <<closed, failure, sender, slot, destroying, troubles>>

-----------------------------------------------------------------------------
(* destroy.                                                                *)

Destroy ==
    /\ destroying = "none" /\ destroying' = "waits"
    /\ closed' = TRUE /\ Retire(Senders)
    /\ UNCHANGED <<failure, slot, troubles>>

(* Mutant of Quiet: borrowings are not waited for.                         *)
QuietButPending == \A k \in Senders : sender[k].link \in {"closed", "stuck"}

(* All that was begun is over.                                             *)
Quiet ==
    /\ \A k \in Senders : sender[k].link \in {"closed", "stuck"}
    /\ \A d \in Dcs : slot[d].step = "none"

Destroyed ==
    /\ destroying = "waits" /\ Quiet
    /\ destroying' = IF \E k \in Senders : sender[k].link = "stuck"
                     THEN "failed" ELSE "done"
    /\ UNCHANGED <<closed, failure, sender, slot, caller, troubles>>

Init ==
    /\ closed = FALSE /\ failure = FALSE
    /\ sender = <<[dc |-> 0, error |-> FALSE, link |-> "opening"]>>
    /\ slot = [d \in Dcs |-> [record |-> 0, step |-> "none", auth |-> FALSE]]
    /\ caller = [c \in Callers |-> [at |-> "none", dc |-> 0, k |-> 0]]
    /\ destroying = "none" /\ troubles = 0

Next ==
    \/ Destroy \/ Destroyed
    \/ \E k \in Senders : Ends(k) \/ Cleaned(k) \/ Opens(k) \/ ConnectFails(k)
    \/ \E d \in Dcs : BorrowFails(d) \/ Create(d) \/ Connected(d)
    \/ \E c \in Callers : Send(c) \/ Answer(c) \/ (\E d \in Dcs : Borrow(c, d))

Spec == Init /\ [][Next]_vars

-----------------------------------------------------------------------------
TypeOK ==
    /\ \A k \in Senders :
          sender[k].link \in {"opening", "open", "closing", "closed", "stuck"}
    /\ \A d \in Dcs : /\ slot[d].record \in {0} \cup Senders
                      /\ slot[d].step \in {"none", "cleaning", "connecting"}
    /\ \A c \in Callers : caller[c].at \in {"none", "borrows", "has", "sent", "failed"}

(* A data centre has one sender at a time, and it is the one its slot      *)
(* knows.                                                                  *)
OneSender ==
    \A k \in Senders \ {Main} :
        sender[k].link # "closed" => slot[sender[k].dc].record = k

(* Nobody waits for an answer of a sender that was lost, nor for one that  *)
(* nobody makes.                                                           *)
NobodyWaits ==
    \A c \in Callers :
        /\ caller[c].at = "sent" => ~sender[caller[c].k].error
        /\ caller[c].at = "borrows" => slot[caller[c].dc].step # "none"

(* After destroy nothing is connected, borrowed or awaited.                *)
DestroyedIsQuiet ==
    destroying = "done" =>
        /\ \A k \in Senders : sender[k].link = "closed"
        /\ \A c \in Callers : caller[c].at \notin {"borrows", "sent"}

SendersKept == OneSender /\ NobodyWaits /\ DestroyedIsQuiet
=============================================================================

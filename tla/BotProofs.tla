----------------------------- MODULE BotProofs -----------------------------
(***************************************************************************)
(* Proofs about the bot: the senders of its client (BotTransport), the     *)
(* client itself from one change of credentials to the next                *)
(* (BotLifecycle), the files that its commands remove (BotFileCommands),   *)
(* the drafts of its dialogues (BotDialogues), and the tasks that its      *)
(* cards and the web page control (TaskCentre).  Their handlers wait for   *)
(* one another and overlap at every await, so each inductive invariant     *)
(* says what a handler that waits may still rely on when it goes on.       *)
(*                                                                         *)
(* The five specifications have nothing to do with each other; a variable  *)
(* that several of them have stands for that of the one spoken of.         *)
(***************************************************************************)
EXTENDS Naturals, Sequences, FiniteSets, FiniteSetTheorems, SequenceTheorems, TLAPS

CONSTANTS
    Dcs, Callers, MaxSenders,
    Creds, Env, None, MaxAttempts, MaxClients, MaxRequests,
    Files, MaxAsks,
    Openings, Presses, MaxDrafts, MaxPicks,
    Jobs, Groups, Cards, MaxEvents, MaxPrompts, MaxTokens,
    MaxTroubles

VARIABLES
    closed, failure, sender, slot, caller, destroying,
    saved, lane, run, aborted, blocked, owned, client, clients, status, attempt, retry, watch,
    later, workers, scanning, runtime, transfer, undone, requests,
    stage, objects, rows, asks, handlers, named, orphaned, removed, torn,
    drafts, store, tasks, pick, picks, taken,
    jobs, groups, told, dismissed, prompts, pending, tokens, stopped, events, issued,
    troubles

Bot == INSTANCE BotTransport
Life == INSTANCE BotLifecycle
Commands == INSTANCE BotFileCommands
Dialogue == INSTANCE BotDialogues
Centre == INSTANCE TaskCentre

-----------------------------------------------------------------------------
(* The senders of the bot's client.                                        *)

Links == {"opening", "open", "closing", "closed", "stuck"}
SenderRecord == [dc : Dcs \cup {0}, error : BOOLEAN, link : Links]
SlotRecord == [record : Nat, step : {"none", "cleaning", "connecting"}, auth : BOOLEAN]
CallerRecord ==
    [at : {"none", "borrows", "has", "sent", "failed"}, dc : Dcs \cup {0}, k : Nat]

SendersTyped ==
    /\ closed \in BOOLEAN /\ failure \in BOOLEAN
    /\ destroying \in {"none", "waits", "failed", "done"}
    /\ sender \in Seq(SenderRecord) /\ sender # <<>>
    /\ slot \in [Dcs -> SlotRecord]
    /\ caller \in [Callers -> CallerRecord]

(* A slot names a sender of its data centre, which is never the main one;  *)
(* one that was not retired is opening or open.                            *)
SlotsKnown ==
    /\ \A k \in Bot!Senders : k # 1 => sender[k].dc \in Dcs
    /\ \A d \in Dcs : slot[d].record # 0 =>
           /\ slot[d].record \in Bot!Senders \ {1}
           /\ sender[slot[d].record].dc = d
    /\ \A d \in Dcs : slot[d].step = "connecting" => slot[d].record # 0
    /\ \A k \in Bot!Senders : ~sender[k].error <=> sender[k].link \in {"opening", "open"}

(* Whoever has a sender got it when it was open.                           *)
BorrowersKnown ==
    \A c \in Callers :
        /\ caller[c].at \in {"has", "sent"} =>
               /\ caller[c].k \in Bot!Senders
               /\ sender[caller[c].k].link # "opening"
        /\ caller[c].at = "borrows" => caller[c].dc \in Dcs

(* destroy retires every sender, and none is made after it.                *)
EndKnown ==
    /\ destroying # "none" => closed
    /\ closed => \A k \in Bot!Senders : sender[k].error
    /\ destroying = "done" =>
           /\ \A k \in Bot!Senders : sender[k].link = "closed"
           /\ \A d \in Dcs : slot[d].step = "none"

SendersInv ==
    /\ SendersTyped /\ SlotsKnown /\ BorrowersKnown /\ EndKnown
    /\ Bot!OneSender /\ Bot!NobodyWaits

(* A function on the positions of a sequence is a sequence as long.        *)
LEMMA SameLength ==
    ASSUME NEW S, NEW s \in Seq(S), NEW f \in [DOMAIN s -> S]
    PROVE  f \in Seq(S) /\ DOMAIN f = DOMAIN s /\ Len(f) = Len(s)
    BY LenProperties, SeqDef

(* One field of one record is set.                                         *)
LEMMA SetLink ==
    ASSUME NEW s, NEW k, s[k] \in SenderRecord, NEW x
    PROVE  [s EXCEPT ![k].link = x]
           = [s EXCEPT ![k] = [dc |-> s[k].dc, error |-> s[k].error, link |-> x]]
<1>1. \A r \in SenderRecord :
         [r EXCEPT !.link = x] = [dc |-> r.dc, error |-> r.error, link |-> x]
    BY DEF SenderRecord
<1> QED BY <1>1, Zenon

LEMMA SetStep ==
    ASSUME NEW s \in [Dcs -> SlotRecord], NEW d \in Dcs, NEW x
    PROVE  [s EXCEPT ![d].step = x]
           = [s EXCEPT ![d] = [record |-> s[d].record, step |-> x, auth |-> s[d].auth]]
<1>1. \A r \in SlotRecord :
         [r EXCEPT !.step = x] = [record |-> r.record, step |-> x, auth |-> r.auth]
    BY DEF SlotRecord
<1> QED BY <1>1, Zenon

LEMMA SetAt ==
    ASSUME NEW s \in [Callers -> CallerRecord], NEW c \in Callers, NEW x
    PROVE  [s EXCEPT ![c].at = x] = [s EXCEPT ![c] = [at |-> x, dc |-> s[c].dc, k |-> s[c].k]]
<1>1. \A r \in CallerRecord : [r EXCEPT !.at = x] = [at |-> x, dc |-> r.dc, k |-> r.k]
    BY DEF CallerRecord
<1> QED BY <1>1, Zenon

LEMMA SendersAre ==
    ASSUME SendersTyped
    PROVE  /\ Len(sender) \in Nat \ {0} /\ Bot!Senders = 1..Len(sender)
           /\ sender \in [Bot!Senders -> SenderRecord] /\ 1 \in Bot!Senders
           /\ Bot!Senders = DOMAIN sender
BY LenProperties, EmptySeq DEF SendersTyped, Bot!Senders

LEMMA RetiredIs ==
    ASSUME SendersTyped, NEW ks
    PROVE  LET s == Bot!Retired(ks) IN
           /\ s \in Seq(SenderRecord) /\ s # <<>> /\ DOMAIN s = Bot!Senders
           /\ \A k \in Bot!Senders :
                 /\ s[k].dc = sender[k].dc
                 /\ s[k].error <=> (k \in ks \/ sender[k].error)
                 /\ s[k].link = IF k \in ks /\ sender[k].link \in {"opening", "open"}
                                THEN "closing" ELSE sender[k].link
<1> DEFINE s == Bot!Retired(ks)
<1>0. sender \in [Bot!Senders -> SenderRecord] /\ Bot!Senders = DOMAIN sender
      /\ 1 \in Bot!Senders /\ sender \in Seq(SenderRecord)
    BY SendersAre DEF SendersTyped
<1>1. s = [k \in Bot!Senders |-> IF k \in ks
             THEN [dc |-> sender[k].dc, error |-> TRUE,
                   link |-> IF sender[k].link \in {"opening", "open"}
                            THEN "closing" ELSE sender[k].link]
             ELSE sender[k]]
    BY <1>0 DEF Bot!Retired
<1>2. s \in [Bot!Senders -> SenderRecord]
    BY <1>0, <1>1 DEF SenderRecord, Links
<1>3. s \in Seq(SenderRecord) /\ DOMAIN s = Bot!Senders
    BY <1>0, <1>2, SameLength
<1>4. s # <<>>
    BY <1>0, <1>3
<1>5. \A k \in Bot!Senders :
         /\ s[k].dc = sender[k].dc
         /\ s[k].link = IF k \in ks /\ sender[k].link \in {"opening", "open"}
                        THEN "closing" ELSE sender[k].link
    BY <1>0, <1>1 DEF SenderRecord
<1>6. \A k \in Bot!Senders : s[k].error <=> (k \in ks \/ sender[k].error)
    BY <1>1, <1>0 DEF SenderRecord
<1> QED BY <1>3, <1>4, <1>5, <1>6

LEMMA RejectedIs ==
    ASSUME SendersTyped, NEW ks
    PROVE  LET r == Bot!Rejected(ks) IN
           /\ r \in [Callers -> CallerRecord]
           /\ \A c \in Callers :
                 /\ r[c].dc = caller[c].dc /\ r[c].k = caller[c].k
                 /\ r[c].at = IF caller[c].at = "sent" /\ caller[c].k \in ks
                              THEN "failed" ELSE caller[c].at
BY DEF SendersTyped, Bot!Rejected, CallerRecord

LEMMA SettledIs ==
    ASSUME SendersTyped, NEW d \in Dcs, NEW k \in Nat
    PROVE  LET r == Bot!Settled(d, k)
               for(c) == caller[c].at = "borrows" /\ caller[c].dc = d
           IN
           /\ r \in [Callers -> CallerRecord]
           /\ \A c \in Callers :
                 /\ ~for(c) => r[c] = caller[c]
                 /\ for(c) => /\ r[c].at = IF k = 0 THEN "failed" ELSE "has"
                              /\ r[c].k = k
<1> DEFINE r == Bot!Settled(d, k)
<1>1. r = [c \in Callers |-> IF caller[c].at = "borrows" /\ caller[c].dc = d
             THEN [at |-> IF k = 0 THEN "failed" ELSE "has", dc |-> caller[c].dc, k |-> k]
             ELSE caller[c]]
    BY DEF SendersTyped, Bot!Settled, CallerRecord
<1> QED BY <1>1 DEF SendersTyped, CallerRecord

(* Senders are retired, and whoever waits for them is told: by lost and by *)
(* destroy.  The slots keep their senders.                                 *)
RetireStep(ks) ==
    /\ sender' = Bot!Retired(ks) /\ caller' = Bot!Rejected(ks)
    /\ slot' \in [Dcs -> SlotRecord]
    /\ \A d \in Dcs : slot'[d].record = slot[d].record /\ slot'[d].step = slot[d].step
    /\ failure' \in BOOLEAN
    /\ \/ closed' = closed /\ destroying' = destroying
       \/ closed' = TRUE /\ destroying' = "waits" /\ Bot!Senders \subseteq ks

LEMMA RetireKeeps ==
    ASSUME SendersInv, NEW ks, RetireStep(ks)
    PROVE  SendersInv'
<1> USE DEF SendersInv
<1>1. /\ sender' \in Seq(SenderRecord) /\ sender' # <<>> /\ Bot!Senders' = Bot!Senders
      /\ \A k \in Bot!Senders :
            /\ sender'[k].dc = sender[k].dc
            /\ sender'[k].error <=> (k \in ks \/ sender[k].error)
            /\ sender'[k].link = IF k \in ks /\ sender[k].link \in {"opening", "open"}
                                 THEN "closing" ELSE sender[k].link
    BY RetiredIs DEF RetireStep, Bot!Senders
<1>2. /\ caller' \in [Callers -> CallerRecord]
      /\ \A c \in Callers :
            /\ caller'[c].dc = caller[c].dc /\ caller'[c].k = caller[c].k
            /\ caller'[c].at = IF caller[c].at = "sent" /\ caller[c].k \in ks
                               THEN "failed" ELSE caller[c].at
    BY RejectedIs DEF RetireStep
<1>3. \A d \in Dcs : slot'[d].record = slot[d].record /\ slot'[d].step = slot[d].step
    BY DEF RetireStep
<1>4. SendersTyped'
    BY <1>1, <1>2 DEF SendersTyped, RetireStep
<1>5. SlotsKnown'
    BY <1>1, <1>3 DEF SlotsKnown
<1>6. BorrowersKnown'
    BY <1>1, <1>2 DEF BorrowersKnown
<1>7. EndKnown'
    BY <1>1, <1>3 DEF EndKnown, RetireStep
<1>8. Bot!OneSender'
    BY <1>1, <1>3, SendersAre DEF Bot!OneSender, Bot!Main, SlotsKnown
<1>9. Bot!NobodyWaits'
    BY <1>2, <1>1, <1>3 DEF Bot!NobodyWaits, BorrowersKnown
<1> QED BY <1>4, <1>5, <1>6, <1>7, <1>8, <1>9

LEMMA Refused ==
    ASSUME NEW s \in [Dcs -> SlotRecord], NEW d \in Dcs, NEW auth \in BOOLEAN
    PROVE  [s EXCEPT ![d].auth = @ \/ auth]
           = [s EXCEPT ![d] = [record |-> s[d].record, step |-> s[d].step,
                               auth |-> s[d].auth \/ auth]]
<1>1. \A r \in SlotRecord :
         [r EXCEPT !.auth = @ \/ auth]
         = [record |-> r.record, step |-> r.step, auth |-> r.auth \/ auth]
    BY DEF SlotRecord
<1> QED BY <1>1 DEF SlotRecord

(* What lost does.                                                         *)
LEMMA LoseMoves ==
    ASSUME SendersInv, NEW k \in Bot!Senders, NEW auth \in BOOLEAN, Bot!Lose(k, auth),
           UNCHANGED <<closed, destroying>>
    PROVE  UNCHANGED <<closed, failure, sender, slot, caller, destroying>> \/ \E ks : RetireStep(ks)
<1> USE DEF SendersInv
<1>1. CASE closed \/ sender[k].error
    BY <1>1 DEF Bot!Lose
<1>2. CASE ~(closed \/ sender[k].error) /\ k = 1
    BY <1>2 DEF Bot!Lose, Bot!Retire, Bot!Main, RetireStep, SendersTyped
<1>3. CASE ~(closed \/ sender[k].error) /\ k # 1 /\ ~Bot!Own(k)
    BY <1>3 DEF Bot!Lose, Bot!Main
<1>4. CASE ~(closed \/ sender[k].error) /\ k # 1 /\ Bot!Own(k)
    <2> DEFINE d == sender[k].dc
    <2>1. d \in Dcs
        BY <1>4 DEF SlotsKnown
    <2>2. /\ sender' = Bot!Retired({k}) /\ caller' = Bot!Rejected({k}) /\ failure' = failure
          /\ slot' = [slot EXCEPT ![d].auth = @ \/ auth]
        BY <1>4 DEF Bot!Lose, Bot!Retire, Bot!Main
    <2>3. slot' = [slot EXCEPT ![d] = [record |-> slot[d].record, step |-> slot[d].step,
                                       auth |-> slot[d].auth \/ auth]]
        <3>1. slot \in [Dcs -> SlotRecord]
            BY DEF SendersTyped
        <3>2. [slot EXCEPT ![d].auth = @ \/ auth]
              = [slot EXCEPT ![d] = [record |-> slot[d].record, step |-> slot[d].step,
                                     auth |-> slot[d].auth \/ auth]]
            BY <2>1, <3>1, Refused
        <3> QED BY <2>2, <3>2
    <2>4. slot[d].auth \in BOOLEAN /\ slot \in [Dcs -> SlotRecord]
        BY <2>1 DEF SendersTyped, SlotRecord
    <2>5. (slot[d].auth \/ auth) \in BOOLEAN
        BY <2>4
    <2>6. /\ slot' \in [Dcs -> SlotRecord]
          /\ \A e \in Dcs : slot'[e].record = slot[e].record /\ slot'[e].step = slot[e].step
        BY <2>1, <2>3, <2>4, <2>5 DEF SlotRecord
    <2>7. RetireStep({k})
        BY <2>2, <2>6 DEF RetireStep, SendersTyped
    <2> QED BY <2>7
<1> QED BY <1>1, <1>2, <1>3, <1>4

(* A link moves on: a connection opens, or a cleanup ends.                 *)
LEMMA LinkKeeps ==
    ASSUME SendersInv, NEW k \in Bot!Senders, NEW l \in Links,
           sender' = [sender EXCEPT ![k] =
                         [dc |-> sender[k].dc, error |-> sender[k].error, link |-> l]],
           \/ sender[k].link = "closing" /\ l \in {"closed", "stuck"}
           \/ sender[k].link = "opening" /\ l = "open" /\ ~sender[k].error /\ ~closed,
           UNCHANGED <<closed, failure, slot, caller, destroying>>
    PROVE  SendersInv'
    BY SendersAre, SameLength DEF SendersInv, SendersTyped, SenderRecord, Bot!Senders, SlotsKnown,
        BorrowersKnown, EndKnown, Bot!OneSender, Bot!Main, Bot!NobodyWaits

(* One caller is told, and the slots and senders stay.                     *)
LEMMA CallerKeeps ==
    ASSUME SendersInv, NEW c \in Callers, NEW r \in CallerRecord,
           caller' = [caller EXCEPT ![c] = r],
           r.at = "borrows" => r.dc \in Dcs /\ slot[r.dc].step # "none" /\ ~closed,
           r.at \in {"has", "sent"} => r.k \in Bot!Senders /\ sender[r.k].link # "opening",
           r.at = "sent" => ~sender[r.k].error,
           UNCHANGED <<closed, failure, sender, slot, destroying>>
    PROVE  SendersInv'
    BY DEF SendersInv, SendersTyped, SlotsKnown, Bot!OneSender, Bot!Senders, BorrowersKnown,
        EndKnown, Bot!NobodyWaits

LEMMA BorrowKeeps ==
    ASSUME SendersInv, NEW c \in Callers, NEW d \in Dcs, Bot!Borrow(c, d)
    PROVE  SendersInv'
<1> USE DEF SendersInv
<1> DEFINE k == slot[d].record
           waits == [at |-> "borrows", dc |-> d, k |-> 0]
<1>0. /\ caller[c] \in CallerRecord /\ waits \in CallerRecord
      /\ caller[c].at = "none" /\ ~closed /\ ~failure
      /\ UNCHANGED <<closed, failure, destroying>>
    BY DEF SendersTyped, Bot!Borrow, Bot!Active, CallerRecord
<1>1. CASE slot[d].auth
    <2>1. caller' = [caller EXCEPT ![c] = [at |-> "failed", dc |-> caller[c].dc, k |-> caller[c].k]]
        BY <1>1 DEF Bot!Borrow, SendersTyped, CallerRecord
    <2>2. [at |-> "failed", dc |-> caller[c].dc, k |-> caller[c].k] \in CallerRecord
        BY <1>0 DEF CallerRecord
    <2>3. UNCHANGED <<sender, slot>>
        BY <1>1 DEF Bot!Borrow
    <2> QED BY <1>0, <2>1, <2>2, <2>3, CallerKeeps
<1>2. CASE ~slot[d].auth /\ slot[d].step # "none"
    BY <1>2, <1>0, CallerKeeps DEF Bot!Borrow, Bot!Wait
<1>3. CASE ~slot[d].auth /\ slot[d].step = "none" /\ k # 0 /\ Bot!Up(k)
    <2>1. caller' = [caller EXCEPT ![c] = [at |-> "has", dc |-> d, k |-> k]] /\ UNCHANGED <<sender, slot>>
        BY <1>3 DEF Bot!Borrow
    <2>2. [at |-> "has", dc |-> d, k |-> k] \in CallerRecord /\ k \in Bot!Senders /\ sender[k].link = "open"
        BY <1>3 DEF Bot!Up, SlotsKnown, CallerRecord, SendersTyped, SlotRecord
    <2> QED BY <1>0, <2>1, <2>2, CallerKeeps
<1>4. CASE ~slot[d].auth /\ slot[d].step = "none" /\ ~(k # 0 /\ Bot!Up(k))
    <2> DEFINE ks == IF k # 0 THEN {k} ELSE {}
    <2>1. /\ slot' = [slot EXCEPT ![d].step = "cleaning"]
          /\ caller' = [caller EXCEPT ![c] = waits]
          /\ sender' = IF k # 0 THEN Bot!Retired({k}) ELSE sender
        BY <1>4 DEF Bot!Borrow, Bot!Wait
    <2>2. slot' = [slot EXCEPT ![d] = [record |-> k, step |-> "cleaning", auth |-> slot[d].auth]]
        BY <2>1, SetStep, Zenon DEF SendersTyped
    <2>3. /\ slot' \in [Dcs -> SlotRecord]
          /\ \A e \in Dcs : /\ slot'[e].record = slot[e].record
                            /\ slot'[e].step = IF e = d THEN "cleaning" ELSE slot[e].step
        BY <2>2 DEF SendersTyped, SlotRecord
    <2>4. /\ sender' \in Seq(SenderRecord) /\ sender' # <<>> /\ Bot!Senders' = Bot!Senders
          /\ \A j \in Bot!Senders :
                /\ sender'[j].dc = sender[j].dc
                /\ sender'[j].error <=> (j \in ks \/ sender[j].error)
                /\ sender'[j].link = IF j \in ks /\ sender[j].link \in {"opening", "open"}
                                     THEN "closing" ELSE sender[j].link
        BY <2>1, RetiredIs DEF Bot!Senders, SendersTyped
    <2>5. \A b \in Callers : caller'[b] = IF b = c THEN waits ELSE caller[b]
        BY <2>1 DEF SendersTyped
    <2>6. SendersTyped'
        BY <1>0, <2>1, <2>3, <2>4 DEF SendersTyped
    <2>7. \A j \in Bot!Senders : ~sender'[j].error <=> sender'[j].link \in {"opening", "open"}
        <3> SUFFICES ASSUME NEW j \in Bot!Senders
                     PROVE  ~sender'[j].error <=> sender'[j].link \in {"opening", "open"}
            OBVIOUS
        <3>1. /\ sender'[j].error <=> (j \in ks \/ sender[j].error)
              /\ sender'[j].link = IF j \in ks /\ sender[j].link \in {"opening", "open"}
                                   THEN "closing" ELSE sender[j].link
              /\ ~sender[j].error <=> sender[j].link \in {"opening", "open"}
            BY <2>4 DEF SlotsKnown
        <3> HIDE DEF ks
        <3>2. CASE j \in ks
            BY <3>1, <3>2
        <3>3. CASE j \notin ks
            BY <3>1, <3>3
        <3> QED BY <3>2, <3>3
    <2>8. SlotsKnown'
        BY <2>3, <2>4, <2>7 DEF SlotsKnown
    <2>9. BorrowersKnown'
        BY <1>0, <2>4, <2>5 DEF BorrowersKnown
    <2>10. EndKnown'
        BY <1>0 DEF EndKnown
    <2>11. Bot!OneSender'
        BY <2>3, <2>4 DEF Bot!OneSender, Bot!Main, SlotsKnown
    <2>12. Bot!NobodyWaits'
        BY <2>3, <2>5, <1>4, <1>0, <2>4 DEF Bot!NobodyWaits, BorrowersKnown, SlotsKnown, Bot!Up,
            Bot!Usable, Bot!Active
    <2> QED BY <2>6, <2>8, <2>9, <2>10, <2>11, <2>12
<1> QED BY <1>1, <1>2, <1>3, <1>4

(* A borrowing ends: those who wait for it get the sender, or an error.    *)
LEMMA SettleKeeps ==
    ASSUME SendersInv, NEW d \in Dcs, NEW k \in Nat,
           slot' = [slot EXCEPT ![d].step = "none"], caller' = Bot!Settled(d, k),
           k # 0 => k \in Bot!Senders /\ sender[k].link # "opening",
           UNCHANGED <<closed, failure, sender, destroying>>
    PROVE  SendersInv'
<1> USE DEF SendersInv
<1>1. slot' = [slot EXCEPT ![d] = [record |-> slot[d].record, step |-> "none", auth |-> slot[d].auth]]
    BY SetStep, Zenon DEF SendersTyped
<1>2. /\ slot' \in [Dcs -> SlotRecord]
      /\ \A e \in Dcs : /\ slot'[e].record = slot[e].record
                        /\ slot'[e].step = IF e = d THEN "none" ELSE slot[e].step
    <2>1. slot \in [Dcs -> SlotRecord] /\ slot[d] \in SlotRecord
        BY DEF SendersTyped
    <2> QED BY <1>1, <2>1 DEF SlotRecord
<1>3. caller' \in [Callers -> CallerRecord]
    BY SettledIs
<1>4. \A c \in Callers :
         /\ ~(caller[c].at = "borrows" /\ caller[c].dc = d) => caller'[c] = caller[c]
         /\ caller[c].at = "borrows" /\ caller[c].dc = d =>
                /\ caller'[c].at = IF k = 0 THEN "failed" ELSE "has"
                /\ caller'[c].k = k
    BY SettledIs
<1>5. SendersTyped' /\ Bot!Senders' = Bot!Senders
    BY <1>2, <1>3 DEF SendersTyped, Bot!Senders
<1>6. SlotsKnown'
    BY <1>2, <1>5 DEF SlotsKnown
<1>7. BorrowersKnown'
    BY <1>4, <1>5 DEF BorrowersKnown
<1>8. EndKnown' /\ Bot!OneSender'
    BY <1>2, <1>5 DEF EndKnown, Bot!OneSender
<1>9. Bot!NobodyWaits'
    BY <1>2, <1>4 DEF Bot!NobodyWaits, BorrowersKnown
<1> QED BY <1>5, <1>6, <1>7, <1>8, <1>9

(* A sender is made once the one before it is closed.                      *)
LEMMA CreateKeeps ==
    ASSUME SendersInv, NEW d \in Dcs, Bot!Create(d)
    PROVE  SendersInv'
<1> USE DEF SendersInv
<1> DEFINE n == Len(sender) + 1
           new == [dc |-> d, error |-> FALSE, link |-> "opening"]
<1>0. /\ slot[d].step = "cleaning" /\ ~closed /\ Bot!Replaced(d)
      /\ sender' = Append(sender, new)
      /\ slot' = [slot EXCEPT ![d] = [record |-> n, step |-> "connecting", auth |-> slot[d].auth]]
      /\ UNCHANGED <<closed, failure, caller, destroying>>
    BY DEF Bot!Create, Bot!Active
<1>1. new \in SenderRecord /\ sender \in Seq(SenderRecord) /\ Len(sender) \in Nat \ {0}
      /\ Bot!Senders = 1..Len(sender)
    BY SendersAre DEF SenderRecord, Links, SendersTyped
<1>2. /\ sender' \in Seq(SenderRecord) /\ Len(sender') = n /\ sender' # <<>>
      /\ sender'[n] = new /\ \A j \in Bot!Senders : sender'[j] = sender[j]
    BY <1>0, <1>1
<1>3. Bot!Senders' = Bot!Senders \cup {n} /\ n \notin Bot!Senders /\ n # 1 /\ n \in Nat /\ n # 0
    BY <1>2, LenProperties, <1>1 DEF Bot!Senders
<1>4. /\ slot' \in [Dcs -> SlotRecord]
      /\ \A e \in Dcs : /\ slot'[e].record = IF e = d THEN n ELSE slot[e].record
                        /\ slot'[e].step = IF e = d THEN "connecting" ELSE slot[e].step
    BY <1>0, <1>3 DEF SendersTyped, SlotRecord
<1> HIDE DEF n
<1>5. SendersTyped'
    BY <1>0, <1>2, <1>4 DEF SendersTyped
<1>6. SlotsKnown'
    BY <1>2, <1>3, <1>4 DEF SlotsKnown
<1>7. BorrowersKnown'
    BY <1>0, <1>2, <1>3 DEF BorrowersKnown
<1>8. EndKnown'
    BY <1>0 DEF EndKnown
<1>9. Bot!OneSender'
    BY <1>1, <1>0, <1>4, <1>2, <1>3 DEF Bot!OneSender, SlotsKnown, Bot!Main, Bot!Replaced
<1>10. Bot!NobodyWaits'
    BY <1>0, <1>2, <1>4 DEF Bot!NobodyWaits, BorrowersKnown
<1> QED BY <1>5, <1>6, <1>7, <1>8, <1>9, <1>10

LEMMA SendersStep ==
    ASSUME SendersInv, [Bot!Next]_(Bot!vars)
    PROVE  SendersInv'
<1> USE DEF SendersInv
<1>1. CASE UNCHANGED Bot!vars
    BY <1>1 DEF Bot!vars, SendersTyped, SlotsKnown, BorrowersKnown, EndKnown,
                Bot!OneSender, Bot!NobodyWaits, Bot!Senders
<1>2. CASE Bot!Destroy
    BY <1>2, RetireKeeps DEF Bot!Destroy, Bot!Retire, RetireStep, SendersTyped
<1>3. CASE Bot!Destroyed
    BY <1>3 DEF Bot!Destroyed, Bot!Quiet, EndKnown, Bot!Senders, SendersTyped, SlotsKnown,
        BorrowersKnown, Bot!OneSender, Bot!NobodyWaits
<1>4. ASSUME NEW k \in Bot!Senders, Bot!Ends(k) \/ Bot!ConnectFails(k)
      PROVE  SendersInv'
    BY <1>4, RetireKeeps, LoseMoves DEF Bot!Ends, Bot!ConnectFails, SendersTyped, SlotsKnown,
        BorrowersKnown, EndKnown, Bot!OneSender, Bot!NobodyWaits, Bot!Senders
<1>5. ASSUME NEW k \in Bot!Senders, Bot!Cleaned(k)
      PROVE  SendersInv'
    <2>1. PICK l \in {"closed", "stuck"} : sender' = [sender EXCEPT ![k].link = l]
        BY <1>5 DEF Bot!Cleaned
    <2>2. sender[k].link = "closing" /\ l \in Links /\ UNCHANGED <<closed, failure, slot, caller, destroying>>
        BY <1>5 DEF Bot!Cleaned, Links
    <2>3. sender[k] \in SenderRecord
        BY SendersAre
    <2>4. sender' = [sender EXCEPT ![k] =
                        [dc |-> sender[k].dc, error |-> sender[k].error, link |-> l]]
        BY <2>1, <2>3, SetLink, Zenon
    <2> QED BY <2>2, <2>4, LinkKeeps
<1>6. ASSUME NEW k \in Bot!Senders, Bot!Opens(k)
      PROVE  SendersInv'
    <2>1. PICK l \in {"open"} : sender' = [sender EXCEPT ![k].link = l]
        BY <1>6 DEF Bot!Opens
    <2>4. /\ l \in Links /\ l = "open"
          /\ sender[k].link = "opening" /\ ~sender[k].error /\ ~closed
          /\ UNCHANGED <<closed, failure, slot, caller, destroying>>
        BY <1>6 DEF Bot!Opens, Links, Bot!Usable, Bot!Active
    <2>2. sender[k] \in SenderRecord
        BY SendersAre
    <2>3. sender' = [sender EXCEPT ![k] =
                        [dc |-> sender[k].dc, error |-> sender[k].error, link |-> l]]
        BY <2>1, <2>2, SetLink, Zenon
    <2> QED BY <2>3, <2>4, LinkKeeps
<1>7. ASSUME NEW d \in Dcs, Bot!BorrowFails(d)
      PROVE  SendersInv'
    BY <1>7, SettleKeeps DEF Bot!BorrowFails
<1>8. ASSUME NEW d \in Dcs, Bot!Connected(d)
      PROVE  SendersInv'
    BY <1>8, SettleKeeps DEF Bot!Connected, SlotsKnown, SendersTyped, SlotRecord
<1>9. ASSUME NEW c \in Callers, Bot!Send(c)
      PROVE  SendersInv'
    <2> DEFINE a == IF Bot!Usable(caller[c].k) THEN "sent" ELSE "failed"
               r == [at |-> a, dc |-> caller[c].dc, k |-> caller[c].k]
    <2>1. caller' = [caller EXCEPT ![c] = r] /\ r \in CallerRecord
        <3>1. caller' = [caller EXCEPT ![c].at = a] /\ a \in {"sent", "failed"}
            BY <1>9 DEF Bot!Send
        <3> HIDE DEF a
        <3>2. caller' = [caller EXCEPT ![c] = r]
            BY <3>1, SetAt, Zenon DEF SendersTyped
        <3> QED BY <3>1, <3>2 DEF SendersTyped, CallerRecord
    <2>2. r.k \in Bot!Senders /\ sender[r.k].link # "opening"
        BY <1>9 DEF Bot!Send, BorrowersKnown
    <2>3. r.at = "sent" => ~sender[r.k].error
        BY DEF Bot!Usable
    <2>4. r.at # "borrows" /\ UNCHANGED <<closed, failure, sender, slot, destroying>>
        BY <1>9 DEF Bot!Send
    <2> HIDE DEF r
    <2> QED BY <2>1, <2>2, <2>3, <2>4, CallerKeeps
<1>10. ASSUME NEW c \in Callers, Bot!Answer(c)
       PROVE  SendersInv'
    <2> DEFINE r == [at |-> "none", dc |-> caller[c].dc, k |-> caller[c].k]
    <2>1. caller' = [caller EXCEPT ![c].at = "none"]
          /\ UNCHANGED <<closed, failure, sender, slot, destroying>>
        BY <1>10 DEF Bot!Answer
    <2>2. caller' = [caller EXCEPT ![c] = r]
        BY <2>1, SetAt, Zenon DEF SendersTyped
    <2>3. r \in CallerRecord /\ r.at = "none"
        BY DEF SendersTyped, CallerRecord
    <2> HIDE DEF r
    <2> QED BY <2>1, <2>2, <2>3, CallerKeeps
<1> QED BY <1>1, <1>2, <1>3, <1>4, <1>5, <1>6, <1>7, <1>8, <1>9, <1>10, BorrowKeeps, CreateKeeps
        DEF Bot!Next

(* Of every data centre at most one sender is not closed, which is the one *)
(* its slot knows; nobody waits for an answer of a sender that was lost,   *)
(* nor for one that nobody makes; and once destroy is done nothing is      *)
(* connected, borrowed or awaited.                                         *)
THEOREM SendersTheorem == Bot!Spec => [](Bot!TypeOK /\ Bot!SendersKept)
<1>1. Bot!Init => SendersInv
    <2> SUFFICES ASSUME Bot!Init PROVE SendersInv
        OBVIOUS
    <2> DEFINE new == [dc |-> 0, error |-> FALSE, link |-> "opening"]
    <2>1. sender = <<new>> /\ new \in SenderRecord
        BY DEF Bot!Init, SenderRecord, Links
    <2>2. sender \in Seq(SenderRecord) /\ sender # <<>> /\ Bot!Senders = {1} /\ sender[1] = new
        <3> HIDE DEF new
        <3> QED BY <2>1 DEF Bot!Senders
    <2>3. SendersTyped
        BY <2>2 DEF Bot!Init, SendersTyped, SlotRecord, CallerRecord
    <2> QED BY <2>2, <2>3 DEF Bot!Init, SendersInv, SlotsKnown, BorrowersKnown, EndKnown,
                              Bot!OneSender, Bot!NobodyWaits, Bot!Main
<1>2. SendersInv => Bot!TypeOK /\ Bot!SendersKept
    BY SendersAre DEF SendersInv, SendersTyped, SlotsKnown, SenderRecord, SlotRecord, CallerRecord,
        Links, Bot!TypeOK, EndKnown, Bot!DestroyedIsQuiet, BorrowersKnown, Bot!NobodyWaits,
        Bot!SendersKept
<1> QED BY <1>1, <1>2, SendersStep, PTL DEF Bot!Spec

-----------------------------------------------------------------------------
(* The bot's client.                                                       *)

(* The environment may have no credentials, and no credentials are none of *)
(* those; a restart is tried four times (telegramBotLifecycle.ts,          *)
(* botRetryDelay).                                                         *)
LifeBounds ==
    /\ None \notin Creds /\ Env \in Creds \cup {None}
    /\ MaxAttempts \in Nat /\ MaxAttempts >= 2

SettingsRecord == [web : Creds \cup {None}, on : BOOLEAN]
Changers == {"migrate", "disable", "delete", "deleted"}
OpRecord ==
    [kind : {"boot", "manual"} \cup Changers] \cup [kind : {"retry"}, gen : Nat]
    \cup [kind : {"put"}, cred : Creds, on : BOOLEAN]
RunRecord ==
    [op : OpRecord,
     at : {"stop", "stopping", "stopped", "restart", "starting", "failing", "thrown", "done"},
     goal : {"stop", "restart"}, use : Creds \cup {None}, before : SettingsRecord,
     back : BOOLEAN, error : {"none", "network", "auth", "cancelled", "blocked"}]
ClientRecord == [cred : Creds, link : {"opening", "open", "lost", "closing", "closed"}]
RetryRecord == [due : BOOLEAN, timer : Nat, gen : Nat]
States == {"stopped", "not_configured", "starting", "ready", "reconnecting", "error",
           "auth_failed"}

LifeFlags ==
    /\ aborted \in BOOLEAN /\ blocked \in BOOLEAN /\ scanning \in BOOLEAN

LifeTyped ==
    /\ saved \in SettingsRecord /\ lane \in Seq(OpRecord)
    /\ run \in RunRecord \cup {Life!Idle}
    /\ clients \in Seq(ClientRecord) /\ status \in States
    /\ attempt \in Nat /\ retry \in RetryRecord
    /\ owned \in 0..Len(clients) /\ client \in 0..Len(clients)
    /\ watch \in 0..Len(clients) /\ later \in 0..Len(clients) /\ workers \in 0..Len(clients)
    /\ runtime \in [identity : Creds \cup {None}, current : 0..Len(clients), recovering : BOOLEAN]
    /\ transfer \in [at : {"none", "uses", "waits", "failed"}, cred : Creds \cup {None},
                     k : 0..Len(clients)]

(* What an operation has stopped before it goes on.                        *)
Phase(ats) == run # Life!Idle /\ run.at \in ats
Early == {"stop", "stopping", "stopped", "restart"}

StopsFirst ==
    /\ Phase({"stopping", "stopped", "restart", "starting", "failing", "thrown", "done"}) =>
           workers = 0 /\ later = 0
    /\ Phase({"stopping", "stopped", "restart", "failing", "thrown"}) => client = 0
    /\ Phase({"stopped", "restart"}) => owned = 0
    /\ Phase({"restart"}) => ~scanning
    /\ Phase({"starting"}) =>
           owned # 0 /\ client = owned /\ clients[owned].cred = runtime.identity

(* The client is made of what the settings say, but by a migration that is *)
(* undone.                                                                 *)
ClientConfigured ==
    /\ ~Phase({"stop"}) /\ client # 0 /\ client # undone =>
           saved.on /\ clients[client].cred = Life!Effective(saved)
    /\ Phase(Early) /\ run.use # None =>
           \/ saved.on /\ run.use = Life!Effective(saved)
           \/ run.op.kind = "migrate" /\ run.back

(* The current client of the downloads has the credentials they ask for.   *)
CurrentKnown ==
    /\ runtime.current # 0 => clients[runtime.current].cred = runtime.identity
    /\ transfer.at = "uses" => transfer.k # 0

Changes == run # Life!Idle /\ run.op.kind \in Changers \cup {"put"}

(* A change of the configuration, and a retry that is due, begin with few  *)
(* attempts; nothing is due for what was begun by hand or at boot.         *)
AttemptsKnown ==
    /\ attempt <= MaxAttempts + 1
    /\ Phase(Early) => attempt <= MaxAttempts
    /\ Changes => /\ attempt <= 2
                  /\ ~run.back => attempt <= 1
                  /\ Phase(Early) => attempt <= 1 /\ (~run.back => attempt = 0)
    /\ run # Life!Idle /\ run.back => run.op.kind \in {"put", "migrate"}
    /\ retry.due => attempt <= MaxAttempts /\ (run # Life!Idle => Changes)

(* A retry in the lane that is not out of date is the one that is due.     *)
CurrentRetry(i) == lane[i].kind = "retry" /\ lane[i].gen = retry.gen
LaneKnown ==
    /\ retry.timer # 0 => /\ retry.timer = retry.gen /\ retry.due
                          /\ \A i \in 1..Len(lane) : ~CurrentRetry(i)
    /\ \A i \in 1..Len(lane) :
          /\ lane[i].kind \in {"boot", "manual"} =>
                 i = 1 /\ run = Life!Idle /\ ~retry.due /\ attempt = 0
          /\ lane[i].kind = "retry" => lane[i].gen <= retry.gen
          /\ CurrentRetry(i) => /\ retry.due
                                /\ \A j \in 1..Len(lane) : CurrentRetry(j) => j = i

LifeInv ==
    /\ LifeFlags /\ LifeTyped /\ StopsFirst /\ ClientConfigured /\ CurrentKnown
    /\ AttemptsKnown /\ LaneKnown
    /\ Life!OneBot /\ Life!WorkersOver /\ Life!OwnBot

LEMMA RunIsBusy == \A r \in RunRecord : r # Life!Idle
    BY DEF RunRecord, Life!Idle

LEMMA RunGoes ==
    ASSUME NEW r \in RunRecord,
           NEW x \in {"stop", "stopping", "stopped", "restart", "starting", "failing", "thrown", "done"}
    PROVE  LET s == [r EXCEPT !.at = x] IN
           /\ s \in RunRecord /\ s # Life!Idle /\ s.at = x /\ s.op = r.op /\ s.back = r.back
           /\ s.use = r.use /\ s.before = r.before
    BY RunIsBusy DEF RunRecord

LEMMA RunThrows ==
    ASSUME NEW r \in RunRecord, NEW x \in {"failing", "thrown"},
           NEW e \in {"none", "network", "auth", "cancelled", "blocked"}
    PROVE  LET s == [r EXCEPT !.at = x, !.error = e] IN
           /\ s \in RunRecord /\ s # Life!Idle /\ s.at = x /\ s.op = r.op /\ s.back = r.back
           /\ s.use = r.use /\ s.before = r.before
    BY RunIsBusy DEF RunRecord

LEMMA RunBegins ==
    ASSUME NEW op \in OpRecord, NEW goal \in {"stop", "restart"}, NEW use \in Creds \cup {None},
           NEW before \in SettingsRecord
    PROVE  LET s == Life!Op(op, "stop", goal, use, before) IN
           /\ s \in RunRecord /\ s # Life!Idle /\ s.at = "stop" /\ s.op = op /\ ~s.back
           /\ s.use = use /\ s.before = before
    BY RunIsBusy DEF RunRecord, Life!Op

LEMMA RunBack ==
    ASSUME NEW op \in OpRecord, NEW goal \in {"stop", "restart"}, NEW use \in Creds \cup {None},
           NEW before \in SettingsRecord
    PROVE  LET s == [Life!Op(op, "stop", goal, use, before) EXCEPT !.back = TRUE] IN
           /\ s \in RunRecord /\ s # Life!Idle /\ s.at = "stop" /\ s.op = op /\ s.back = TRUE
           /\ s.use = use /\ s.before = before
<1> DEFINE b == Life!Op(op, "stop", goal, use, before)
<1>1. b \in RunRecord /\ b.at = "stop" /\ b.op = op /\ b.use = use /\ b.before = before
    BY DEF RunRecord, Life!Op
<1> HIDE DEF b
<1>2. [b EXCEPT !.back = TRUE] \in RunRecord
    BY <1>1 DEF RunRecord
<1>3. [b EXCEPT !.back = TRUE].at = "stop" /\ [b EXCEPT !.back = TRUE].op = op
      /\ [b EXCEPT !.back = TRUE].use = use /\ [b EXCEPT !.back = TRUE].before = before
      /\ [b EXCEPT !.back = TRUE].back = TRUE
    BY <1>1 DEF RunRecord
<1> QED BY <1>2, <1>3, RunIsBusy DEF b

LEMMA ClientsAre ==
    ASSUME LifeTyped
    PROVE  /\ Len(clients) \in Nat /\ DOMAIN clients = 1..Len(clients)
           /\ \A k \in 1..Len(clients) : /\ clients[k] \in ClientRecord /\ clients[k].cred \in Creds
                                         /\ clients[k].link \in {"opening", "open", "lost", "closing", "closed"}
<1>1. clients \in Seq(ClientRecord)
    BY DEF LifeTyped
<1>2. Len(clients) \in Nat /\ DOMAIN clients = 1..Len(clients) /\ clients \in [1..Len(clients) -> ClientRecord]
    BY <1>1, LenProperties
<1> QED BY <1>2 DEF ClientRecord

(* One link changes.                                                       *)
Linked(k, x) ==
    /\ clients' \in Seq(ClientRecord) /\ Len(clients') = Len(clients)
    /\ DOMAIN clients' = 1..Len(clients)
    /\ \A i \in 1..Len(clients) :
          /\ clients'[i].cred = clients[i].cred
          /\ clients'[i].link = IF i = k THEN x ELSE clients[i].link

LEMMA LinkChanges ==
    ASSUME LifeTyped, NEW k \in 1..Len(clients),
           NEW x \in {"opening", "open", "lost", "closing", "closed"},
           clients' = [clients EXCEPT ![k].link = x]
    PROVE  Linked(k, x)
<1>1. /\ Len(clients) \in Nat /\ DOMAIN clients = 1..Len(clients) /\ clients \in Seq(ClientRecord)
      /\ \A i \in 1..Len(clients) : clients[i] \in ClientRecord
    BY ClientsAre DEF LifeTyped
<1>2. clients' = [i \in 1..Len(clients) |-> IF i = k THEN [clients[k] EXCEPT !.link = x] ELSE clients[i]]
    BY <1>1
<1>3. \A r \in ClientRecord : /\ [r EXCEPT !.link = x] \in ClientRecord /\ [r EXCEPT !.link = x].cred = r.cred
                              /\ [r EXCEPT !.link = x].link = x
    BY DEF ClientRecord
<1>4. clients' \in [1..Len(clients) -> ClientRecord]
    BY <1>1, <1>2, <1>3
<1>5. clients' \in Seq(ClientRecord) /\ DOMAIN clients' = DOMAIN clients /\ Len(clients') = Len(clients)
    BY <1>1, <1>4, SameLength
<1> QED BY <1>1, <1>2, <1>3, <1>5 DEF Linked

LEMMA ClientAppended ==
    ASSUME LifeTyped, NEW c \in Creds, clients' = Append(clients, [cred |-> c, link |-> "opening"])
    PROVE  /\ clients' \in Seq(ClientRecord) /\ Len(clients') = Len(clients) + 1
           /\ DOMAIN clients' = 1..(Len(clients) + 1)
           /\ \A i \in 1..Len(clients) : clients'[i] = clients[i]
           /\ clients'[Len(clients) + 1].cred = c /\ clients'[Len(clients) + 1].link = "opening"
    BY AppendProperties, LenProperties DEF ClientRecord, LifeTyped

-----------------------------------------------------------------------------
(* What stays as it is.                                                    *)

(* The operation goes on, and does not come back to an early step.         *)
GoesOn ==
    \/ run' = Life!Idle
    \/ /\ run # Life!Idle /\ run' # Life!Idle /\ run'.op = run.op /\ run'.back = run.back
       /\ run'.at \in Early => run.at \in Early

LEMMA AttemptsStay ==
    ASSUME LifeInv, UNCHANGED <<lane, retry, attempt>>, GoesOn \/ UNCHANGED run
    PROVE  AttemptsKnown' /\ LaneKnown'
    BY DEF LifeInv, AttemptsKnown, LaneKnown, Changes, Phase, CurrentRetry, GoesOn, Life!Idle

ClientParts ==
    /\ StopsFirst /\ ClientConfigured /\ CurrentKnown /\ Life!OneBot /\ Life!WorkersOver /\ Life!OwnBot

(* Nothing opens again.                                                    *)
Fade ==
    /\ Len(clients') = Len(clients) /\ DOMAIN clients' = 1..Len(clients)
    /\ \A i \in 1..Len(clients) :
          /\ clients'[i].cred = clients[i].cred
          /\ clients'[i].link # "closed" => clients[i].link # "closed"
          /\ clients'[i].link \in {"opening", "open"} => clients[i].link \in {"opening", "open"}

LEMMA SameFades ==
    ASSUME LifeTyped, UNCHANGED clients
    PROVE  Fade /\ clients' \in Seq(ClientRecord)
BY ClientsAre DEF Fade, LifeTyped

LEMMA LinkFades ==
    ASSUME LifeTyped, NEW k \in 1..Len(clients),
           NEW x \in {"opening", "open", "lost", "closing", "closed"},
           clients' = [clients EXCEPT ![k].link = x],
           x = "closed" \/ clients[k].link # "closed",
           x \notin {"opening", "open"} \/ clients[k].link \in {"opening", "open"}
    PROVE  Fade /\ clients' \in Seq(ClientRecord)
<1>1. Linked(k, x)
    BY LinkChanges
<1> QED BY <1>1 DEF Linked, Fade

LEMMA FadedClients ==
    ASSUME LifeInv, Fade, UNCHANGED <<saved, client, owned, blocked, transfer>>,
           runtime'.identity = runtime.identity, runtime'.current \in {0, runtime.current}
    PROVE  CurrentKnown' /\ Life!OneBot' /\ Life!OwnBot'
<1>1. /\ runtime.current \in 0..Len(clients) /\ transfer.k \in 0..Len(clients)
      /\ Len(clients) \in Nat /\ DOMAIN clients = 1..Len(clients)
    BY ClientsAre DEF LifeInv, LifeTyped
<1>2. CurrentKnown'
    BY <1>1 DEF LifeInv, CurrentKnown, Fade
<1>3. Life!OneBot'
    BY <1>1 DEF LifeInv, Fade, Life!OneBot, Life!Alive, Life!Link
<1>4. Life!OwnBot'
    BY <1>1 DEF LifeInv, CurrentKnown, Fade, Life!OwnBot, Life!Cred
<1> QED BY <1>2, <1>3, <1>4

LEMMA ClientStays ==
    ASSUME LifeInv, UNCHANGED <<saved, run, blocked, owned, client, later, workers, scanning,
                                transfer, undone>>,
           Fade \/ UNCHANGED clients,
           runtime'.identity = runtime.identity, runtime'.current \in {0, runtime.current}
    PROVE  ClientParts'
<1> USE DEF LifeInv, ClientParts
<1>1. Fade
    BY SameFades
<1>2. /\ Len(clients) \in Nat /\ DOMAIN clients = 1..Len(clients)
      /\ owned \in 0..Len(clients) /\ client \in 0..Len(clients)
    BY ClientsAre DEF LifeTyped
<1>3. StopsFirst'
    BY <1>2, <1>1 DEF StopsFirst, Phase, Fade
<1>4. ClientConfigured'
    BY <1>1, <1>2 DEF Fade, ClientConfigured, Phase, Life!Effective
<1>5. CurrentKnown' /\ Life!OneBot' /\ Life!OwnBot'
    BY <1>1, FadedClients
<1>6. Life!WorkersOver'
    BY <1>1, <1>2 DEF Life!WorkersOver, Life!Link, Fade
<1> QED BY <1>3, <1>4, <1>5, <1>6

(* Nothing is current any more, until a retry perhaps.                     *)
LEMMA RuntimeIdles ==
    ASSUME LifeTyped, NEW b \in BOOLEAN, Life!Unavailable(b)
    PROVE  /\ runtime' \in [identity : Creds \cup {None}, current : 0..Len(clients), recovering : BOOLEAN]
           /\ runtime'.identity = runtime.identity /\ runtime'.current = 0
<1>1. 0 \in 0..Len(clients)
    BY ClientsAre
<1> QED BY <1>1 DEF Life!Unavailable, LifeTyped

RetryScheduled ==
    /\ retry' \in RetryRecord /\ retry'.gen = retry.gen
    /\ \/ retry' = retry
       \/ ~retry.due /\ retry'.due /\ retry'.timer = retry.gen /\ attempt < MaxAttempts

LEMMA Schedules ==
    ASSUME LifeInv, NEW error, Life!ScheduleRetry(error), attempt' = attempt
    PROVE  /\ RetryScheduled
           /\ runtime' \in [identity : Creds \cup {None}, current : 0..Len(clients), recovering : BOOLEAN]
           /\ runtime'.identity = runtime.identity /\ runtime'.current \in {0, runtime.current}
<1> USE DEF LifeInv
<1>1. CASE ~Life!Retryable(error)
    BY <1>1, RuntimeIdles DEF Life!ScheduleRetry, RetryScheduled, LifeTyped
<1>2. CASE Life!Retryable(error) /\ retry.due
    BY <1>2 DEF Life!ScheduleRetry, RetryScheduled, LifeTyped
<1>3. CASE Life!Retryable(error) /\ ~retry.due
    <2>1. Life!Unavailable(TRUE) /\ retry' = [retry EXCEPT !.due = TRUE, !.timer = retry.gen]
        BY <1>3 DEF Life!ScheduleRetry
    <2>2. retry' \in RetryRecord /\ retry'.gen = retry.gen /\ retry'.due /\ retry'.timer = retry.gen
        BY <2>1 DEF LifeTyped, RetryRecord
    <2>3. attempt < MaxAttempts
        BY <1>3 DEF Life!Retryable
    <2> QED BY <2>1, <2>2, <2>3, <1>3, RuntimeIdles DEF RetryScheduled
<1> QED BY <1>1, <1>2, <1>3

LEMMA LaneParts ==
    ASSUME UNCHANGED lane,
           \A i \in 1..Len(lane) : lane[i].kind \notin {"boot", "manual"},
           \A i \in 1..Len(lane) : lane[i].kind = "retry" => lane[i].gen <= retry'.gen,
           \A i \in 1..Len(lane) : CurrentRetry(i)' =>
               retry'.due /\ \A j \in 1..Len(lane) : CurrentRetry(j)' => j = i,
           retry'.timer # 0 => /\ retry'.timer = retry'.gen /\ retry'.due
                               /\ \A i \in 1..Len(lane) : ~CurrentRetry(i)'
    PROVE  LaneKnown'
BY DEF LaneKnown

LEMMA ScheduledLane ==
    ASSUME LifeBounds, LifeInv, RetryScheduled, UNCHANGED <<lane, attempt>>, run' = Life!Idle,
           run = Life!Idle => lane = <<>>
    PROVE  AttemptsKnown' /\ LaneKnown'
<1> USE DEF LifeInv, LifeBounds
<1>1. AttemptsKnown'
    BY DEF AttemptsKnown, Phase, Changes, RetryScheduled, LifeTyped
<1>2. \A i \in 1..Len(lane) : lane[i].kind \notin {"boot", "manual"}
    BY DEF LaneKnown
<1>3. \A i \in 1..Len(lane) : CurrentRetry(i)' <=> CurrentRetry(i)
    BY DEF CurrentRetry, RetryScheduled
<1>4. \A i \in 1..Len(lane) : lane[i].kind = "retry" => lane[i].gen <= retry.gen
    BY DEF LaneKnown
<1>5. CASE retry' = retry
    BY <1>3, <1>5, <1>1, <1>2, <1>4, LaneParts DEF LaneKnown
<1>6. CASE ~retry.due /\ retry'.due /\ retry'.timer = retry.gen
    BY <1>6, <1>3, <1>1, <1>2, <1>4, LaneParts DEF LaneKnown, RetryScheduled
<1> QED BY <1>1, <1>5, <1>6 DEF RetryScheduled

-----------------------------------------------------------------------------
(* The lane.                                                               *)

LEMMA LaneAppends ==
    ASSUME LifeTyped, NEW op \in OpRecord, lane' = Append(lane, op)
    PROVE  /\ lane' \in Seq(OpRecord) /\ Len(lane) \in Nat /\ Len(lane') = Len(lane) + 1
           /\ \A i \in 1..Len(lane) : lane'[i] = lane[i]
           /\ lane'[Len(lane) + 1] = op
    BY AppendProperties, LenProperties DEF LifeTyped

LEMMA LaneServed ==
    ASSUME LifeTyped, lane # <<>>, lane' = Tail(lane)
    PROVE  /\ lane' \in Seq(OpRecord) /\ Len(lane) \in Nat \ {0} /\ Len(lane') = Len(lane) - 1
           /\ \A i \in 1..Len(lane') : i + 1 \in 2..Len(lane) /\ lane'[i] = lane[i + 1]
           /\ Head(lane) = lane[1] /\ lane[1] \in OpRecord
    BY LenProperties, EmptySeq, HeadTailProperties DEF LifeTyped

(* Another operation waits, for which every retry is called off.           *)
LEMMA LaneGrows ==
    ASSUME LifeBounds, LifeInv, NEW op \in OpRecord, lane' = Append(lane, op), op.kind \notin {"boot", "retry"},
           retry' = Life!Cancelled, UNCHANGED run,
           op.kind = "manual" => lane = <<>> /\ run = Life!Idle /\ attempt' = 0,
           \/ attempt' = attempt
           \/ attempt' = 0 /\ run = Life!Idle
    PROVE  AttemptsKnown' /\ LaneKnown' /\ retry' \in RetryRecord
<1> USE DEF LifeInv
<1>1. /\ lane' \in Seq(OpRecord) /\ Len(lane) \in Nat /\ Len(lane') = Len(lane) + 1
      /\ \A i \in 1..Len(lane) : lane'[i] = lane[i]
      /\ lane'[Len(lane) + 1] = op
    BY LaneAppends
<1>2. retry' \in RetryRecord /\ ~retry'.due /\ retry'.timer = 0 /\ retry'.gen = retry.gen + 1
      /\ retry.gen \in Nat
    BY DEF LifeTyped, RetryRecord, Life!Cancelled
<1>3. AttemptsKnown'
    <2>1. CASE attempt' = attempt
        BY <1>2, <2>1 DEF AttemptsKnown, Phase, Changes
    <2>2. CASE attempt' = 0 /\ run = Life!Idle
        BY <1>2, <2>2 DEF AttemptsKnown, Phase, Changes, LifeBounds
    <2> QED BY <2>1, <2>2
<1>4. \A i \in 1..Len(lane) : lane[i].kind = "retry" => lane[i].gen \in Nat /\ lane[i].gen <= retry.gen
    <2> SUFFICES ASSUME NEW i \in 1..Len(lane), lane[i].kind = "retry"
                 PROVE  lane[i].gen \in Nat /\ lane[i].gen <= retry.gen
        OBVIOUS
    <2>1. lane[i] \in OpRecord
        BY <1>1 DEF LifeTyped
    <2>2. lane[i].gen \in Nat
        BY <2>1 DEF OpRecord, Changers
    <2> QED BY <2>2 DEF LaneKnown
<1>5. \A i \in 1..Len(lane') : /\ lane'[i].kind = "retry" => lane'[i].gen <= retry'.gen
                               /\ ~CurrentRetry(i)'
    BY <1>2, <1>1, <1>4 DEF CurrentRetry
<1>6. \A i \in 1..Len(lane') : lane'[i].kind \in {"boot", "manual"} =>
          i = 1 /\ run = Life!Idle /\ ~retry'.due /\ attempt' = 0
    BY <1>2, <1>1 DEF LaneKnown
<1>7. LaneKnown'
    BY <1>2, <1>5, <1>6 DEF LaneKnown
<1> QED BY <1>2, <1>3, <1>7

LEMMA RequestKeeps ==
    ASSUME LifeBounds, LifeInv, NEW op \in OpRecord, op.kind \notin {"boot", "retry", "manual"},
           Life!Request(op)
    PROVE  LifeInv'
    BY LaneGrows, ClientStays, LaneAppends DEF LifeInv, Life!Request, Life!body, Life!face,
        Life!timers, Life!work, LifeFlags, LifeTyped, ClientParts

LEMMA RequestsKeep ==
    ASSUME LifeBounds, LifeInv,
           \/ \E c \in Creds, on \in BOOLEAN : Life!Put(c, on)
           \/ Life!Migrate \/ Life!Disable \/ Life!Delete
    PROVE  LifeInv'
    BY RequestKeeps DEF OpRecord, Changers, Life!Put, Life!Migrate, Life!Disable, Life!Delete

LEMMA ManualRetryKeeps ==
    ASSUME LifeBounds, LifeInv, Life!ManualRetry
    PROVE  LifeInv'
<1> USE DEF LifeInv
<1>1. /\ lane' = Append(lane, [kind |-> "manual"]) /\ retry' = Life!Cancelled /\ attempt' = 0
      /\ lane = <<>> /\ run = Life!Idle
      /\ UNCHANGED <<saved, run, aborted, blocked, owned, clients, client, status, runtime, watch,
                     later, workers, scanning, transfer, undone>>
    BY DEF Life!ManualRetry, Life!Busy, Life!body, Life!face, Life!timers, Life!work
<1>2. [kind |-> "manual"] \in OpRecord
    BY DEF OpRecord
<1>3. AttemptsKnown' /\ LaneKnown' /\ retry' \in RetryRecord
    BY <1>1, <1>2, LaneGrows
<1>4. ClientParts'
    BY <1>1, ClientStays
<1>5. LifeFlags' /\ LifeTyped'
    BY <1>1, <1>2, <1>3, LaneAppends DEF LifeFlags, LifeTyped
<1> QED BY <1>3, <1>4, <1>5 DEF ClientParts

LEMMA RetryFiresKeeps ==
    ASSUME LifeBounds, LifeInv, Life!RetryFires
    PROVE  LifeInv'
<1> USE DEF LifeInv
<1> DEFINE op == [kind |-> "retry", gen |-> retry.timer]
<1>1. /\ lane' = Append(lane, op) /\ retry' = [retry EXCEPT !.timer = 0] /\ retry.timer # 0
      /\ UNCHANGED <<saved, run, aborted, blocked, owned, clients, client, status, runtime, watch,
                     later, workers, scanning, transfer, undone, attempt>>
    BY DEF Life!RetryFires, Life!desk, Life!body, Life!face, Life!timers, Life!work
<1>2. /\ retry' \in RetryRecord /\ retry'.timer = 0 /\ retry'.due = retry.due
      /\ retry'.gen = retry.gen /\ retry.timer \in Nat /\ retry.gen \in Nat
    BY <1>1 DEF LifeTyped, RetryRecord
<1>3. op \in OpRecord /\ op.kind = "retry" /\ op.gen = retry.gen
    BY <1>1, <1>2 DEF OpRecord, LaneKnown
<1> HIDE DEF op
<1>4. /\ lane' \in Seq(OpRecord) /\ Len(lane) \in Nat /\ Len(lane') = Len(lane) + 1
      /\ \A i \in 1..Len(lane) : lane'[i] = lane[i]
      /\ lane'[Len(lane) + 1] = op
    BY <1>1, <1>3, LaneAppends
<1>5. retry.due /\ \A i \in 1..Len(lane) : ~CurrentRetry(i)
    BY <1>1 DEF LaneKnown
<1>6. LaneKnown'
    BY <1>2, <1>4, <1>5, <1>3, <1>1 DEF CurrentRetry, LaneKnown
<1>7. AttemptsKnown'
    BY <1>1, <1>2 DEF AttemptsKnown, Phase, Changes
<1>8. ClientParts'
    BY <1>1, ClientStays
<1>9. LifeFlags' /\ LifeTyped'
    BY <1>1, <1>2, <1>4 DEF LifeFlags, LifeTyped
<1> QED BY <1>6, <1>7, <1>8, <1>9 DEF ClientParts

(* What waited longest begins, or is out of date.                          *)
Skipped == run' = Life!Idle /\ UNCHANGED <<saved, retry, attempt>>
Begun ==
    /\ run' \in RunRecord /\ run' # Life!Idle /\ run'.at = "stop" /\ ~run'.back /\ run'.op = Head(lane)
    /\ run'.use # None => saved'.on /\ run'.use = Life!Effective(saved')
    /\ \/ Head(lane).kind \in {"boot", "manual"} /\ UNCHANGED <<saved, retry, attempt>>
       \/ /\ Head(lane).kind = "retry" /\ Head(lane).gen = retry.gen
          /\ retry' \in RetryRecord /\ ~retry'.due /\ retry'.timer = retry.timer /\ retry'.gen = retry.gen
          /\ UNCHANGED <<saved, attempt>>
       \/ Head(lane).kind \in Changers \cup {"put"} /\ retry' = retry /\ attempt' = 0

LEMMA BeginDoes ==
    ASSUME LifeBounds, LifeInv, Life!Begin
    PROVE  (Skipped \/ Begun) /\ saved' \in SettingsRecord
<1> USE DEF LifeInv
<1> DEFINE op == Head(lane)
<1>1. op \in OpRecord /\ run = Life!Idle
    BY DEF Life!Begin, LifeTyped
<1>2. /\ saved \in SettingsRecord /\ Env \in Creds \cup {None} /\ None \in Creds \cup {None}
      /\ saved.web \in Creds \cup {None} /\ saved.on \in BOOLEAN
    BY DEF LifeTyped, LifeBounds, SettingsRecord
<1>3. /\ CASE op.kind = "boot" ->
                 /\ IF Life!Connected(client) THEN run' = Life!Idle ELSE run' = Life!Restart(op, None)
                 /\ UNCHANGED <<saved, retry, attempt>>
            [] op.kind = "retry" ->
                 /\ IF op.gen # retry.gen THEN run' = Life!Idle /\ UNCHANGED retry
                    ELSE /\ run' = Life!Restart(op, None)
                         /\ retry' = [retry EXCEPT !.due = FALSE]
                 /\ UNCHANGED <<saved, attempt>>
            [] op.kind = "manual" ->
                 run' = Life!Restart(op, None) /\ UNCHANGED <<saved, retry, attempt>>
            [] op.kind = "put" ->
                 /\ saved' = [web |-> op.cred, on |-> op.on]
                 /\ run' = IF op.on THEN Life!Restart(op, op.cred) ELSE Life!Stop(op)
                 /\ attempt' = 0 /\ UNCHANGED retry
            [] op.kind = "migrate" ->
                 /\ saved' = [web |-> Env, on |-> TRUE]
                 /\ run' = Life!Restart(op, Env) /\ attempt' = 0 /\ UNCHANGED retry
            [] op.kind = "disable" ->
                 /\ saved' = [saved EXCEPT !.on = FALSE]
                 /\ run' = Life!Stop(op) /\ attempt' = 0 /\ UNCHANGED retry
            [] OTHER ->
                 run' = Life!Stop(op) /\ attempt' = 0 /\ UNCHANGED <<saved, retry>>
    BY DEF Life!Begin, Life!Over
<1> HIDE DEF op
<1>4. ASSUME NEW use \in Creds \cup {None}
      PROVE  LET r == Life!Restart(op, use) IN
             /\ r \in RunRecord /\ r # Life!Idle /\ r.at = "stop" /\ ~r.back /\ r.op = op /\ r.use = use
    BY <1>2, <1>1, <1>4, RunBegins DEF Life!Restart
<1>5. LET r == Life!Stop(op) IN
      /\ r \in RunRecord /\ r # Life!Idle /\ r.at = "stop" /\ ~r.back /\ r.op = op /\ r.use = None
    BY <1>2, <1>1, RunBegins DEF Life!Stop
<1>6. CASE op.kind = "boot"
    BY <1>2, <1>3, <1>4, <1>6 DEF Skipped, Begun, op
<1>7. CASE op.kind = "retry"
    <2>1. [retry EXCEPT !.due = FALSE] \in RetryRecord /\ ~[retry EXCEPT !.due = FALSE].due
          /\ [retry EXCEPT !.due = FALSE].timer = retry.timer /\ [retry EXCEPT !.due = FALSE].gen = retry.gen
        BY DEF LifeTyped, RetryRecord
    <2>2. CASE op.gen # retry.gen
        BY <1>2, <1>3, <1>7, <2>2 DEF Skipped
    <2>3. CASE op.gen = retry.gen
        BY <1>3, <1>7, <2>3, <1>2, <1>4, <2>1 DEF Begun, op
    <2> QED BY <2>2, <2>3
<1>8. CASE op.kind = "manual"
    BY <1>2, <1>3, <1>4, <1>8 DEF Begun, op
<1>9. CASE op.kind = "put"
    BY <1>1, <1>9, <1>3, <1>4, <1>5 DEF OpRecord, Changers, SettingsRecord, Life!Effective,
        LifeBounds, Begun, op
<1>10. CASE op.kind = "migrate"
    <2>1. /\ saved' = [web |-> Env, on |-> TRUE] /\ run' = Life!Restart(op, Env)
          /\ attempt' = 0 /\ UNCHANGED retry
        BY <1>3, <1>10
    <2>2. saved' \in SettingsRecord /\ saved'.web = Env /\ saved'.on
        BY <2>1, <1>2 DEF SettingsRecord
    <2>3. Life!Effective(saved') = Env
        BY <2>2 DEF Life!Effective
    <2> QED BY <2>1, <2>2, <2>3, <1>2, <1>4, <1>10 DEF Begun, op, Changers
<1>11. CASE op.kind = "disable"
    BY <1>3, <1>11, <1>2, <1>5 DEF SettingsRecord, Begun, op, Changers
<1>12. CASE op.kind \in {"delete", "deleted"}
    BY <1>3, <1>12, <1>2, <1>5 DEF Begun, op, Changers
<1>13. op.kind \in {"boot", "retry", "manual", "put", "migrate", "disable", "delete", "deleted"}
    BY <1>1 DEF OpRecord, Changers
<1> QED BY <1>6, <1>7, <1>8, <1>9, <1>10, <1>11, <1>12, <1>13

LEMMA ServedLane ==
    ASSUME LifeBounds, LifeInv, lane # <<>>, lane' = Tail(lane), run = Life!Idle,
           retry' \in RetryRecord, retry'.gen = retry.gen, retry'.timer = retry.timer,
           \/ retry'.due = retry.due
           \/ CurrentRetry(1) /\ ~retry'.due
    PROVE  LaneKnown'
    BY LaneServed DEF LifeInv, CurrentRetry, LaneKnown

LEMMA BeginKeeps ==
    ASSUME LifeBounds, LifeInv, Life!Begin
    PROVE  LifeInv'
<1> USE DEF LifeInv
<1>1. (Skipped \/ Begun) /\ saved' \in SettingsRecord
    BY BeginDoes
<1>2. /\ run = Life!Idle /\ lane # <<>> /\ lane' = Tail(lane) /\ aborted' = FALSE
      /\ UNCHANGED <<blocked, owned, clients, client, status, runtime, watch, later, workers,
                     scanning, transfer, undone>>
    BY DEF Life!Begin, Life!body, Life!face, Life!timers, Life!work
<1>3. /\ lane' \in Seq(OpRecord) /\ Len(lane) \in Nat \ {0} /\ Head(lane) = lane[1]
    BY <1>2, LaneServed
<1>4. retry' \in RetryRecord /\ LaneKnown'
    BY <1>2, ServedLane, <1>3, <1>1 DEF LifeTyped, Begun, CurrentRetry, Skipped
<1>5. AttemptsKnown'
    BY <1>2, <1>3, <1>1 DEF AttemptsKnown, Skipped, Phase, Changes, LaneKnown, Begun, LifeBounds,
        Changers, CurrentRetry
<1>6. ClientParts'
    BY <1>2, <1>1 DEF Life!OneBot, Life!WorkersOver, Life!OwnBot, Life!Alive, Life!Link, Life!Cred,
        CurrentKnown, StopsFirst, Phase, Skipped, Begun, ClientConfigured, Life!Effective,
        ClientParts
<1>7. attempt' \in Nat /\ run' \in RunRecord \cup {Life!Idle}
    BY <1>1 DEF LifeTyped, Skipped, Begun
<1>8. LifeFlags' /\ LifeTyped'
    BY <1>1, <1>2, <1>3, <1>4, <1>7 DEF LifeFlags, LifeTyped
<1> QED BY <1>4, <1>5, <1>6, <1>8 DEF ClientParts

LEMMA RefuseKeeps ==
    ASSUME LifeBounds, LifeInv, Life!Refuse
    PROVE  LifeInv'
<1> USE DEF LifeInv
<1>1. /\ run = Life!Idle /\ lane # <<>> /\ lane' = Tail(lane) /\ aborted' = FALSE /\ attempt' = 0
      /\ UNCHANGED <<saved, run, blocked, owned, clients, client, status, runtime, watch, later,
                     workers, scanning, transfer, undone, retry>>
    BY DEF Life!Refuse, Life!desk, Life!body, Life!face, Life!timers, Life!work
<1>2. lane' \in Seq(OpRecord) /\ retry' \in RetryRecord /\ retry' = retry
    BY <1>1, LaneServed DEF LifeTyped
<1>3. LaneKnown'
    BY <1>1, <1>2, ServedLane
<1>4. AttemptsKnown'
    BY <1>1 DEF AttemptsKnown, Phase, Changes, LifeBounds
<1>5. ClientParts'
    BY <1>1, ClientStays
<1>6. LifeFlags' /\ LifeTyped'
    BY <1>1, <1>2 DEF LifeFlags, LifeTyped
<1> QED BY <1>3, <1>4, <1>5, <1>6 DEF ClientParts

-----------------------------------------------------------------------------
(* Losses.                                                                 *)

LEMMA LostKeeps ==
    ASSUME LifeBounds, LifeInv, Life!Lost
    PROVE  LifeInv'
<1> USE DEF LifeInv
<1>1. PICK k \in DOMAIN clients :
         /\ Life!Link(k) = "open" /\ clients' = [clients EXCEPT ![k].link = "lost"]
         /\ IF client = k /\ ~Life!Busy
            THEN status' = "reconnecting" /\ Life!ScheduleRetry("network")
            ELSE UNCHANGED <<status, runtime, retry>>
    BY DEF Life!Lost
<1>2. UNCHANGED <<saved, run, lane, aborted, blocked, owned, client, watch, later, workers,
                  scanning, transfer, undone, attempt>>
    BY DEF Life!Lost, Life!desk, Life!timers, Life!work
<1>3. k \in 1..Len(clients)
    BY ClientsAre
<1>4. Fade /\ clients' \in Seq(ClientRecord)
    BY <1>1, <1>3, LinkFades DEF Life!Link
<1>5. /\ RetryScheduled /\ status' \in States
      /\ runtime' \in [identity : Creds \cup {None}, current : 0..Len(clients), recovering : BOOLEAN]
      /\ runtime'.identity = runtime.identity /\ runtime'.current \in {0, runtime.current}
      /\ AttemptsKnown' /\ LaneKnown'
    BY <1>1, <1>2, Schedules, ScheduledLane, AttemptsStay DEF Life!Busy, States, RetryScheduled,
        LifeTyped
<1>6. ClientParts'
    BY <1>2, <1>4, <1>5, ClientStays
<1>7. LifeFlags' /\ LifeTyped'
    BY <1>2, <1>4, <1>5 DEF LifeFlags, LifeTyped, Fade, RetryScheduled
<1> QED BY <1>5, <1>6, <1>7 DEF ClientParts

LEMMA WatchedKeeps ==
    ASSUME LifeBounds, LifeInv, Life!Watched
    PROVE  LifeInv'
    BY Schedules, ScheduledLane, ClientStays, ClientsAre DEF LifeInv, Life!Watched, Life!Busy,
        Life!desk, Life!body, Life!work, LifeFlags, LifeTyped, States, RetryScheduled, ClientParts

(* A connection is made, or a socket is closed.                            *)
LEMMA ClientLinkKeeps ==
    ASSUME LifeInv, Fade, clients' \in Seq(ClientRecord),
           UNCHANGED <<saved, lane, run, aborted, blocked, owned, client, status, runtime, attempt,
                       retry, watch, later, workers, scanning, transfer, undone>>
    PROVE  LifeInv'
    BY AttemptsStay, ClientStays DEF LifeInv, LifeFlags, LifeTyped, Fade, ClientParts

LEMMA AuthorizedKeeps ==
    ASSUME LifeInv, Life!Authorized
    PROVE  LifeInv'
<1> USE DEF LifeInv
<1>1. Phase({"starting"}) /\ clients[owned].link = "opening"
      /\ clients' = [clients EXCEPT ![owned].link = "open"]
    BY DEF Life!Authorized, Life!At, Life!Link, Phase
<1>2. owned \in 1..Len(clients)
    BY <1>1, ClientsAre DEF StopsFirst, LifeTyped
<1>3. Fade /\ clients' \in Seq(ClientRecord)
    BY <1>1, <1>2, LinkFades
<1> QED BY <1>3, ClientLinkKeeps DEF Life!Authorized, Life!desk, Life!face, Life!timers, Life!work

LEMMA CloseKeeps ==
    ASSUME LifeInv, Life!Close
    PROVE  LifeInv'
    BY LinkFades, ClientsAre, ClientLinkKeeps DEF LifeInv, Life!Close, Life!desk, Life!face,
        Life!timers, Life!work

-----------------------------------------------------------------------------
(* The stop.                                                               *)

LEMMA BeginStopKeeps ==
    ASSUME LifeInv, Life!BeginStop
    PROVE  LifeInv'
<1> USE DEF LifeInv
<1>1. /\ run \in RunRecord /\ run # Life!Idle /\ run.at = "stop" /\ run' = [run EXCEPT !.at = "stopping"]
      /\ watch' = 0 /\ later' = 0 /\ workers' = 0 /\ client' = 0
      /\ Life!Unavailable(run.goal = "restart")
      /\ clients' = IF owned # 0 /\ ~blocked /\ Life!Alive(owned)
                    THEN [clients EXCEPT ![owned].link = "closing"] ELSE clients
      /\ UNCHANGED <<saved, lane, aborted, blocked, owned, status, attempt, retry, scanning,
                     transfer, undone>>
    BY DEF Life!BeginStop, Life!At, Life!Goes, Life!desk, LifeTyped
<1>2. /\ run' \in RunRecord /\ run' # Life!Idle /\ run'.at = "stopping" /\ run'.op = run.op
      /\ run'.back = run.back /\ run'.use = run.use
    BY <1>1, RunGoes
<1>3. /\ runtime' \in [identity : Creds \cup {None}, current : 0..Len(clients), recovering : BOOLEAN]
      /\ runtime'.identity = runtime.identity /\ runtime'.current = 0
    <2>1. (run.goal = "restart") \in BOOLEAN
        BY SMT
    <2> QED BY <1>1, <2>1, RuntimeIdles
<1>4. /\ Len(clients) \in Nat /\ owned \in 0..Len(clients) /\ DOMAIN clients = 1..Len(clients)
    BY ClientsAre DEF LifeTyped
<1>5. Fade /\ clients' \in Seq(ClientRecord)
    <2>1. CASE owned # 0 /\ ~blocked /\ Life!Alive(owned)
        <3>1. owned \in 1..Len(clients) /\ clients[owned].link # "closed"
            BY <1>4, <2>1 DEF Life!Alive, Life!Link
        <3>2. clients' = [clients EXCEPT ![owned].link = "closing"]
            BY <1>1, <2>1
        <3> QED BY <3>1, <3>2, LinkFades
    <2>2. CASE ~(owned # 0 /\ ~blocked /\ Life!Alive(owned))
        BY <1>1, <2>2, SameFades
    <2> QED BY <2>1, <2>2
<1>6. AttemptsKnown' /\ LaneKnown'
    BY <1>1, <1>2, AttemptsStay DEF GoesOn, Early
<1>7. StopsFirst' /\ ClientConfigured'
    BY <1>1, <1>2 DEF StopsFirst, Phase, ClientConfigured, Early, Life!Effective
<1>8. CurrentKnown'
    BY <1>1, <1>3 DEF CurrentKnown
<1>9. Life!OneBot' /\ Life!OwnBot'
    BY <1>4, <1>1, <1>5 DEF Life!OneBot, Life!Alive, Life!Link, Fade, CurrentKnown, LifeTyped,
        Life!OwnBot, Life!Cred
<1>10. Life!WorkersOver'
    BY <1>1, <1>5, <1>4, LinkChanges DEF Life!WorkersOver, Life!Link, Fade, Life!OneBot, Life!Alive,
        Linked
<1>11. LifeFlags' /\ LifeTyped'
    BY <1>1, <1>2, <1>3, <1>4, <1>5 DEF LifeFlags, LifeTyped, Fade
<1> QED BY <1>6, <1>7, <1>8, <1>9, <1>10, <1>11

LEMMA StoppedKeeps ==
    ASSUME LifeInv, Life!Stopped
    PROVE  LifeInv'
<1> USE DEF LifeInv
<1> DEFINE next == IF run.goal = "stop" THEN "stopped" ELSE "restart"
<1>1. /\ run \in RunRecord /\ run # Life!Idle /\ run.at = "stopping" /\ run' = [run EXCEPT !.at = next]
      /\ ~blocked /\ ~scanning /\ Life!Gone /\ owned' = 0 /\ status' = "stopped"
      /\ UNCHANGED <<saved, lane, aborted, blocked, clients, client, runtime, attempt, retry, watch,
                     later, workers, scanning, transfer, undone>>
    BY DEF Life!Stopped, Life!At, Life!Goes, Life!desk, Life!timers, Life!work, LifeTyped
<1>2. next \in {"stopped", "restart"}
    OBVIOUS
<1> HIDE DEF next
<1>3. /\ run' \in RunRecord /\ run' # Life!Idle /\ run'.at = next /\ run'.op = run.op
      /\ run'.back = run.back /\ run'.use = run.use
    <2>1. CASE next = "stopped"
        <3>1. run \in RunRecord /\ run' = [run EXCEPT !.at = "stopped"]
            BY <1>1, <2>1
        <3> QED BY <2>1, <3>1, RunGoes
    <2>2. CASE next = "restart"
        <3>1. run \in RunRecord /\ run' = [run EXCEPT !.at = "restart"]
            BY <1>1, <2>2
        <3> QED BY <2>2, <3>1, RunGoes
    <2> QED BY <1>2, <2>1, <2>2
<1>4. /\ Len(clients) \in Nat /\ DOMAIN clients = 1..Len(clients)
      /\ client = 0 /\ workers = 0 /\ later = 0
    BY <1>1, ClientsAre DEF StopsFirst, Phase
<1>5. AttemptsKnown' /\ LaneKnown'
    BY <1>1, <1>2, <1>3, AttemptsStay DEF GoesOn, Early
<1>6. StopsFirst'
    BY <1>1, <1>2, <1>3, <1>4 DEF StopsFirst, Phase
<1>7. ClientConfigured'
    BY <1>1, <1>2, <1>3, <1>4 DEF ClientConfigured, Phase, Early, Life!Effective
<1>8. CurrentKnown' /\ Life!OwnBot' /\ Life!WorkersOver'
    BY <1>1, <1>4 DEF CurrentKnown, Life!OwnBot, Life!WorkersOver, Life!Link, Life!Cred
<1>9. Life!OneBot'
    BY <1>1, <1>4 DEF Life!OneBot, Life!Gone, Life!Alive, Life!Link
<1>10. LifeFlags' /\ LifeTyped'
    BY <1>1, <1>3, <1>4 DEF LifeFlags, LifeTyped, States
<1> QED BY <1>5, <1>6, <1>7, <1>8, <1>9, <1>10

LEMMA StopFailsKeeps ==
    ASSUME LifeInv, Life!StopFails
    PROVE  LifeInv'
<1> USE DEF LifeInv
<1>1. /\ run \in RunRecord /\ run # Life!Idle /\ run.at = "stopping"
      /\ run' = [run EXCEPT !.at = "thrown", !.error = "blocked"]
      /\ blocked' = TRUE /\ status' = "error" /\ Life!Unavailable(FALSE)
      /\ UNCHANGED <<saved, lane, aborted, owned, clients, client, attempt, retry, watch,
                     later, workers, scanning, transfer, undone>>
    BY DEF Life!StopFails, Life!At, Life!Throws, Life!desk, Life!body, Life!timers, Life!work, LifeTyped
<1>2. /\ run' \in RunRecord /\ run' # Life!Idle /\ run'.at = "thrown" /\ run'.op = run.op
      /\ run'.back = run.back /\ run'.use = run.use
    BY <1>1, RunThrows
<1>3. /\ runtime' \in [identity : Creds \cup {None}, current : 0..Len(clients), recovering : BOOLEAN]
      /\ runtime'.identity = runtime.identity /\ runtime'.current = 0
    BY <1>1, RuntimeIdles
<1>4. client = 0 /\ workers = 0 /\ later = 0
    BY <1>1 DEF StopsFirst, Phase
<1>5. AttemptsKnown' /\ LaneKnown'
    BY <1>1, <1>2, AttemptsStay DEF GoesOn, Early
<1>6. StopsFirst'
    BY <1>1, <1>2, <1>4 DEF StopsFirst, Phase
<1>7. ClientConfigured'
    BY <1>1, <1>2, <1>4 DEF ClientConfigured, Phase, Early, Life!Effective
<1>8. CurrentKnown' /\ Life!OwnBot' /\ Life!WorkersOver' /\ Life!OneBot'
    BY <1>1, <1>3, <1>4 DEF CurrentKnown, Life!OwnBot, Life!WorkersOver, Life!Link, Life!Cred,
                            Life!OneBot, Life!Alive
<1>9. LifeFlags' /\ LifeTyped'
    BY <1>1, <1>2, <1>3 DEF LifeFlags, LifeTyped, States
<1> QED BY <1>5, <1>6, <1>7, <1>8, <1>9

-----------------------------------------------------------------------------
(* The start.                                                              *)

Made(k) ==
    /\ Life!Chosen # None /\ clients' = Append(clients, [cred |-> Life!Chosen, link |-> "opening"])
    /\ owned' = k /\ client' = k /\ status' = "starting"
    /\ runtime' = [runtime EXCEPT !.identity = Life!Chosen,
                     !.current = IF runtime.identity = Life!Chosen THEN @ ELSE 0]
    /\ undone' = IF run.op.kind = "migrate" /\ run.back THEN k ELSE undone
    /\ run' = [run EXCEPT !.at = "starting"]

LEMMA MadeKeeps ==
    ASSUME LifeBounds, LifeInv, Phase({"restart"}), ~blocked, Made(Len(clients) + 1),
           attempt' = attempt + 1,
           UNCHANGED <<saved, lane, aborted, blocked, retry, watch, later, workers, scanning, transfer>>
    PROVE  LifeInv'
<1> USE DEF LifeInv
<1> DEFINE k == Len(clients) + 1
<1>1. /\ run \in RunRecord /\ run # Life!Idle /\ run.at = "restart"
      /\ owned = 0 /\ client = 0 /\ workers = 0 /\ later = 0 /\ ~scanning
    BY DEF Phase, LifeTyped, StopsFirst
<1>2. /\ run' \in RunRecord /\ run' # Life!Idle /\ run'.at = "starting" /\ run'.op = run.op
      /\ run'.back = run.back /\ run'.use = run.use
    BY <1>1, RunGoes DEF Made
<1>3. /\ run.use \in Creds \cup {None} /\ saved.on \in BOOLEAN /\ saved.web \in Creds \cup {None}
    BY <1>1 DEF RunRecord, LifeTyped, SettingsRecord
<1>4. Life!Chosen \in Creds
    BY <1>3 DEF Life!Chosen, Life!Effective, LifeBounds, Made
<1>5. /\ clients' \in Seq(ClientRecord) /\ Len(clients') = k /\ DOMAIN clients' = 1..k
      /\ \A i \in 1..Len(clients) : clients'[i] = clients[i]
      /\ clients'[k].cred = Life!Chosen /\ clients'[k].link = "opening"
    BY <1>4, ClientAppended DEF Made
<1>6. Len(clients) \in Nat /\ DOMAIN clients = 1..Len(clients) /\ k # 0 /\ k \notin 1..Len(clients)
      /\ k \in 1..k /\ \A i \in 1..k : i = k \/ i \in 1..Len(clients)
    BY ClientsAre
<1>7. owned' = k /\ client' = k /\ status' = "starting"
    BY DEF Made
<1>8. /\ runtime' \in [identity : Creds \cup {None}, current : 0..k, recovering : BOOLEAN]
      /\ runtime'.identity = Life!Chosen
      /\ runtime'.current # 0 => runtime'.current = runtime.current /\ runtime.identity = Life!Chosen
    <2>1. runtime \in [identity : Creds \cup {None}, current : 0..Len(clients), recovering : BOOLEAN]
        BY DEF LifeTyped
    <2>2. 0 \in 0..k /\ \A i \in 0..Len(clients) : i \in 0..k
        BY <1>6
    <2>3. runtime' = [runtime EXCEPT !.identity = Life!Chosen,
                        !.current = IF runtime.identity = Life!Chosen THEN @ ELSE 0]
        BY DEF Made
    <2> HIDE DEF k
    <2> QED BY <1>4, <2>1, <2>2, <2>3
<1> HIDE DEF k
<1>9. StopsFirst'
    BY <1>5, <1>6, <1>8, <1>1, <1>2, <1>7 DEF StopsFirst, Phase
<1>10. ClientConfigured'
    BY <1>2, <1>7, <1>1, <1>5 DEF Made, k, ClientConfigured, Phase, Early, Life!Chosen,
        Life!Effective
<1>11. CurrentKnown'
    BY <1>6, <1>8, <1>5 DEF LifeTyped, CurrentKnown
<1>12. Life!OneBot' /\ Life!WorkersOver'
    BY <1>1, <1>6, <1>5, <1>7 DEF Life!OneBot, Life!Alive, Life!Link, Life!WorkersOver
<1>13. Life!OwnBot'
    BY <1>6, <1>5 DEF CurrentKnown, LifeTyped, Life!OwnBot, Life!Cred
<1>14. AttemptsKnown'
    BY <1>1, <1>2 DEF AttemptsKnown, Phase, Changes, Early, LifeBounds, LifeTyped
<1>15. LaneKnown'
    BY <1>1, <1>2 DEF LaneKnown, CurrentRetry
<1>16. LifeFlags' /\ LifeTyped'
    <2>1. LifeFlags'
        BY DEF LifeFlags
    <2>2. \A i \in 0..Len(clients) : i \in 0..Len(clients')
        BY <1>5, <1>6
    <2>3. transfer \in [at : {"none", "uses", "waits", "failed"}, cred : Creds \cup {None},
                        k : 0..Len(clients')]
        BY <2>2 DEF LifeTyped
    <2>4. attempt' \in Nat /\ owned' \in 0..Len(clients') /\ client' \in 0..Len(clients')
          /\ later' \in 0..Len(clients') /\ workers' \in 0..Len(clients') /\ watch' \in 0..Len(clients')
        BY <1>5, <1>6, <1>7, <2>2 DEF LifeTyped
    <2>5. runtime' \in [identity : Creds \cup {None}, current : 0..Len(clients'), recovering : BOOLEAN]
        BY <1>5, <1>8
    <2> QED BY <1>2, <1>5, <1>7, <2>1, <2>3, <2>4, <2>5 DEF LifeTyped, States
<1> QED BY <1>9, <1>10, <1>11, <1>12, <1>13, <1>14, <1>15, <1>16

LEMMA ConstructKeeps ==
    ASSUME LifeBounds, LifeInv, Life!Construct
    PROVE  LifeInv'
<1> USE DEF LifeInv
<1>1. /\ run \in RunRecord /\ run # Life!Idle /\ run.at = "restart"
      /\ UNCHANGED <<saved, lane, aborted, blocked, retry, watch, later, workers, scanning, transfer>>
    BY DEF Life!Construct, Life!At, Life!desk, Life!timers, Life!work, LifeTyped
<1>2. client = 0 /\ owned = 0 /\ workers = 0 /\ later = 0 /\ ~scanning
    BY <1>1 DEF StopsFirst, Phase
<1>3. CASE aborted \/ blocked
    <2>1. /\ run' = [run EXCEPT !.at = "thrown", !.error = "cancelled"]
          /\ UNCHANGED <<owned, clients, client, status, runtime, attempt, undone>>
        BY <1>3 DEF Life!Construct, Life!Throws, Life!body
    <2>2. /\ run' \in RunRecord /\ run' # Life!Idle /\ run'.at = "thrown" /\ run'.op = run.op
          /\ run'.back = run.back /\ run'.use = run.use
        BY <1>1, <2>1, RunThrows
    <2>3. AttemptsKnown' /\ LaneKnown'
        BY <1>1, <2>1, <2>2, AttemptsStay DEF GoesOn, Early
    <2>4. StopsFirst' /\ ClientConfigured'
        BY <1>1, <1>2, <2>1, <2>2 DEF StopsFirst, ClientConfigured, Phase, Early
    <2>5. CurrentKnown' /\ Life!OneBot' /\ Life!WorkersOver' /\ Life!OwnBot'
        BY <1>1, <2>1 DEF CurrentKnown, Life!OneBot, Life!WorkersOver, Life!OwnBot, Life!Alive,
                          Life!Link, Life!Cred
    <2>6. LifeFlags' /\ LifeTyped'
        BY <1>1, <2>1, <2>2 DEF LifeFlags, LifeTyped
    <2> QED BY <2>3, <2>4, <2>5, <2>6
<1>4. CASE ~(aborted \/ blocked) /\ Life!Chosen = None
    <2>1. /\ run' = [run EXCEPT !.at = "done"] /\ status' = "not_configured" /\ attempt' = attempt + 1
          /\ Life!Unavailable(FALSE) /\ UNCHANGED <<owned, clients, client, undone>>
        BY <1>4 DEF Life!Construct, Life!Goes, Life!body
    <2>2. /\ run' \in RunRecord /\ run' # Life!Idle /\ run'.at = "done" /\ run'.op = run.op
          /\ run'.back = run.back /\ run'.use = run.use
        BY <1>1, <2>1, RunGoes
    <2>3. /\ runtime' \in [identity : Creds \cup {None}, current : 0..Len(clients), recovering : BOOLEAN]
          /\ runtime'.identity = runtime.identity /\ runtime'.current = 0
        BY <2>1, RuntimeIdles
    <2>4. AttemptsKnown' /\ LaneKnown'
        BY <1>1, <2>1, <2>2 DEF AttemptsKnown, LaneKnown, CurrentRetry, Phase, Changes, Early,
                                LifeBounds, LifeTyped
    <2>5. StopsFirst' /\ ClientConfigured'
        BY <1>1, <1>2, <2>1, <2>2 DEF StopsFirst, ClientConfigured, Phase, Early
    <2>6. CurrentKnown' /\ Life!OneBot' /\ Life!WorkersOver' /\ Life!OwnBot'
        BY <1>1, <2>1, <2>3 DEF CurrentKnown, Life!OneBot, Life!WorkersOver, Life!OwnBot, Life!Alive,
                                Life!Link, Life!Cred
    <2>7. LifeFlags' /\ LifeTyped'
        BY <1>1, <2>1, <2>2, <2>3 DEF LifeFlags, LifeTyped, States
    <2> QED BY <2>4, <2>5, <2>6, <2>7
<1>5. CASE ~(aborted \/ blocked) /\ Life!Chosen # None
    BY <1>5, <1>1, MadeKeeps DEF Life!Construct, Life!Goes, Made, Phase
<1> QED BY <1>3, <1>4, <1>5

LEMMA ReadyKeeps ==
    ASSUME LifeBounds, LifeInv, Life!Ready
    PROVE  LifeInv'
<1> USE DEF LifeInv
<1>1. /\ run \in RunRecord /\ run # Life!Idle /\ run.at = "starting" /\ run' = [run EXCEPT !.at = "done"]
      /\ status' = "ready" /\ attempt' = 0 /\ watch' = owned
      /\ runtime' = [runtime EXCEPT !.current = owned, !.recovering = FALSE]
      /\ UNCHANGED <<saved, lane, aborted, blocked, owned, clients, client, retry, later, workers,
                     scanning, transfer, undone>>
    BY DEF Life!Ready, Life!At, Life!Goes, Life!desk, Life!body, Life!work, LifeTyped
<1>2. /\ run' \in RunRecord /\ run' # Life!Idle /\ run'.at = "done" /\ run'.op = run.op
      /\ run'.back = run.back /\ run'.use = run.use
    BY <1>1, RunGoes
<1>3. /\ owned # 0 /\ client = owned /\ clients[owned].cred = runtime.identity
      /\ workers = 0 /\ later = 0
    BY <1>1 DEF StopsFirst, Phase
<1>4. /\ runtime' \in [identity : Creds \cup {None}, current : 0..Len(clients), recovering : BOOLEAN]
      /\ runtime'.identity = runtime.identity /\ runtime'.current = owned
    BY <1>1 DEF LifeTyped
<1>5. AttemptsKnown' /\ LaneKnown'
    BY <1>1, <1>2 DEF AttemptsKnown, Phase, Changes, Early, LifeBounds, LaneKnown, CurrentRetry
<1>6. StopsFirst'
    BY <1>1, <1>2, <1>3 DEF StopsFirst, Phase
<1>7. ClientConfigured'
    BY <1>1, <1>2 DEF ClientConfigured, Phase, Early, Life!Effective
<1>8. CurrentKnown' /\ Life!OneBot' /\ Life!WorkersOver' /\ Life!OwnBot'
    BY <1>1, <1>3, <1>4 DEF CurrentKnown, Life!OneBot, Life!WorkersOver, Life!OwnBot, Life!Alive,
                            Life!Link, Life!Cred
<1>9. LifeFlags' /\ LifeTyped'
    BY <1>1, <1>2, <1>4 DEF LifeFlags, LifeTyped, States
<1> QED BY <1>5, <1>6, <1>7, <1>8, <1>9

LEMMA StartFailsKeeps ==
    ASSUME LifeInv, Life!StartFails
    PROVE  LifeInv'
<1> USE DEF LifeInv
<1>1. PICK error \in {"network", "auth", "cancelled"} :
         /\ run' = [run EXCEPT !.at = "failing", !.error = error]
         /\ status' = IF error = "auth" THEN "auth_failed" ELSE "error"
    BY DEF Life!StartFails
<1>2. /\ run \in RunRecord /\ run # Life!Idle /\ run.at = "starting"
      /\ client' = 0 /\ clients' = [clients EXCEPT ![owned].link = "closing"]
      /\ UNCHANGED <<saved, lane, aborted, blocked, owned, runtime, attempt, retry, watch, later,
                     workers, scanning, transfer, undone>>
    BY DEF Life!StartFails, Life!At, Life!desk, Life!timers, Life!work, LifeTyped
<1>3. /\ run' \in RunRecord /\ run' # Life!Idle /\ run'.at = "failing" /\ run'.op = run.op
      /\ run'.back = run.back /\ run'.use = run.use
    <2>1. CASE error = "network"
        <3>1. run' = [run EXCEPT !.at = "failing", !.error = "network"] /\ run \in RunRecord
            BY <1>1, <1>2, <2>1
        <3> QED BY <3>1, RunThrows
    <2>2. CASE error = "auth"
        <3>1. run' = [run EXCEPT !.at = "failing", !.error = "auth"] /\ run \in RunRecord
            BY <1>1, <1>2, <2>2
        <3> QED BY <3>1, RunThrows
    <2>3. CASE error = "cancelled"
        <3>1. run' = [run EXCEPT !.at = "failing", !.error = "cancelled"] /\ run \in RunRecord
            BY <1>1, <1>2, <2>3
        <3> QED BY <3>1, RunThrows
    <2> QED BY <2>1, <2>2, <2>3
<1>4. owned \in 1..Len(clients) /\ client = owned /\ workers = 0 /\ later = 0
      /\ DOMAIN clients = 1..Len(clients) /\ Len(clients) \in Nat
    BY <1>2, ClientsAre DEF StopsFirst, Phase, LifeTyped
<1>5. Linked(owned, "closing")
    BY <1>2, <1>4, LinkChanges
<1>6. AttemptsKnown' /\ LaneKnown'
    BY <1>2, <1>3, AttemptsStay DEF GoesOn, Early
<1>7. StopsFirst' /\ ClientConfigured'
    BY <1>2, <1>3, <1>4 DEF StopsFirst, ClientConfigured, Phase, Early
<1>8. CurrentKnown'
    BY <1>2, <1>4, <1>5 DEF CurrentKnown, Linked, LifeTyped
<1>9. Life!OneBot' /\ Life!WorkersOver'
    BY <1>2, <1>4, <1>5 DEF Life!OneBot, Life!WorkersOver, Life!Alive, Life!Link, Linked
<1>10. Life!OwnBot'
    BY <1>2, <1>4, <1>5 DEF CurrentKnown, Life!OwnBot, Life!Cred, Linked, LifeTyped
<1>11. LifeFlags' /\ LifeTyped'
    BY <1>1, <1>2, <1>3, <1>4, <1>5 DEF States, LifeFlags, LifeTyped, Linked
<1> QED BY <1>6, <1>7, <1>8, <1>9, <1>10, <1>11

LEMMA CleanedKeeps ==
    ASSUME LifeInv, Life!Cleaned
    PROVE  LifeInv'
<1> USE DEF LifeInv
<1>1. /\ run \in RunRecord /\ run # Life!Idle /\ run.at = "failing" /\ run' = [run EXCEPT !.at = "thrown"]
      /\ \/ Life!Gone /\ owned' = 0 /\ UNCHANGED <<blocked, status>>
         \/ blocked' = TRUE /\ status' = "error" /\ UNCHANGED owned
      /\ UNCHANGED <<saved, lane, aborted, clients, client, runtime, attempt, retry, watch, later,
                     workers, scanning, transfer, undone>>
    BY DEF Life!Cleaned, Life!At, Life!Goes, Life!desk, Life!timers, Life!work, LifeTyped
<1>2. /\ run' \in RunRecord /\ run' # Life!Idle /\ run'.at = "thrown" /\ run'.op = run.op
      /\ run'.back = run.back /\ run'.use = run.use
    BY <1>1, RunGoes
<1>3. client = 0 /\ workers = 0 /\ later = 0 /\ DOMAIN clients = 1..Len(clients) /\ Len(clients) \in Nat
    BY <1>1, ClientsAre DEF StopsFirst, Phase
<1>4. AttemptsKnown' /\ LaneKnown'
    BY <1>1, <1>2, AttemptsStay DEF GoesOn, Early
<1>5. StopsFirst' /\ ClientConfigured'
    BY <1>1, <1>2, <1>3 DEF StopsFirst, ClientConfigured, Phase, Early
<1>6. CurrentKnown' /\ Life!WorkersOver' /\ Life!OwnBot'
    BY <1>1 DEF CurrentKnown, Life!WorkersOver, Life!OwnBot, Life!Link, Life!Cred
<1>7. Life!OneBot'
    BY <1>1, <1>3 DEF Life!OneBot, Life!Gone, Life!Alive, Life!Link
<1>8. LifeFlags' /\ LifeTyped'
    <2>1. LifeFlags'
        BY <1>1 DEF LifeFlags
    <2>2. owned' \in 0..Len(clients) /\ status' \in States
        BY <1>1, <1>3 DEF LifeTyped, States
    <2>3. LifeTyped'
        BY <1>1, <1>2, <2>2 DEF LifeTyped
    <2> QED BY <2>1, <2>3
<1> QED BY <1>4, <1>5, <1>6, <1>7, <1>8

LEMMA DoneKeeps ==
    ASSUME LifeInv, Life!Done
    PROVE  LifeInv'
    BY AttemptsStay DEF LifeInv, Life!Done, Life!At, Life!Over, Life!desk, Life!body, Life!face,
        Life!work, GoesOn, StopsFirst, ClientConfigured, Phase, Early, Life!Effective, CurrentKnown,
        Life!OneBot, Life!WorkersOver, Life!OwnBot, Life!Alive, Life!Link, Life!Cred, LifeFlags,
        LifeTyped

LEMMA StopOverKeeps ==
    ASSUME LifeBounds, LifeInv, Life!StopOver
    PROVE  LifeInv'
<1> USE DEF LifeInv
<1> DEFINE op == [kind |-> "deleted"]
<1>1. /\ run \in RunRecord /\ run # Life!Idle /\ run.at = "stopped"
      /\ UNCHANGED <<lane, aborted, blocked, owned, clients, client, status, runtime, attempt, retry,
                     watch, later, workers, scanning, transfer, undone>>
    BY DEF Life!StopOver, Life!At, Life!body, Life!face, Life!timers, Life!work, LifeTyped
<1>2. client = 0 /\ owned = 0 /\ workers = 0 /\ later = 0
    BY <1>1 DEF StopsFirst, Phase
<1>3. \/ run' = Life!Idle
      \/ /\ run' \in RunRecord /\ run' # Life!Idle /\ run'.at = "stop" /\ run'.op = op /\ ~run'.back
         /\ run'.use = Env /\ saved' = [web |-> None, on |-> TRUE] /\ run.op.kind = "delete"
    <2>1. \/ run' = Life!Idle
          \/ /\ run' = Life!Restart(op, Env) /\ saved' = [web |-> None, on |-> TRUE]
             /\ run.op.kind = "delete"
        BY DEF Life!StopOver, Life!Over
    <2>2. op \in OpRecord /\ saved \in SettingsRecord /\ Env \in Creds \cup {None}
        BY DEF OpRecord, Changers, LifeTyped, LifeBounds
    <2>3. Life!Restart(op, Env) = Life!Op(op, "stop", "restart", Env, saved)
        BY DEF Life!Restart
    <2> HIDE DEF op
    <2> QED BY <2>1, <2>2, <2>3, RunBegins
<1>4. saved' = saved \/ saved' = [web |-> None, on |-> TRUE]
    BY DEF Life!StopOver
<1>5. saved' \in SettingsRecord
    <2>1. [web |-> None, on |-> TRUE] \in SettingsRecord
        BY DEF SettingsRecord
    <2> QED BY <1>4, <2>1 DEF LifeTyped
<1>6. LaneKnown'
    BY <1>1 DEF LaneKnown, CurrentRetry
<1>7. AttemptsKnown'
    BY <1>1, AttemptsStay, <1>3 DEF GoesOn, Changes, Changers, Phase, Early, AttemptsKnown,
        LifeBounds
<1>8. StopsFirst' /\ ClientConfigured'
    BY <1>1, <1>2, <1>3 DEF StopsFirst, ClientConfigured, Phase, Early, Life!Effective
<1>9. CurrentKnown' /\ Life!OneBot' /\ Life!WorkersOver' /\ Life!OwnBot'
    BY <1>1 DEF CurrentKnown, Life!OneBot, Life!WorkersOver, Life!OwnBot, Life!Alive, Life!Link, Life!Cred
<1>10. LifeFlags' /\ LifeTyped'
    BY <1>1, <1>3, <1>5 DEF LifeFlags, LifeTyped
<1> QED BY <1>6, <1>7, <1>8, <1>9, <1>10

(* A change that is undone is one of the credentials.                      *)
Undoes ==
    /\ run.op.kind \in {"put", "migrate"} /\ ~run.back /\ saved' = run.before
    /\ run' \in RunRecord /\ run' # Life!Idle /\ run'.at = "stop" /\ run'.op = run.op /\ run'.back
    /\ run'.use # None => run.op.kind = "migrate" \/ (saved'.on /\ run'.use = Life!Effective(saved'))
    /\ UNCHANGED <<runtime, retry>>

LEMMA ThrownDoes ==
    ASSUME LifeBounds, LifeInv, Life!Thrown
    PROVE  /\ \/ Undoes
              \/ /\ run' = Life!Idle /\ saved' = saved
                 /\ Life!ScheduleRetry(run.error) \/ UNCHANGED <<runtime, retry>>
           /\ saved' \in SettingsRecord
<1> USE DEF LifeInv
<1>1. run \in RunRecord /\ run.op \in OpRecord /\ run.before \in SettingsRecord /\ run.back \in BOOLEAN
    BY DEF Life!Thrown, Life!At, LifeTyped, RunRecord
<1>2. CASE run.op.kind \in {"put", "migrate"} /\ ~run.back
    <2> DEFINE on == run.before.on /\ Life!Effective(run.before) # None
               use == IF run.op.kind = "migrate" THEN Env
                      ELSE IF on THEN Life!Effective(run.before) ELSE None
               goal == IF use = None THEN "stop" ELSE "restart"
    <2>1. /\ saved' = run.before /\ UNCHANGED <<runtime, retry>>
          /\ run' = [Life!Op(run.op, "stop", goal, use, run.before) EXCEPT !.back = TRUE]
        BY <1>2 DEF Life!Thrown, Life!Restored
    <2>2. goal \in {"stop", "restart"}
        OBVIOUS
    <2>3. Life!Effective(run.before) \in Creds \cup {None}
        BY <1>1 DEF Life!Effective, SettingsRecord, LifeBounds
    <2>4. use \in Creds \cup {None}
        BY <2>3 DEF LifeBounds
    <2>5. use # None => run.op.kind = "migrate" \/ (run.before.on /\ use = Life!Effective(run.before))
        <3> SUFFICES ASSUME use # None, run.op.kind # "migrate"
                     PROVE  run.before.on /\ use = Life!Effective(run.before)
            BY Zenon
        <3>1. use = IF on THEN Life!Effective(run.before) ELSE None
            OBVIOUS
        <3>2. on
            BY <3>1
        <3> QED BY <3>1, <3>2
    <2> HIDE DEF use, goal
    <2>6. /\ run' \in RunRecord /\ run' # Life!Idle /\ run'.at = "stop" /\ run'.op = run.op
          /\ run'.back = TRUE /\ run'.use = use
        BY <1>1, <2>1, <2>2, <2>4, RunBack
    <2> QED BY <1>1, <1>2, <2>1, <2>5, <2>6 DEF Undoes
<1>3. CASE ~(run.op.kind \in {"put", "migrate"} /\ ~run.back)
    BY <1>3 DEF Life!Thrown, Life!Over, LifeTyped
<1> QED BY <1>2, <1>3

LEMMA ThrownKeeps ==
    ASSUME LifeBounds, LifeInv, Life!Thrown
    PROVE  LifeInv'
<1> USE DEF LifeInv
<1>1. /\ \/ Undoes
         \/ /\ run' = Life!Idle /\ saved' = saved
            /\ Life!ScheduleRetry(run.error) \/ UNCHANGED <<runtime, retry>>
      /\ saved' \in SettingsRecord
    BY ThrownDoes
<1>2. /\ run \in RunRecord /\ run # Life!Idle /\ run.at = "thrown"
      /\ UNCHANGED <<lane, aborted, blocked, owned, clients, client, status, attempt,
                     watch, later, workers, scanning, transfer, undone>>
    BY DEF Life!Thrown, Life!At, Life!body, Life!timers, Life!work, LifeTyped
<1>3. client = 0 /\ workers = 0 /\ later = 0
    BY <1>2 DEF StopsFirst, Phase
<1>4. /\ runtime' \in [identity : Creds \cup {None}, current : 0..Len(clients), recovering : BOOLEAN]
      /\ runtime'.identity = runtime.identity /\ runtime'.current \in {0, runtime.current}
      /\ retry' \in RetryRecord /\ AttemptsKnown' /\ LaneKnown'
    <2>1. CASE Undoes
        BY <1>2, <2>1 DEF Changes, Undoes, Changers, AttemptsKnown, LifeTyped, LifeBounds,
            LaneKnown, CurrentRetry
    <2>2. CASE run' = Life!Idle /\ Life!ScheduleRetry(run.error)
        BY <1>2, <2>2, Schedules, ScheduledLane DEF RetryScheduled
    <2>3. CASE run' = Life!Idle /\ UNCHANGED <<runtime, retry>>
        BY <1>2, <2>3, AttemptsStay DEF GoesOn, LifeTyped
    <2> QED BY <1>1, <2>1, <2>2, <2>3
<1>5. run' \in RunRecord \cup {Life!Idle} /\ (run' # Life!Idle => Undoes)
    BY <1>1 DEF Undoes
<1>6. StopsFirst'
    BY <1>2, <1>3, <1>5 DEF StopsFirst, Phase, Undoes
<1>7. ClientConfigured'
    BY <1>2, <1>3, <1>5 DEF ClientConfigured, Phase, Undoes
<1>8. CurrentKnown' /\ Life!OneBot' /\ Life!WorkersOver' /\ Life!OwnBot'
    BY <1>2, <1>4 DEF CurrentKnown, Life!OneBot, Life!WorkersOver, Life!OwnBot, Life!Alive, Life!Link,
                      Life!Cred
<1>9. LifeFlags' /\ LifeTyped'
    BY <1>1, <1>2, <1>4, <1>5 DEF LifeFlags, LifeTyped
<1> QED BY <1>4, <1>6, <1>7, <1>8, <1>9

-----------------------------------------------------------------------------
(* The workers and a download.                                             *)

LEMMA LaterKeeps ==
    ASSUME LifeInv, Life!Later
    PROVE  LifeInv'
    BY AttemptsStay, ClientsAre DEF LifeInv, Life!Later, Life!desk, Life!body, Life!face,
        StopsFirst, Phase, ClientConfigured, Early, Life!Effective, CurrentKnown, Life!OneBot,
        Life!OwnBot, Life!Alive, Life!Link, Life!Cred, Life!WorkersOver, LifeFlags, LifeTyped

LEMMA ScanKeeps ==
    ASSUME LifeInv, Life!Scan
    PROVE  LifeInv'
<1> USE DEF LifeInv
<1>1. /\ (workers # 0 /\ scanning' = TRUE) \/ scanning' = FALSE
      /\ UNCHANGED <<saved, lane, run, aborted, blocked, owned, clients, client, status, runtime,
                     attempt, retry, watch, later, workers, transfer, undone>>
    BY DEF Life!Scan, Life!desk, Life!body, Life!face, Life!timers
<1>2. AttemptsKnown' /\ LaneKnown'
    BY <1>1, AttemptsStay
<1>3. StopsFirst'
    BY <1>1 DEF StopsFirst, Phase
<1>4. ClientConfigured' /\ CurrentKnown' /\ Life!OneBot' /\ Life!OwnBot'
    BY <1>1 DEF ClientConfigured, Phase, Early, Life!Effective, CurrentKnown, Life!OneBot, Life!OwnBot,
                Life!Alive, Life!Link, Life!Cred
<1>5. Life!WorkersOver'
    BY <1>1 DEF Life!WorkersOver, Life!OneBot, Life!Alive, Life!Link
<1>6. LifeFlags' /\ LifeTyped'
    BY <1>1 DEF LifeFlags, LifeTyped
<1> QED BY <1>2, <1>3, <1>4, <1>5, <1>6

LEMMA TransferKeeps ==
    ASSUME LifeInv,
           UNCHANGED <<saved, lane, run, aborted, blocked, owned, clients, client, status, runtime,
                       attempt, retry, watch, later, workers, scanning, undone>>,
           transfer' \in [at : {"none", "uses", "waits", "failed"}, cred : Creds \cup {None},
                          k : 0..Len(clients)],
           transfer'.at = "uses" =>
               transfer'.k # 0 /\ clients[transfer'.k].cred = transfer'.cred
    PROVE  LifeInv'
    BY AttemptsStay DEF LifeInv, StopsFirst, ClientConfigured, Phase, Early, Life!Effective,
        CurrentKnown, Life!OneBot, Life!WorkersOver, Life!OwnBot, Life!Alive, Life!Link, Life!Cred,
        LifeFlags, LifeTyped

LEMMA TransfersKeep ==
    ASSUME LifeInv, Life!Download \/ Life!Acquire \/ Life!Acquired
    PROVE  LifeInv'
<1> USE DEF LifeInv
<1> DEFINE Transfers == [at : {"none", "uses", "waits", "failed"}, cred : Creds \cup {None},
                         k : 0..Len(clients)]
<1>1. UNCHANGED <<saved, lane, run, aborted, blocked, owned, clients, client, status, runtime,
                  attempt, retry, watch, later, workers, scanning, undone>>
    BY DEF Life!Download, Life!Acquire, Life!Acquired, Life!desk, Life!body, Life!face, Life!timers,
           Life!work
<1>2. /\ Len(clients) \in Nat /\ client \in 0..Len(clients) /\ transfer \in Transfers
      /\ \A k \in 1..Len(clients) : clients[k].cred \in Creds
      /\ runtime.current \in 0..Len(clients)
    BY ClientsAre DEF LifeTyped
<1>3. CASE Life!Download
    BY <1>3, <1>2, <1>1, TransferKeeps DEF Life!Download, Life!Connected, Life!Cred
<1>4. CASE Life!Acquire
    BY <1>2, <1>4, <1>1, TransferKeeps DEF Life!Acquire
<1>5. CASE Life!Acquired
    <2>1. CASE /\ Life!Same(transfer.cred) /\ Life!Connected(runtime.current)
               /\ transfer' = [transfer EXCEPT !.at = "uses", !.k = runtime.current]
        BY <1>2, <2>1, <1>1, TransferKeeps DEF Life!Same, Life!Connected, CurrentKnown
    <2>2. CASE transfer' = [transfer EXCEPT !.at = "failed", !.k = 0]
        <3>1. transfer' \in Transfers /\ transfer'.at = "failed"
            <4>1. 0 \in 0..Len(clients)
                BY <1>2
            <4> QED BY <1>2, <2>2, <4>1
        <3> QED BY <1>1, <3>1, TransferKeeps
    <2> QED BY <1>5, <2>1, <2>2 DEF Life!Acquired
<1> QED BY <1>3, <1>4, <1>5

-----------------------------------------------------------------------------
LEMMA LifeInit ==
    ASSUME LifeBounds, Life!Init
    PROVE  LifeInv
<1>1. /\ saved \in SettingsRecord /\ lane = <<[kind |-> "boot"]>> /\ run = Life!Idle /\ ~aborted
      /\ ~blocked /\ owned = 0 /\ client = 0 /\ clients = <<>> /\ status = "stopped" /\ attempt = 0
      /\ retry = [due |-> FALSE, timer |-> 0, gen |-> 1] /\ watch = 0 /\ later = 0 /\ workers = 0
      /\ scanning = FALSE /\ runtime = [identity |-> None, current |-> 0, recovering |-> FALSE]
      /\ transfer = [at |-> "none", cred |-> None, k |-> 0]
    BY DEF Life!Init, SettingsRecord
<1>2. Len(clients) = 0 /\ clients \in Seq(ClientRecord) /\ DOMAIN clients = {}
    BY <1>1
<1>3. [kind |-> "boot"] \in OpRecord
    BY DEF OpRecord
<1>4. lane \in Seq(OpRecord) /\ Len(lane) = 1 /\ lane[1] = [kind |-> "boot"]
    BY <1>1, <1>3
<1>5. LifeFlags
    BY <1>1 DEF LifeFlags, Life!Init
<1>6. LifeTyped
    BY <1>1, <1>2, <1>4 DEF LifeTyped, States, RetryRecord
<1>7. StopsFirst /\ ClientConfigured
    BY <1>1 DEF StopsFirst, ClientConfigured, Phase
<1>8. CurrentKnown
    BY <1>1 DEF CurrentKnown
<1>9. AttemptsKnown
    BY <1>1 DEF AttemptsKnown, Phase, Changes, LifeBounds
<1>10. LaneKnown
    BY <1>1, <1>4 DEF LaneKnown, CurrentRetry
<1>11. Life!OneBot /\ Life!WorkersOver /\ Life!OwnBot
    BY <1>1, <1>2 DEF Life!OneBot, Life!WorkersOver, Life!OwnBot
<1> QED BY <1>5, <1>6, <1>7, <1>8, <1>9, <1>10, <1>11 DEF LifeInv

LEMMA LifeSteps ==
    ASSUME LifeBounds, LifeInv, [Life!Next]_(Life!vars)
    PROVE  LifeInv'
    BY ClientLinkKeeps, SameFades, RetryFiresKeeps, LostKeeps, WatchedKeeps, RequestsKeep,
        ManualRetryKeeps, BeginKeeps, RefuseKeeps, BeginStopKeeps, StoppedKeeps, StopFailsKeeps,
        ConstructKeeps, AuthorizedKeeps, ReadyKeeps, StartFailsKeeps, CleanedKeeps, CloseKeeps,
        DoneKeeps, StopOverKeeps, ThrownKeeps, LaterKeeps, ScanKeeps, TransfersKeep DEF LifeInv,
        Life!vars, Life!desk, Life!body, Life!face, Life!timers, Life!work, Life!Next

(* There is one bot at a time, the one that the settings describe; its     *)
(* workers are over before another is made, and a download goes on with    *)
(* the bot it began with (telegramBot.ts, telegramBotLifecycle.ts).        *)
THEOREM LifecycleTheorem == ASSUME LifeBounds PROVE Life!Spec => [](Life!TypeOK /\ Life!BotKept)
<1>1. Life!Init => LifeInv
    BY LifeInit
<1>2. LifeInv /\ [Life!Next]_(Life!vars) => LifeInv'
    BY LifeSteps
<1>3. LifeInv => Life!TypeOK /\ Life!BotKept
    BY DEF LifeInv, LifeTyped, AttemptsKnown, Life!TypeOK, SettingsRecord, States, LifeBounds,
        ClientConfigured, Phase, Life!AsConfigured, Life!Cred, Life!BotKept
<1> QED BY <1>1, <1>2, <1>3, PTL DEF Life!Spec
-----------------------------------------------------------------------------
(* Files removed by the bot.                                               *)

AskRecord ==
    [kind : {"delete", "clear"}, files : SUBSET Files, orphans : SUBSET Files, open : BOOLEAN]
Readers == [at : {"index"}, paths : SUBSET Files]
Removers == [at : {"rows", "object"}, n : Nat, files : SUBSET Files, orphans : SUBSET Files]
RowRemovers ==
    [at : {"row"}, n : Nat, file : Files, files : SUBSET Files, orphans : SUBSET Files]

CommandsTyped ==
    /\ stage \in [Files -> {"new", "stored", "indexed"}]
    /\ objects \subseteq Files /\ rows \subseteq Files
    /\ asks \in Seq(AskRecord)
    /\ \A h \in handlers : h \in Readers \/ h \in Removers \/ h \in RowRemovers
    /\ named \subseteq Files /\ orphaned \subseteq Files /\ removed \subseteq Files
    /\ torn \subseteq Files /\ troubles \in 0..MaxTroubles

(* A handler removes what was named, as an orphan or as a row's.           *)
HandlersNamed ==
    /\ \A h \in handlers : h.at # "index" => h.files \subseteq named /\ h.orphans \subseteq orphaned
    /\ orphaned \subseteq named
    /\ \A h \in handlers : h.at = "row" => h.file \in named

(* What was stored is there until it is indexed, or goes as an orphan, and *)
(* only what was indexed goes with its row.                                *)
RowsIndexed ==
    /\ \A f \in Files : stage[f] = "stored" => f \in objects \cup orphaned
    /\ \A f \in rows : stage[f] = "indexed"
    /\ \A h \in handlers : h.at \in {"object", "row"} => \A f \in h.files : stage[f] = "indexed"

CommandsInv ==
    /\ CommandsTyped /\ HandlersNamed /\ RowsIndexed
    /\ Commands!OnlyNamed /\ Commands!IndexedIsThere

LEMMA HandlersAre ==
    ASSUME CommandsTyped, NEW h \in handlers
    PROVE  /\ h.at \in {"index", "rows", "object", "row"}
           /\ h.at = "index" => h.paths \subseteq Files
           /\ h.at # "index" => h.n \in Nat /\ h.files \subseteq Files /\ h.orphans \subseteq Files
           /\ h.at = "row" => h.file \in Files
           /\ h.at \in {"rows", "object"} => h \in Removers
BY DEF CommandsTyped, Readers, Removers, RowRemovers

LEMMA AsksAre ==
    ASSUME CommandsTyped
    PROVE  /\ Len(asks) \in Nat /\ DOMAIN asks = 1..Len(asks)
           /\ \A n \in 1..Len(asks) :
                 /\ asks[n] \in AskRecord /\ asks[n].files \subseteq Files /\ asks[n].orphans \subseteq Files
<1>1. asks \in Seq(AskRecord)
    BY DEF CommandsTyped
<1>2. Len(asks) \in Nat /\ DOMAIN asks = 1..Len(asks) /\ asks \in [1..Len(asks) -> AskRecord]
    BY <1>1, LenProperties
<1> QED BY <1>2 DEF AskRecord

LEMMA AskAdds ==
    ASSUME CommandsTyped, NEW kind \in {"delete", "clear"}, NEW fs \in SUBSET Files,
           NEW os \in SUBSET Files, Commands!Ask(kind, fs, os)
    PROVE  asks' \in Seq(AskRecord)
    BY AppendProperties DEF AskRecord, Commands!Ask, CommandsTyped

LEMMA AskCloses ==
    ASSUME CommandsTyped, NEW n \in 1..Len(asks), asks' = [asks EXCEPT ![n].open = FALSE]
    PROVE  asks' \in Seq(AskRecord)
<1>1. \A r \in AskRecord : [r EXCEPT !.open = FALSE] \in AskRecord
    BY DEF AskRecord
<1>2. asks' \in [DOMAIN asks -> AskRecord]
    BY <1>1, AsksAre
<1> QED BY <1>2, SameLength DEF CommandsTyped

(* No handler comes, or one that begins to read or to remove.              *)
LEMMA AskKeeps ==
    ASSUME CommandsInv, asks' \in Seq(AskRecord),
           UNCHANGED <<stage, objects, rows, removed, torn, troubles>>,
           named \subseteq named', named' \subseteq Files,
           orphaned \subseteq orphaned', orphaned' \subseteq named',
           \A h \in handlers' : h \in handlers \/ h \in Readers \/
               (h \in Removers /\ h.at = "rows" /\ h.files \subseteq named' /\ h.orphans \subseteq orphaned'),
           \A h \in handlers : h.at = "row" => h \in handlers'
    PROVE  CommandsInv'
    BY HandlersAre DEF CommandsInv, CommandsTyped, HandlersNamed, Readers, Removers, RowsIndexed,
        Commands!OnlyNamed, Commands!IndexedIsThere

LEMMA TransferKeepsCommands ==
    ASSUME CommandsInv, Commands!Store \/ Commands!Index
    PROVE  CommandsInv'
    BY DEF CommandsInv, Commands!Store, Commands!ghosts, CommandsTyped, HandlersNamed,
        Commands!OnlyNamed, Commands!IndexedIsThere, RowsIndexed, Commands!Index

LEMMA AsksKeep ==
    ASSUME CommandsInv,
           \/ Commands!AskDelete \/ Commands!ReadDirectory \/ Commands!AskClear
           \/ Commands!Cancel \/ Commands!Confirm
    PROVE  CommandsInv'
<1> USE DEF CommandsInv
<1>1. CASE Commands!AskDelete
    BY <1>1, AskAdds, AskKeeps DEF Commands!AskDelete, CommandsTyped, Commands!transfer,
        Commands!ghosts, HandlersNamed
<1>2. CASE Commands!ReadDirectory
    BY <1>2, AskKeeps DEF Readers, CommandsTyped, Commands!ReadDirectory, Commands!transfer,
        Commands!ghosts, HandlersNamed
<1>3. CASE Commands!AskClear
    BY <1>3, AskAdds, HandlersAre, AskKeeps DEF Commands!AskClear, Commands!Waiting, Commands!Step,
        CommandsTyped, Commands!transfer, Commands!ghosts, HandlersNamed
<1>4. CASE Commands!Cancel
    BY <1>4, AskCloses, AskKeeps DEF Commands!Cancel, Commands!transfer, Commands!ghosts,
        CommandsTyped, HandlersNamed
<1>5. CASE Commands!Confirm
    <2> DEFINE h(n) == [at |-> "rows", n |-> n, files |-> asks[n].files, orphans |-> asks[n].orphans]
    <2>1. PICK n \in 1..Len(asks) :
             /\ asks' = [asks EXCEPT ![n].open = FALSE]
             /\ named' = named \cup asks[n].files \cup asks[n].orphans
             /\ orphaned' = orphaned \cup asks[n].orphans
             /\ handlers' = handlers \cup {h(n)}
             /\ UNCHANGED <<stage, objects, rows, removed, torn, troubles>>
        BY <1>5 DEF Commands!Confirm, Commands!transfer
    <2>2. asks' \in Seq(AskRecord)
        BY <2>1, AskCloses
    <2>3. /\ h(n) \in Removers /\ h(n).at = "rows" /\ h(n).files = asks[n].files
          /\ h(n).orphans = asks[n].orphans
        BY AsksAre DEF Removers
    <2>4. asks[n].files \subseteq Files /\ asks[n].orphans \subseteq Files
        BY AsksAre
    <2>5. named \subseteq Files /\ orphaned \subseteq named
        BY DEF CommandsTyped, HandlersNamed
    <2> HIDE DEF h
    <2> QED BY <2>1, <2>2, <2>3, <2>4, <2>5, AskKeeps
<1> QED BY <1>1, <1>2, <1>3, <1>4, <1>5

LEMMA ReadRowsKeeps ==
    ASSUME CommandsInv, Commands!ReadRows
    PROVE  CommandsInv'
<1> USE DEF CommandsInv
<1>1. PICK h \in handlers :
         /\ h.at = "rows"
         /\ handlers' = (handlers \ {h}) \cup
               {[at |-> "object", n |-> h.n, files |-> rows \cap h.files, orphans |-> h.orphans]}
    BY DEF Commands!ReadRows, Commands!Waiting, Commands!Step, Commands!Rows
<1> DEFINE g == [at |-> "object", n |-> h.n, files |-> rows \cap h.files, orphans |-> h.orphans]
<1>2. /\ g \in Removers /\ g.at = "object" /\ g.files = rows \cap h.files /\ g.orphans = h.orphans
      /\ h.files \subseteq named /\ h.orphans \subseteq orphaned
    BY <1>1, HandlersAre DEF Removers, HandlersNamed
<1> HIDE DEF g
<1>3. UNCHANGED <<stage, objects, rows, asks, named, orphaned, removed, torn, troubles>>
      /\ handlers' = (handlers \ {h}) \cup {g}
    BY <1>1 DEF Commands!ReadRows, Commands!transfer, Commands!ghosts, g
<1>4. CommandsTyped'
    BY <1>2, <1>3 DEF CommandsTyped
<1>5. HandlersNamed'
    BY <1>2, <1>3 DEF HandlersNamed
<1>6. RowsIndexed'
    BY <1>2, <1>3 DEF RowsIndexed
<1>7. Commands!OnlyNamed' /\ Commands!IndexedIsThere'
    BY <1>1, <1>3 DEF Commands!OnlyNamed, Commands!IndexedIsThere
<1> QED BY <1>4, <1>5, <1>6, <1>7

LEMMA RemoveObjectKeeps ==
    ASSUME CommandsInv, Commands!RemoveObject
    PROVE  CommandsInv'
<1> USE DEF CommandsInv
<1> DEFINE g(h, f) == [at |-> "row", n |-> h.n, file |-> f, files |-> h.files \ {f}, orphans |-> h.orphans]
<1>0. PICK h \in handlers : \E f \in h.files :
         /\ h.at = "object" /\ objects' = objects \ {f} /\ removed' = removed \cup {f}
         /\ handlers' = (handlers \ {h}) \cup {g(h, f)}
         /\ UNCHANGED <<stage, rows, asks, named, orphaned, torn, troubles>>
    BY DEF Commands!RemoveObject, Commands!Waiting, Commands!Step
<1>1. PICK f \in h.files :
         /\ h.at = "object" /\ objects' = objects \ {f} /\ removed' = removed \cup {f}
         /\ handlers' = (handlers \ {h}) \cup {g(h, f)}
         /\ UNCHANGED <<stage, rows, asks, named, orphaned, torn, troubles>>
    BY <1>0
<1>2. h.files \subseteq named /\ h.orphans \subseteq orphaned /\ f \in Files /\ stage[f] = "indexed"
    BY <1>1, HandlersAre DEF HandlersNamed, RowsIndexed
<1>3. /\ g(h, f) \in RowRemovers /\ g(h, f).at = "row" /\ g(h, f).file = f
      /\ g(h, f).files = h.files \ {f} /\ g(h, f).orphans = h.orphans
    BY <1>1, <1>2, HandlersAre DEF RowRemovers
<1> HIDE DEF g
<1>4. CommandsTyped'
    BY <1>1, <1>2, <1>3 DEF CommandsTyped
<1>5. HandlersNamed'
    BY <1>1, <1>2, <1>3 DEF HandlersNamed
<1>6. RowsIndexed'
    BY <1>1, <1>2, <1>3 DEF RowsIndexed
<1>7. Commands!OnlyNamed'
    BY <1>1, <1>2 DEF Commands!OnlyNamed
<1>8. Commands!IndexedIsThere'
    BY <1>1, <1>3 DEF Commands!IndexedIsThere
<1> QED BY <1>4, <1>5, <1>6, <1>7, <1>8

LEMMA RowKeeps ==
    ASSUME MaxTroubles \in Nat, CommandsInv, Commands!RemoveRow \/ Commands!RowFails
    PROVE  CommandsInv'
<1> USE DEF CommandsInv
<1>1. PICK h \in handlers :
         /\ h.at = "row" /\ handlers' = (handlers \ {h}) \cup {Commands!Rest(h)}
         /\ \/ rows' = rows \ {h.file} /\ UNCHANGED <<torn, troubles>>
            \/ /\ troubles < MaxTroubles /\ troubles' = troubles + 1
               /\ rows' = rows /\ torn' = torn \cup {h.file}
    BY DEF Commands!RemoveRow, Commands!RowFails, Commands!Waiting, Commands!Step, Commands!Trouble,
           Commands!transfer, Commands!ghosts
<1>2. UNCHANGED <<stage, objects, asks, named, orphaned, removed>>
    BY DEF Commands!RemoveRow, Commands!RowFails, Commands!transfer, Commands!ghosts
<1> DEFINE g == Commands!Rest(h)
<1>3. /\ g \in Removers /\ g.at = "object" /\ g.files = h.files /\ g.orphans = h.orphans
      /\ h.files \subseteq named /\ h.orphans \subseteq orphaned /\ h.file \in Files
    BY <1>1, HandlersAre DEF Removers, HandlersNamed, Commands!Rest
<1>4. \A f \in h.files : stage[f] = "indexed"
    BY <1>1 DEF RowsIndexed
<1> HIDE DEF g
<1>5. handlers' = (handlers \ {h}) \cup {g}
    BY <1>1 DEF g
<1>6. CommandsTyped'
    BY <1>1, <1>2, <1>3, <1>5 DEF CommandsTyped
<1>7. HandlersNamed'
    BY <1>2, <1>3, <1>5 DEF HandlersNamed
<1>8. RowsIndexed'
    BY <1>1, <1>2, <1>3, <1>4, <1>5 DEF RowsIndexed
<1>9. Commands!OnlyNamed' /\ Commands!IndexedIsThere'
    BY <1>1, <1>2, <1>5 DEF Commands!OnlyNamed, Commands!IndexedIsThere
<1> QED BY <1>6, <1>7, <1>8, <1>9

(* Fewer files or orphans wait.                                            *)
Narrower(h, g) ==
    /\ g \in Removers /\ g.at = "object" /\ h.at = "object"
    /\ g.files \subseteq h.files /\ g.orphans \subseteq h.orphans

LEMMA FilesLess ==
    ASSUME CommandsInv, NEW h \in handlers, h.at = "object", NEW f
    PROVE  /\ Narrower(h, [h EXCEPT !.files = @ \ {f}])
           /\ Narrower(h, [h EXCEPT !.orphans = @ \ {f}])
    BY HandlersAre DEF CommandsInv, Narrower, Removers

LEMMA NarrowerKeeps ==
    ASSUME CommandsInv, NEW h \in handlers, NEW g,
           \/ handlers' = handlers \ {h} /\ h.at = "object"
           \/ handlers' = (handlers \ {h}) \cup {g} /\ Narrower(h, g),
           UNCHANGED <<stage, rows, asks, named, orphaned, torn>>,
           troubles' \in 0..MaxTroubles,
           \/ UNCHANGED <<objects, removed>>
           \/ \E f \in h.orphans : objects' = objects \ {f} /\ removed' = removed \cup {f}
    PROVE  CommandsInv'
    BY DEF CommandsInv, HandlersNamed, Narrower, CommandsTyped, RowsIndexed, Commands!OnlyNamed,
        Commands!IndexedIsThere

LEMMA FewerKeep ==
    ASSUME MaxTroubles \in Nat, CommandsInv, Commands!ObjectFails \/ Commands!RemoveOrphan
    PROVE  CommandsInv'
<1>1. CASE Commands!ObjectFails
    <2>1. PICK h \in handlers : \E f \in h.files :
             /\ h.at = "object" /\ troubles < MaxTroubles /\ troubles' = troubles + 1
             /\ handlers' = (handlers \ {h}) \cup {[h EXCEPT !.files = @ \ {f}]}
             /\ UNCHANGED <<stage, objects, rows, asks, named, orphaned, removed, torn>>
        BY <1>1 DEF Commands!ObjectFails, Commands!Waiting, Commands!Step, Commands!Trouble,
                    Commands!transfer, Commands!ghosts
    <2>2. PICK f \in h.files : handlers' = (handlers \ {h}) \cup {[h EXCEPT !.files = @ \ {f}]}
        BY <2>1
    <2>4. Narrower(h, [h EXCEPT !.files = @ \ {f}])
        BY <2>1, FilesLess
    <2>3. troubles' \in 0..MaxTroubles
        BY <2>1 DEF CommandsInv, CommandsTyped
    <2> QED BY <2>1, <2>2, <2>3, <2>4, NarrowerKeeps
<1>2. CASE Commands!RemoveOrphan
    <2>1. PICK h \in handlers :
             /\ h.at = "object"
             /\ IF h.orphans = {} THEN handlers' = handlers \ {h} /\ UNCHANGED <<objects, removed>>
                ELSE \E f \in h.orphans :
                        /\ objects' = objects \ {f} /\ removed' = removed \cup {f}
                        /\ handlers' = (handlers \ {h}) \cup {[h EXCEPT !.orphans = @ \ {f}]}
             /\ UNCHANGED <<stage, rows, asks, named, orphaned, torn, troubles>>
        BY <1>2 DEF Commands!RemoveOrphan, Commands!Waiting, Commands!Step
    <2>2. troubles' \in 0..MaxTroubles
        BY <2>1 DEF CommandsInv, CommandsTyped
    <2>3. CASE h.orphans = {}
        BY <2>1, <2>2, <2>3, NarrowerKeeps
    <2>4. CASE h.orphans # {}
        BY <2>1, <2>4, FilesLess, <2>2, NarrowerKeeps
    <2> QED BY <2>3, <2>4
<1> QED BY <1>1, <1>2

(* The bot removes only files that a confirmed question has named, and a   *)
(* file of the index is there, unless its row is about to go, could not be *)
(* removed, or the file was an orphan when the question was put            *)
(* (telegramCommands.ts, handleDelete and handleStorage).                  *)
THEOREM CommandsTheorem ==
    ASSUME MaxTroubles \in Nat
    PROVE  Commands!Spec => [](Commands!TypeOK /\ Commands!CommandsKept)
<1>1. Commands!Init => CommandsInv
    BY DEF Commands!Init, CommandsTyped, CommandsInv, HandlersNamed, RowsIndexed,
        Commands!OnlyNamed, Commands!IndexedIsThere
<1>2. CommandsInv /\ [Commands!Next]_(Commands!vars) => CommandsInv'
    BY AskKeeps, TransferKeepsCommands, AsksKeep, ReadRowsKeeps, RemoveObjectKeeps, RowKeeps,
        FewerKeep DEF Commands!vars, Commands!transfer, Commands!ghosts, CommandsInv, CommandsTyped,
        HandlersNamed, Commands!Next
<1>3. CommandsInv => Commands!TypeOK /\ Commands!CommandsKept
    BY AsksAre DEF CommandsInv, AskRecord, CommandsTyped, Commands!TypeOK, Commands!CommandsKept
<1> QED BY <1>1, <1>2, <1>3, PTL DEF Commands!Spec
-----------------------------------------------------------------------------
(* The drafts of a chat.                                                   *)

(* A draft begins with a step that the code knows.                         *)
OpeningSteps == \A o \in Openings : o[2] \in Dialogue!Steps

Kinds == {o[1] : o \in Openings} \cup {"manage", "tag", "date"}
DraftRecord ==
    [kind : Kinds, step : Dialogue!Steps, editing : BOOLEAN, target : BOOLEAN, pin : Nat,
     processing : BOOLEAN, submitting : BOOLEAN, created : BOOLEAN,
     cancelling : BOOLEAN, cancelled : BOOLEAN, torn : BOOLEAN, jobs : Nat]
Processing == {"reply", "validate", "prompt", "subscribe", "target", "list"}
Working == Processing \cup {"submit", "effects", "restore", "cancel"}
Starts == [at : {"start"}, kind : Kinds, step : Dialogue!Steps]
Pressed == [at : {"fetch"}, press : Presses, old : BOOLEAN, step : Dialogue!Steps]
Works == [at : Working, draft : Nat]

DialoguesTyped ==
    /\ drafts \in Seq(DraftRecord) /\ store \in 0..Len(drafts)
    /\ \A t \in tasks : t \in Starts \/ t \in Pressed \/ t \in Works
    /\ pick \in Nat /\ picks \in Nat

(* A draft that makes a job is whole, and makes no other.                  *)
Sound(r) == /\ r.jobs <= 1 /\ ~r.torn
            /\ r.jobs = 1 => ~r.cancelled

(* What a handler that waits may rely on.                                  *)
Fits(at, r) ==
    /\ at \in Processing => r.processing /\ ~r.submitting /\ ~r.cancelled /\ ~r.created
    /\ at \in Processing \cup {"submit", "cancel"} => at = "reply" \/ r.jobs = 0
    /\ at = "submit" => ~r.cancelled /\ r.submitting
    /\ at = "effects" => r.created /\ r.submitting
    /\ at = "restore" => r.submitting
    /\ at = "cancel" => r.cancelling

DraftsSound == \A d \in DOMAIN drafts : Sound(drafts[d])
KeptIsOpen == store # 0 => drafts[store].jobs = 0
HandlersFit ==
    \A t \in tasks : t \in Works => t.draft \in DOMAIN drafts /\ Fits(t.at, drafts[t.draft])
OneHandler ==
    \A t, u \in tasks : t \in Works /\ u \in Works /\ t.draft = u.draft => t = u
TakenOfDrafts ==
    \A p \in taken : p[1] \in DOMAIN drafts /\ drafts[p[1]].created /\ drafts[p[1]].pin = p[2]

DialoguesInv ==
    /\ DialoguesTyped /\ DraftsSound /\ KeptIsOpen /\ HandlersFit /\ OneHandler /\ TakenOfDrafts

LEMMA DraftsAre ==
    ASSUME DialoguesTyped
    PROVE  /\ Len(drafts) \in Nat /\ DOMAIN drafts = 1..Len(drafts)
           /\ \A d \in DOMAIN drafts : d \in Nat /\ d # 0 /\ drafts[d] \in DraftRecord
           /\ store # 0 => store \in DOMAIN drafts
    BY LenProperties DEF DialoguesTyped

LEMMA TasksAre ==
    ASSUME DialoguesTyped, NEW t \in tasks
    PROVE  /\ t \in Works <=> t.at \notin {"start", "fetch"}
           /\ t \in Pressed <=> t.at = "fetch"
           /\ t \in Starts <=> t.at = "start"
BY DEF DialoguesTyped, Works, Pressed, Starts, Working, Processing

LEMMA DraftPuts ==
    ASSUME DialoguesTyped, NEW d \in DOMAIN drafts, NEW r \in DraftRecord,
           drafts' = [drafts EXCEPT ![d] = r]
    PROVE  /\ drafts' \in Seq(DraftRecord) /\ DOMAIN drafts' = DOMAIN drafts /\ Len(drafts') = Len(drafts)
           /\ drafts'[d] = r /\ \A k \in DOMAIN drafts : k # d => drafts'[k] = drafts[k]
    BY DraftsAre, SameLength DEF DialoguesTyped

LEMMA DraftSame ==
    ASSUME DialoguesTyped, NEW d \in DOMAIN drafts, UNCHANGED drafts
    PROVE  drafts' = [drafts EXCEPT ![d] = drafts[d]]
    BY LenProperties DEF DialoguesTyped

(* A draft changes, and a handler of it that waits, if any, fits it.       *)
LEMMA PutKeeps ==
    ASSUME DialoguesInv, NEW d \in DOMAIN drafts, NEW r \in DraftRecord,
           drafts' = [drafts EXCEPT ![d] = r],
           Sound(r), drafts[d].created => r.created /\ r.pin = drafts[d].pin,
           store' \in {0, store}, store' = d => r.jobs = 0,
           NEW n,
           \A t \in tasks' :
               \/ t \in tasks /\ (t \in Works => t.draft # d)
               \/ t \in Starts \/ t \in Pressed
               \/ t = n /\ n \in Works /\ n.draft = d /\ Fits(n.at, r),
           \A p \in taken' : p \in taken \/ (p[1] = d /\ r.created /\ r.pin = p[2]),
           pick' \in Nat, picks' \in Nat
    PROVE  DialoguesInv'
<1> USE DEF DialoguesInv
<1>1. /\ drafts' \in Seq(DraftRecord) /\ DOMAIN drafts' = DOMAIN drafts /\ Len(drafts') = Len(drafts)
      /\ drafts'[d] = r /\ \A k \in DOMAIN drafts : k # d => drafts'[k] = drafts[k]
    BY DraftPuts
<1>2. \A t : t \in Works => t \notin Starts /\ t \notin Pressed
    BY DEF Works, Starts, Pressed, Working, Processing
<1>3. d # 0
    BY DraftsAre
<1>4. DialoguesTyped'
    BY <1>1 DEF DialoguesTyped
<1>5. DraftsSound'
    BY <1>1 DEF DraftsSound
<1>6. KeptIsOpen'
    BY <1>1, DraftsAre DEF KeptIsOpen
<1>7. HandlersFit'
    BY <1>1, <1>2 DEF HandlersFit
<1>8. OneHandler'
    BY <1>2 DEF OneHandler
<1>9. TakenOfDrafts'
    BY <1>1 DEF TakenOfDrafts
<1> QED BY <1>4, <1>5, <1>6, <1>7, <1>8, <1>9

(* No draft changes, and no handler comes that works on one.               *)
LEMMA IdleKeeps ==
    ASSUME DialoguesInv, UNCHANGED <<drafts, taken>>,
           store' \in {0, store}, pick' \in Nat, picks' \in Nat,
           \A t \in tasks' : t \in tasks \/ t \in Starts \/ t \in Pressed
    PROVE  DialoguesInv'
    BY DEF DialoguesInv, Works, Starts, Pressed, Working, Processing, DialoguesTyped, DraftsSound,
        KeptIsOpen, TakenOfDrafts, HandlersFit, OneHandler

(* A new draft is kept.                                                    *)
LEMMA NewDraftKeeps ==
    ASSUME DialoguesInv, NEW kind \in Kinds, NEW step \in Dialogue!Steps,
           drafts' = Append(drafts, Dialogue!Draft(kind, step)), store' = Len(drafts) + 1,
           \A t \in tasks' : t \in tasks \/ t \in Pressed,
           UNCHANGED <<pick, picks, taken>>
    PROVE  DialoguesInv'
<1> USE DEF DialoguesInv
<1> DEFINE r == Dialogue!Draft(kind, step)
<1>1. r \in DraftRecord /\ Sound(r) /\ r.jobs = 0
    BY DEF Dialogue!Draft, DraftRecord, Sound
<1> HIDE DEF r
<1>2. /\ drafts' \in Seq(DraftRecord) /\ Len(drafts') = Len(drafts) + 1
      /\ drafts'[Len(drafts) + 1] = r /\ \A k \in 1..Len(drafts) : drafts'[k] = drafts[k]
    BY <1>1, AppendProperties DEF DialoguesTyped, r
<1>3. DOMAIN drafts' = 1..(Len(drafts) + 1) /\ DOMAIN drafts = 1..Len(drafts) /\ Len(drafts) \in Nat
    BY <1>2, DraftsAre, LenProperties
<1>4. \A k \in DOMAIN drafts : k \in DOMAIN drafts' /\ drafts'[k] = drafts[k]
    BY <1>2, <1>3
<1>5. \A t : t \in Works => t \notin Starts /\ t \notin Pressed
    BY DEF Works, Starts, Pressed, Working, Processing
<1>6. DialoguesTyped'
    BY <1>2, <1>3 DEF DialoguesTyped
<1>7. DraftsSound'
    BY <1>1, <1>2, <1>3 DEF DraftsSound
<1>8. KeptIsOpen'
    BY <1>1, <1>2 DEF KeptIsOpen
<1>9. HandlersFit'
    BY <1>4, <1>5 DEF HandlersFit
<1>10. OneHandler'
    BY <1>5 DEF OneHandler
<1>11. TakenOfDrafts'
    BY <1>4 DEF TakenOfDrafts
<1> QED BY <1>6, <1>7, <1>8, <1>9, <1>10, <1>11

-----------------------------------------------------------------------------
(* A draft that may still be composed, and one whose handler waits.        *)
Plain(r) ==
    /\ r \in DraftRecord /\ ~r.submitting /\ ~r.created /\ ~r.cancelled /\ ~r.torn /\ r.jobs = 0
Handled(r) == Plain(r) /\ r.processing

LEMMA PlainIsSound ==
    ASSUME NEW r, Plain(r)
    PROVE  Sound(r) /\ r \in DraftRecord /\ ~r.created /\ r.jobs = 0
BY DEF Plain, Sound

LEMMA ChangedIsPlain ==
    ASSUME NEW r, Plain(r)
    PROVE  /\ Plain(Dialogue!Changed(r))
           /\ Dialogue!Changed(r).processing = r.processing /\ Dialogue!Changed(r).step = r.step
           /\ Dialogue!Changed(r).kind = r.kind
BY DEF Plain, DraftRecord, Dialogue!Changed

LEMMA HandlingIsHandled ==
    ASSUME NEW d, Plain(drafts[d])
    PROVE  /\ Handled(Dialogue!Handling(d))
           /\ Dialogue!Handling(d).step = drafts[d].step /\ Dialogue!Handling(d).kind = drafts[d].kind
BY DEF Plain, Handled, DraftRecord, Dialogue!Handling

LEMMA StepIsPlain ==
    ASSUME NEW r, Plain(r), NEW s \in Dialogue!Steps
    PROVE  /\ Plain([r EXCEPT !.step = s]) /\ [r EXCEPT !.step = s].processing = r.processing
           /\ Plain([r EXCEPT !.step = s, !.editing = FALSE])
           /\ [r EXCEPT !.step = s, !.editing = FALSE].processing = r.processing
BY DEF Plain, DraftRecord

LEMMA EditIsPlain ==
    ASSUME NEW r, Plain(r), NEW s \in Dialogue!Steps
    PROVE  Plain([r EXCEPT !.editing = TRUE, !.step = s])
BY DEF Plain, DraftRecord

LEMMA KindIsPlain ==
    ASSUME NEW r, Plain(r), NEW k \in Kinds
    PROVE  /\ Plain([r EXCEPT !.kind = k]) /\ [r EXCEPT !.kind = k].processing = r.processing
BY DEF Plain, DraftRecord

LEMMA KindStepIsPlain ==
    ASSUME NEW r, Plain(r), NEW k \in Kinds, NEW s \in Dialogue!Steps
    PROVE  Plain([r EXCEPT !.kind = k, !.step = s])
BY DEF Plain, DraftRecord

LEMMA TargetIsPlain ==
    ASSUME NEW r, Plain(r), NEW n \in Nat
    PROVE  /\ Plain([r EXCEPT !.target = TRUE, !.pin = n, !.step = "confirm", !.editing = FALSE])
           /\ [r EXCEPT !.target = TRUE, !.pin = n, !.step = "confirm", !.editing = FALSE].processing
                  = r.processing
    BY DEF Dialogue!Steps, Plain, DraftRecord

(* The draft that is kept and that nobody is busy with.                    *)
LEMMA NotBusy ==
    ASSUME DialoguesInv, store # 0, ~Dialogue!Busy(store)
    PROVE  /\ store \in DOMAIN drafts /\ Plain(drafts[store]) /\ drafts[store] \in DraftRecord
           /\ drafts[store].jobs = 0 /\ ~drafts[store].processing /\ ~drafts[store].cancelling
           /\ ~drafts[store].cancelled /\ ~drafts[store].created
           /\ \A t \in tasks : t \in Works => t.draft # store
    BY DraftsAre DEF DialoguesInv, Dialogue!Busy, KeptIsOpen, DraftsSound, Sound, HandlersFit,
        Works, Fits, Working, Plain

(* A handler that waits with a draft.                                      *)
LEMMA TaskAt ==
    ASSUME DialoguesInv, NEW t \in tasks, t.at \in Working
    PROVE  /\ t \in Works /\ t.draft \in DOMAIN drafts /\ drafts[t.draft] \in DraftRecord
           /\ Fits(t.at, drafts[t.draft]) /\ Sound(drafts[t.draft])
           /\ store # t.draft \/ drafts[t.draft].jobs = 0
           /\ t.at \in Processing \ {"reply"} => Handled(drafts[t.draft])
           /\ \A u \in tasks : u # t /\ u \in Works => u.draft # t.draft
    BY TasksAre, DraftsAre DEF DialoguesInv, Working, Processing, HandlersFit, DraftsSound,
        KeptIsOpen, OneHandler, Handled, Plain, Fits, Sound

LEMMA TaskBecomes ==
    ASSUME NEW t \in Works, NEW at \in Working
    PROVE  [t EXCEPT !.at = at] \in Works /\ [t EXCEPT !.at = at].draft = t.draft
           /\ [t EXCEPT !.at = at].at = at
BY DEF Works

LEMMA OutdatedArePressed ==
    ASSUME DialoguesTyped
    PROVE  \A t \in Dialogue!Outdated : t \in Pressed
    BY TasksAre DEF Pressed, Dialogue!Outdated, Dialogue!Pressing

(* A handler goes on with the draft that it composes.                      *)
LEMMA HandledKeeps ==
    ASSUME DialoguesInv, NEW d \in DOMAIN drafts, NEW r, Handled(r), ~drafts[d].created,
           drafts' = [drafts EXCEPT ![d] = r], store' \in {0, store},
           UNCHANGED <<pick, picks, taken>>, NEW n,
           \A t \in tasks' :
               \/ t \in tasks /\ (t \in Works => t.draft # d)
               \/ t \in Starts \/ t \in Pressed
               \/ t = n /\ n \in Works /\ n.draft = d /\ n.at \in Processing
    PROVE  DialoguesInv'
<1>1. r \in DraftRecord /\ Sound(r) /\ r.jobs = 0
    BY PlainIsSound DEF Handled
<1>2. \A at \in Processing : Fits(at, r)
    BY DEF Handled, Plain, Fits, Processing
<1>3. pick' \in Nat /\ picks' \in Nat
    BY DEF DialoguesInv, DialoguesTyped
<1>4. \A t \in tasks' :
         \/ t \in tasks /\ (t \in Works => t.draft # d)
         \/ t \in Starts \/ t \in Pressed
         \/ t = n /\ n \in Works /\ n.draft = d /\ Fits(n.at, r)
    BY <1>2
<1>5. \A p \in taken' : p \in taken \/ (p[1] = d /\ r.created /\ r.pin = p[2])
    OBVIOUS
<1> HIDE DEF Handled, Fits
<1> QED BY <1>1, <1>3, <1>4, <1>5, PutKeeps

(* So does nobody but the one who composes it.                             *)
LEMMA PlainKeeps ==
    ASSUME DialoguesInv, NEW d \in DOMAIN drafts, NEW r, Plain(r), ~drafts[d].created,
           drafts' = [drafts EXCEPT ![d] = r], store' \in {0, store},
           UNCHANGED <<pick, picks, taken>>,
           \A t \in tasks' :
               \/ t \in tasks /\ (t \in Works => t.draft # d)
               \/ t \in Starts \/ t \in Pressed
    PROVE  DialoguesInv'
    BY PlainIsSound, PutKeeps DEF DialoguesInv, DialoguesTyped

-----------------------------------------------------------------------------
LEMMA BeginningsKeep ==
    ASSUME OpeningSteps, DialoguesInv,
           \/ Dialogue!StartTelegramWizard \/ Dialogue!Started \/ Dialogue!Add \/ Dialogue!Expire
           \/ Dialogue!Select \/ Dialogue!Use \/ Dialogue!Restart
    PROVE  DialoguesInv'
    BY IdleKeeps, TasksAre, OutdatedArePressed, NewDraftKeeps DEF DialoguesInv, DialoguesTyped,
        Kinds, Dialogue!Steps, Dialogue!StartTelegramWizard, Starts, OpeningSteps, Dialogue!choice,
        Dialogue!Started, Dialogue!Waiting, Dialogue!Add, Dialogue!Expire, Dialogue!Select,
        Dialogue!Use, Dialogue!Restart

(* One more handler waits with the draft that is kept.                     *)
LEMMA HandlerBegins ==
    ASSUME DialoguesInv, store # 0, ~Dialogue!Busy(store),
           NEW r, Handled(r), drafts' = [drafts EXCEPT ![store] = r],
           NEW at \in Processing, store' \in {0, store}, UNCHANGED <<pick, picks, taken>>,
           \A t \in tasks' : t \in tasks \/ t \in Pressed \/ t = [at |-> at, draft |-> store]
    PROVE  DialoguesInv'
<1> DEFINE n == [at |-> at, draft |-> store]
<1>1. /\ store \in DOMAIN drafts /\ ~drafts[store].created
      /\ \A t \in tasks : t \in Works => t.draft # store
    BY NotBusy
<1>2. n \in Works /\ n.draft = store /\ n.at \in Processing
    BY <1>1, DraftsAre DEF DialoguesInv, Works, Working
<1>3. \A t \in tasks' :
         \/ t \in tasks /\ (t \in Works => t.draft # store)
         \/ t \in Starts \/ t \in Pressed
         \/ t = n /\ n \in Works /\ n.draft = store /\ n.at \in Processing
    BY <1>1, <1>2
<1> HIDE DEF n
<1> QED BY <1>1, <1>3, HandledKeeps

LEMMA AdvanceKeeps ==
    ASSUME DialoguesInv, store # 0, ~Dialogue!Busy(store),
           NEW r, Handled(r), NEW s \in Dialogue!Steps, Dialogue!Advance(store, r, s),
           store' = store, UNCHANGED <<pick, picks, taken>>
    PROVE  DialoguesInv'
<1> DEFINE c == Dialogue!Changed(r)
           x == IF r.editing THEN "confirm" ELSE s
           q == [c EXCEPT !.step = x, !.editing = FALSE]
<1>1. Plain(c) /\ c.processing
    BY ChangedIsPlain DEF Handled
<1>2. x \in Dialogue!Steps
    BY DEF Dialogue!Steps
<1>3. drafts' = [drafts EXCEPT ![store] = q] /\ tasks' = tasks \cup {[at |-> "prompt", draft |-> store]}
    BY DEF Dialogue!Advance, Dialogue!Put, Dialogue!Waits
<1> HIDE DEF c, x
<1>4. Plain(q) /\ q.processing
    BY <1>1, <1>2, StepIsPlain
<1> HIDE DEF q
<1>5. Handled(q)
    BY <1>4 DEF Handled
<1>6. "prompt" \in Processing
    BY DEF Processing
<1> QED BY <1>3, <1>5, <1>6, HandlerBegins

LEMMA ComplainKeeps ==
    ASSUME DialoguesInv, store # 0, ~Dialogue!Busy(store), Dialogue!Complain(store),
           store' \in {0, store}, UNCHANGED <<pick, picks, taken>>
    PROVE  DialoguesInv'
    BY NotBusy, HandlingIsHandled, HandlerBegins DEF Processing, Dialogue!Complain, Dialogue!Put,
        Dialogue!Waits

LEMMA EnterKeeps ==
    ASSUME DialoguesInv, store # 0, ~Dialogue!Busy(store), drafts[store].step \notin {"mode", "confirm"},
           Dialogue!Enter(store), store' = store, UNCHANGED <<pick, picks, taken>>
    PROVE  DialoguesInv'
<1> DEFINE r == Dialogue!Changed(Dialogue!Handling(store))
<1>1. Handled(r) /\ Plain(r) /\ r.processing
    BY NotBusy, HandlingIsHandled, ChangedIsPlain DEF Handled
<1>2. /\ {"prompt", "validate", "subscribe", "target"} \subseteq Processing
      /\ {"confirm", "path", "end"} \subseteq Dialogue!Steps
    BY DEF Processing, Dialogue!Steps
<1>3. \/ \E s \in {"path", "confirm"} : Dialogue!Advance(store, r, s)
      \/ \E at \in {"validate", "subscribe", "target"} :
            drafts' = [drafts EXCEPT ![store] = r] /\ tasks' = tasks \cup {[at |-> at, draft |-> store]}
      \/ /\ drafts' = [drafts EXCEPT ![store] = [r EXCEPT !.step = "end"]]
         /\ tasks' = tasks \cup {[at |-> "prompt", draft |-> store]}
    BY DEF Dialogue!Enter, Dialogue!Put, Dialogue!Waits
<1> HIDE DEF r
<1>4. CASE \E s \in {"path", "confirm"} : Dialogue!Advance(store, r, s)
    BY <1>1, <1>2, <1>4, AdvanceKeeps
<1>5. CASE \E at \in {"validate", "subscribe", "target"} :
              drafts' = [drafts EXCEPT ![store] = r] /\ tasks' = tasks \cup {[at |-> at, draft |-> store]}
    BY <1>1, <1>2, <1>5, HandlerBegins
<1>6. CASE /\ drafts' = [drafts EXCEPT ![store] = [r EXCEPT !.step = "end"]]
           /\ tasks' = tasks \cup {[at |-> "prompt", draft |-> store]}
    <2> DEFINE q == [r EXCEPT !.step = "end"]
    <2>1. Plain(q) /\ q.processing
        BY <1>1, <1>2, StepIsPlain
    <2>2. drafts' = [drafts EXCEPT ![store] = q]
        BY <1>6
    <2> HIDE DEF q
    <2>3. Handled(q)
        BY <2>1 DEF Handled
    <2> QED BY <1>2, <1>6, <2>2, <2>3, HandlerBegins
<1> QED BY <1>3, <1>4, <1>5, <1>6

Submits(q) == [q EXCEPT !.submitting = TRUE]
Cancels(q) == [q EXCEPT !.cancelling = TRUE]

LEMMA FlagsOfPlain ==
    ASSUME NEW q, Plain(q)
    PROVE  /\ Submits(q) \in DraftRecord /\ Sound(Submits(q)) /\ Submits(q).jobs = 0
           /\ Submits(q).submitting /\ ~Submits(q).cancelled
           /\ Cancels(q) \in DraftRecord /\ Sound(Cancels(q)) /\ Cancels(q).jobs = 0
           /\ Cancels(q).cancelling
<1>1. /\ Submits(q) \in DraftRecord /\ Submits(q).submitting
      /\ ~Submits(q).cancelled /\ ~Submits(q).torn /\ Submits(q).jobs = 0
    BY DEF Plain, DraftRecord, Submits
<1>2. /\ Cancels(q) \in DraftRecord /\ Cancels(q).cancelling
      /\ ~Cancels(q).cancelled /\ ~Cancels(q).torn /\ Cancels(q).jobs = 0
    BY DEF Plain, DraftRecord, Cancels
<1> QED BY <1>1, <1>2 DEF Sound

(* A draft that is confirmed waits for its job.                            *)
LEMMA SubmitKeeps ==
    ASSUME DialoguesInv, store # 0, ~Dialogue!Busy(store),
           drafts' = [drafts EXCEPT ![store] = [drafts[store] EXCEPT !.submitting = TRUE]],
           store' = store, UNCHANGED <<pick, picks, taken>>,
           \A t \in tasks' : t \in tasks \/ t = [at |-> "submit", draft |-> store]
    PROVE  DialoguesInv'
<1> DEFINE r == Submits(drafts[store])
           n == [at |-> "submit", draft |-> store]
<1>1. /\ store \in DOMAIN drafts /\ drafts[store] \in DraftRecord /\ ~drafts[store].created
      /\ ~drafts[store].cancelled /\ drafts[store].jobs = 0 /\ Plain(drafts[store])
      /\ \A t \in tasks : t \in Works => t.draft # store
    BY NotBusy
<1>2. r \in DraftRecord /\ Sound(r) /\ r.jobs = 0 /\ r.submitting /\ ~r.cancelled
    BY <1>1, FlagsOfPlain
<1>3. n \in Works /\ n.draft = store /\ n.at = "submit"
    BY <1>1, DraftsAre DEF DialoguesInv, Works, Working
<1> HIDE DEF r
<1>4. Fits("submit", r)
    BY <1>2 DEF Fits, Processing
<1>5. \A t \in tasks' :
         \/ t \in tasks /\ (t \in Works => t.draft # store)
         \/ t \in Starts \/ t \in Pressed
         \/ t = n /\ n \in Works /\ n.draft = store /\ Fits(n.at, r)
    BY <1>1, <1>3, <1>4
<1>6. drafts' = [drafts EXCEPT ![store] = r] /\ pick' \in Nat /\ picks' \in Nat
    BY DEF r, Submits, DialoguesInv, DialoguesTyped
<1> HIDE DEF n
<1> QED BY <1>1, <1>2, <1>5, <1>6, PutKeeps

LEMMA CancelKeeps ==
    ASSUME DialoguesInv, Dialogue!Cancel
    PROVE  DialoguesInv'
<1> DEFINE r == Cancels(drafts[store])
           n == [at |-> "cancel", draft |-> store]
<1>0. store # 0 /\ ~Dialogue!Busy(store)
    BY DEF Dialogue!Cancel
<1>1. /\ store \in DOMAIN drafts /\ drafts[store] \in DraftRecord /\ ~drafts[store].created
      /\ ~drafts[store].cancelled /\ drafts[store].jobs = 0 /\ Plain(drafts[store])
      /\ \A t \in tasks : t \in Works => t.draft # store
    BY <1>0, NotBusy
<1>2. r \in DraftRecord /\ Sound(r) /\ r.jobs = 0 /\ r.cancelling
    BY <1>1, FlagsOfPlain
<1>3. n \in Works /\ n.draft = store /\ n.at = "cancel"
    BY <1>1, DraftsAre DEF DialoguesInv, Works, Working
<1> HIDE DEF r
<1>4. Fits("cancel", r)
    BY <1>2 DEF Fits, Processing
<1>5. \A t \in tasks' :
         \/ t \in tasks /\ (t \in Works => t.draft # store)
         \/ t \in Starts \/ t \in Pressed
         \/ t = n /\ n \in Works /\ n.draft = store /\ Fits(n.at, r)
    BY <1>1, <1>3, <1>4 DEF Dialogue!Cancel, Dialogue!Waits
<1>6. /\ drafts' = [drafts EXCEPT ![store] = r] /\ pick' \in Nat /\ picks' \in Nat
      /\ store' = store /\ taken' = taken
    BY DEF r, Cancels, DialoguesInv, DialoguesTyped, Dialogue!Cancel, Dialogue!Put, Dialogue!choice
<1> HIDE DEF n
<1> QED BY <1>1, <1>2, <1>5, <1>6, PutKeeps

LEMMA TextKeeps ==
    ASSUME DialoguesInv, Dialogue!Text
    PROVE  DialoguesInv'
<1>0. store # 0 /\ ~Dialogue!Busy(store) /\ UNCHANGED <<pick, picks, taken>>
    BY DEF Dialogue!Text, Dialogue!choice
<1>1. \/ Dialogue!Complain(store) /\ store' \in {0, store}
      \/ /\ store' = store
         /\ \E kind \in {"tag", "date"} :
               Dialogue!Advance(store, [Dialogue!Handling(store) EXCEPT !.kind = kind], "source")
      \/ drafts[store].step \notin {"mode", "confirm"} /\ Dialogue!Enter(store) /\ store' = store
      \/ Dialogue!Submit(store) /\ store' = store
      \/ /\ store' = store /\ Dialogue!Put(store, Dialogue!Handling(store))
         /\ Dialogue!Waits(store, "list")
    BY DEF Dialogue!Text
<1>2. Handled(Dialogue!Handling(store))
    BY <1>0, NotBusy, HandlingIsHandled
<1>3. CASE Dialogue!Complain(store) /\ store' \in {0, store}
    BY <1>0, <1>3, ComplainKeeps
<1>4. CASE /\ store' = store
           /\ \E kind \in {"tag", "date"} :
                 Dialogue!Advance(store, [Dialogue!Handling(store) EXCEPT !.kind = kind], "source")
    <2>1. PICK kind \in {"tag", "date"} :
             Dialogue!Advance(store, [Dialogue!Handling(store) EXCEPT !.kind = kind], "source")
        BY <1>4
    <2> DEFINE h == Dialogue!Handling(store)
               q == [h EXCEPT !.kind = kind]
    <2>2. kind \in Kinds /\ "source" \in Dialogue!Steps /\ Plain(h) /\ h.processing
        BY <1>2 DEF Kinds, Dialogue!Steps, Handled
    <2>3. Dialogue!Advance(store, q, "source")
        BY <2>1
    <2> HIDE DEF h
    <2>4. Plain(q) /\ q.processing
        BY <2>2, KindIsPlain
    <2> HIDE DEF q
    <2>5. Handled(q)
        BY <2>4 DEF Handled
    <2> QED BY <1>0, <1>4, <2>2, <2>3, <2>5, AdvanceKeeps
<1>5. CASE drafts[store].step \notin {"mode", "confirm"} /\ Dialogue!Enter(store) /\ store' = store
    BY <1>0, <1>5, EnterKeeps
<1>6. CASE Dialogue!Submit(store) /\ store' = store
    BY <1>0, <1>6, SubmitKeeps DEF Dialogue!Submit, Dialogue!Put, Dialogue!Waits
<1>7. CASE /\ store' = store /\ Dialogue!Put(store, Dialogue!Handling(store))
           /\ Dialogue!Waits(store, "list")
    BY <1>0, <1>2, <1>7, HandlerBegins DEF Processing, Dialogue!Put, Dialogue!Waits
<1> QED BY <1>1, <1>3, <1>4, <1>5, <1>6, <1>7

(* The handler of a draft goes on to wait for something else.              *)
LEMMA TaskGoesOn ==
    ASSUME DialoguesInv, NEW t \in tasks, t.at \in Processing \ {"reply"},
           NEW r, Handled(r), drafts' = [drafts EXCEPT ![t.draft] = r],
           NEW at \in Processing, Dialogue!Becomes(t, at), store' \in {0, store},
           UNCHANGED <<pick, picks, taken>>
    PROVE  DialoguesInv'
<1> DEFINE n == [t EXCEPT !.at = at]
<1>0. t.at \in Working /\ at \in Working
    BY DEF Working
<1>1. /\ t \in Works /\ t.draft \in DOMAIN drafts /\ Handled(drafts[t.draft])
      /\ \A u \in tasks : u # t /\ u \in Works => u.draft # t.draft
    BY <1>0, TaskAt
<1>2. n \in Works /\ n.draft = t.draft /\ n.at = at
    BY <1>0, <1>1, TaskBecomes
<1>3. ~drafts[t.draft].created
    BY <1>1 DEF Handled, Plain
<1>4. \A u \in tasks' :
         \/ u \in tasks /\ (u \in Works => u.draft # t.draft)
         \/ u \in Starts \/ u \in Pressed
         \/ u = n /\ n \in Works /\ n.draft = t.draft /\ n.at \in Processing
    BY <1>1, <1>2 DEF Dialogue!Becomes
<1> HIDE DEF n
<1> QED BY <1>1, <1>3, <1>4, HandledKeeps

LEMMA WaitedFor ==
    ASSUME NEW at, NEW t \in Dialogue!Waiting(at)
    PROVE  t \in tasks /\ t.at = at
BY DEF Dialogue!Waiting

LEMMA ValidatedKeeps ==
    ASSUME DialoguesInv, Dialogue!Validated
    PROVE  DialoguesInv'
<1>1. PICK t \in Dialogue!Waiting("validate") :
         /\ \/ Dialogue!Becomes(t, "reply") /\ UNCHANGED drafts
            \/ /\ Dialogue!Becomes(t, "prompt")
               /\ drafts' = [drafts EXCEPT ![t.draft] =
                                [Dialogue!Changed(drafts[t.draft]) EXCEPT
                                   !.step = IF drafts[t.draft].kind = "manage" THEN "path"
                                            ELSE IF drafts[t.draft].editing THEN "confirm"
                                            ELSE Dialogue!Filter(drafts[t.draft]),
                                   !.editing = FALSE]]
         /\ UNCHANGED <<store, pick, picks, taken>>
    BY DEF Dialogue!Validated, Dialogue!choice, Dialogue!Put
<1>2. t \in tasks /\ t.at = "validate" /\ t.at \in Processing \ {"reply"} /\ t.at \in Working
    BY WaitedFor DEF Processing, Working
<1>3. t.draft \in DOMAIN drafts /\ Handled(drafts[t.draft])
    BY <1>2, TaskAt
<1>4. {"reply", "prompt"} \subseteq Processing
    BY DEF Processing
<1>5. CASE Dialogue!Becomes(t, "reply") /\ UNCHANGED drafts
    BY <1>3, <1>5, DraftSame, <1>1, <1>2, <1>4, TaskGoesOn DEF DialoguesInv
<1> DEFINE c == Dialogue!Changed(drafts[t.draft])
           x == IF drafts[t.draft].kind = "manage" THEN "path"
                ELSE IF drafts[t.draft].editing THEN "confirm"
                ELSE Dialogue!Filter(drafts[t.draft])
           q == [c EXCEPT !.step = x, !.editing = FALSE]
<1>6. CASE Dialogue!Becomes(t, "prompt") /\ drafts' = [drafts EXCEPT ![t.draft] = q]
    <2>1. Plain(c) /\ c.processing
        BY <1>3, ChangedIsPlain DEF Handled
    <2>2. x \in Dialogue!Steps
        BY DEF Dialogue!Steps, Dialogue!Filter
    <2> HIDE DEF c, x
    <2>3. Plain(q) /\ q.processing
        BY <2>1, <2>2, StepIsPlain
    <2> HIDE DEF q
    <2>4. Handled(q)
        BY <2>3 DEF Handled
    <2> QED BY <1>1, <1>2, <1>3, <1>4, <1>6, <2>4, TaskGoesOn
<1> QED BY <1>1, <1>5, <1>6

LEMMA TargetedKeeps ==
    ASSUME DialoguesInv, Dialogue!Targeted
    PROVE  DialoguesInv'
<1>1. PICK t \in Dialogue!Waiting("target") :
         /\ drafts' = [drafts EXCEPT ![t.draft] =
                          [Dialogue!Changed(drafts[t.draft]) EXCEPT
                             !.target = TRUE, !.pin = pick, !.step = "confirm", !.editing = FALSE]]
         /\ Dialogue!Becomes(t, "prompt")
         /\ UNCHANGED <<store, pick, picks, taken>>
    BY DEF Dialogue!Targeted, Dialogue!choice, Dialogue!Put
<1>2. t \in tasks /\ t.at = "target" /\ t.at \in Processing \ {"reply"} /\ t.at \in Working
    BY WaitedFor DEF Processing, Working
<1>3. t.draft \in DOMAIN drafts /\ Handled(drafts[t.draft])
    BY <1>2, TaskAt
<1> DEFINE c == Dialogue!Changed(drafts[t.draft])
           q == [c EXCEPT !.target = TRUE, !.pin = pick, !.step = "confirm", !.editing = FALSE]
<1>4. Plain(c) /\ c.processing
    BY <1>3, ChangedIsPlain DEF Handled
<1>5. "confirm" \in Dialogue!Steps /\ pick \in Nat /\ "prompt" \in Processing
    BY DEF Dialogue!Steps, DialoguesInv, DialoguesTyped, Processing
<1> HIDE DEF c
<1>6. Plain(q) /\ q.processing
    BY <1>4, <1>5, TargetIsPlain
<1>7. drafts' = [drafts EXCEPT ![t.draft] = q]
    BY <1>1 DEF c
<1> HIDE DEF q
<1>8. Handled(q)
    BY <1>6 DEF Handled
<1> QED BY <1>1, <1>2, <1>3, <1>5, <1>7, <1>8, TaskGoesOn

-----------------------------------------------------------------------------
(* What the last steps do to a draft.                                      *)
Frees(q) == [q EXCEPT !.processing = FALSE]
Counts(q) == [q EXCEPT !.jobs = @ + 1]
Creates(q) == [q EXCEPT !.created = TRUE, !.jobs = @ + 1]
Settles(q) == [q EXCEPT !.submitting = FALSE]
Resumes(q) == [q EXCEPT !.cancelling = FALSE]
Ends(q) == [q EXCEPT !.cancelling = FALSE, !.cancelled = TRUE]

(* Those that only release it.                                             *)
Released(r, q) ==
    /\ r \in DraftRecord /\ r.jobs = q.jobs /\ r.pin = q.pin
    /\ q.created => r.created
    /\ r.torn => q.torn
    /\ r.cancelled => q.cancelled

LEMMA ReleasesAre ==
    ASSUME NEW q \in DraftRecord
    PROVE  Released(Frees(q), q) /\ Released(Settles(q), q) /\ Released(Resumes(q), q) /\ Released(q, q)
    BY DEF DraftRecord, Released, Frees, Settles, Resumes

LEMMA ReleasedIsSound ==
    ASSUME NEW q, NEW r, Sound(q), Released(r, q)
    PROVE  Sound(r)
BY DEF Released, Sound

LEMMA CountsAre ==
    ASSUME NEW q, Handled(q)
    PROVE  Counts(q) \in DraftRecord /\ Sound(Counts(q)) /\ Fits("reply", Counts(q))
    BY DEF Handled, Plain, DraftRecord, Counts, Sound, Fits

LEMMA CreatesAre ==
    ASSUME NEW q \in DraftRecord, Sound(q), Fits("submit", q)
    PROVE  /\ Creates(q) \in DraftRecord /\ Sound(Creates(q)) /\ Fits("effects", Creates(q))
           /\ Creates(q).created /\ Creates(q).pin = q.pin
<1>1. q.submitting /\ ~q.cancelled /\ ~q.torn /\ q.jobs = 0
    BY DEF Sound, Fits
<1>2. Creates(q) \in DraftRecord
    <2> DEFINE c == [q EXCEPT !.created = TRUE]
    <2>1. c \in DraftRecord /\ c.jobs = q.jobs
        BY DEF DraftRecord
    <2>2. [c EXCEPT !.jobs = @ + 1] \in DraftRecord
        <3> HIDE DEF c
        <3> QED BY <2>1 DEF DraftRecord
    <2>3. Creates(q) = [c EXCEPT !.jobs = @ + 1]
        BY DEF Creates, DraftRecord
    <2> QED BY <2>2, <2>3
<1>5. Creates(q).created /\ Creates(q).pin = q.pin
    BY DEF DraftRecord, Creates
<1>3. Creates(q).jobs = q.jobs + 1
    BY DEF DraftRecord, Creates
<1>4. /\ Creates(q).submitting = q.submitting /\ Creates(q).torn = q.torn
      /\ Creates(q).cancelled = q.cancelled
    BY DEF DraftRecord, Creates
<1> QED BY <1>1, <1>2, <1>3, <1>4, <1>5 DEF Sound, Fits, Processing

LEMMA EndsAre ==
    ASSUME NEW q \in DraftRecord, Sound(q), q.jobs = 0
    PROVE  /\ Ends(q) \in DraftRecord /\ Sound(Ends(q))
           /\ q.created => Ends(q).created
           /\ Ends(q).pin = q.pin
<1>1. ~q.torn
    BY DEF Sound
<1>2. /\ Ends(q) \in DraftRecord /\ Ends(q).jobs = 0 /\ ~Ends(q).torn /\ Ends(q).pin = q.pin
      /\ q.created => Ends(q).created
    BY <1>1 DEF DraftRecord, Ends
<1> QED BY <1>2 DEF Sound

(* A handler leaves its draft, or waits with it for something else.        *)
LEMMA HandlerMoves ==
    ASSUME DialoguesInv, NEW t \in tasks, t.at \in Working, NEW r \in DraftRecord, Sound(r),
           drafts' = [drafts EXCEPT ![t.draft] = r],
           drafts[t.draft].created => r.created /\ r.pin = drafts[t.draft].pin,
           store' \in {0, store}, store' = t.draft => r.jobs = 0, NEW n,
           \A u \in tasks' :
               \/ u \in tasks /\ u # t
               \/ u \in Pressed
               \/ u = n /\ n \in Works /\ n.draft = t.draft /\ Fits(n.at, r),
           \A p \in taken' : p \in taken \/ (p[1] = t.draft /\ r.created /\ r.pin = p[2]),
           pick' \in Nat, picks' \in Nat
    PROVE  DialoguesInv'
<1>1. t.draft \in DOMAIN drafts /\ \A u \in tasks : u # t /\ u \in Works => u.draft # t.draft
    BY TaskAt
<1>2. \A u \in tasks' :
         \/ u \in tasks /\ (u \in Works => u.draft # t.draft)
         \/ u \in Starts \/ u \in Pressed
         \/ u = n /\ n \in Works /\ n.draft = t.draft /\ Fits(n.at, r)
    BY <1>1
<1> QED BY <1>1, <1>2, PutKeeps

LEMMA HandlerLeaves ==
    ASSUME DialoguesInv, NEW t \in tasks, t.at \in Working, NEW r, Released(r, drafts[t.draft]),
           drafts' = [drafts EXCEPT ![t.draft] = r], store' = store,
           \A u \in tasks' : (u \in tasks /\ u # t) \/ u \in Pressed,
           \A p \in taken' : p \in taken \/
               (p[1] = t.draft /\ drafts[t.draft].created /\ drafts[t.draft].pin = p[2]),
           pick' \in Nat, picks' \in Nat
    PROVE  DialoguesInv'
    BY TaskAt, ReleasedIsSound, HandlerMoves DEF Released

LEMMA HandlersLeave ==
    ASSUME DialoguesInv, Dialogue!Replied \/ Dialogue!Prompted \/ Dialogue!Settled
    PROVE  DialoguesInv'
<1>0. pick \in Nat /\ picks \in Nat /\ DialoguesTyped
    BY DEF DialoguesInv, DialoguesTyped
<1>1. CASE Dialogue!Replied \/ Dialogue!Prompted
    BY <1>1, TaskAt, ReleasesAre, <1>0, OutdatedArePressed, HandlerLeaves DEF Dialogue!Replied,
        Dialogue!Prompted, Dialogue!Waiting, Dialogue!Leaves, Dialogue!Put, Dialogue!Free,
        Dialogue!choice, Frees, Working, Processing
<1>2. CASE Dialogue!Settled
    <2>1. PICK t \in tasks :
             /\ t.at \in {"effects", "restore"}
             /\ drafts' = [drafts EXCEPT ![t.draft] = Settles(drafts[t.draft])]
             /\ tasks' = tasks \ {t} /\ UNCHANGED <<store, picks>>
             /\ \/ UNCHANGED <<pick, taken>>
                \/ /\ t.at = "effects" /\ drafts[t.draft].pin = pick
                   /\ pick' = 0 /\ taken' = taken \cup {<<t.draft, pick>>}
        BY <1>2 DEF Dialogue!Settled, Dialogue!Waiting, Dialogue!Leaves, Dialogue!Put, Dialogue!Same, Settles
    <2>2. t.at \in Working
        BY <2>1 DEF Working
    <2>3. Released(Settles(drafts[t.draft]), drafts[t.draft]) /\ Fits(t.at, drafts[t.draft])
        BY <2>2, TaskAt, ReleasesAre
    <2>4. t.at = "effects" => drafts[t.draft].created
        BY <2>3 DEF Fits
    <2>5. \A p \in taken' : p \in taken \/
             (p[1] = t.draft /\ drafts[t.draft].created /\ drafts[t.draft].pin = p[2])
        BY <2>1, <2>4
    <2>6. pick' \in Nat /\ picks' \in Nat
        BY <1>0, <2>1
    <2>7. \A u \in tasks' : (u \in tasks /\ u # t) \/ u \in Pressed
        BY <2>1
    <2> QED BY <2>1, <2>2, <2>3, <2>5, <2>6, <2>7, HandlerLeaves
<1> QED BY <1>1, <1>2

(* A subscription is made, the list was sent, or neither.                  *)
LEMMA RepliesFollow ==
    ASSUME DialoguesInv, Dialogue!Subscribed \/ Dialogue!Listed
    PROVE  DialoguesInv'
<1>1. PICK t \in tasks :
         /\ t.at \in {"subscribe", "list"} /\ Dialogue!Becomes(t, "reply")
         /\ UNCHANGED <<pick, picks, taken>> /\ store' \in {0, store}
         /\ \/ UNCHANGED drafts
            \/ /\ drafts' = [drafts EXCEPT ![t.draft] = Counts(drafts[t.draft])]
               /\ store' # t.draft \/ store' = 0
    BY DEF Dialogue!Subscribed, Dialogue!Listed, Dialogue!Waiting, Dialogue!Put, Dialogue!Current,
           Dialogue!choice, Counts
<1> DEFINE n == [t EXCEPT !.at = "reply"]
<1>2. t.at \in Working /\ t.at \in Processing \ {"reply"} /\ "reply" \in Working /\ "reply" \in Processing
    BY <1>1 DEF Working, Processing
<1>3. /\ t \in Works /\ t.draft \in DOMAIN drafts /\ Handled(drafts[t.draft])
      /\ drafts[t.draft] \in DraftRecord
    BY <1>2, TaskAt
<1>4. t.draft # 0 /\ ~drafts[t.draft].created
    BY <1>3, DraftsAre DEF DialoguesInv, Handled, Plain
<1>5. CASE UNCHANGED drafts
    BY <1>3, <1>5, DraftSame, <1>1, <1>2, TaskGoesOn DEF DialoguesInv
<1>6. CASE /\ drafts' = [drafts EXCEPT ![t.draft] = Counts(drafts[t.draft])]
           /\ store' # t.draft \/ store' = 0
    <2> DEFINE r == Counts(drafts[t.draft])
    <2>1. r \in DraftRecord /\ Sound(r) /\ Fits("reply", r)
        BY <1>3, CountsAre
    <2>2. n \in Works /\ n.draft = t.draft /\ n.at = "reply"
        BY <1>2, <1>3, TaskBecomes
    <2>3. \A u \in tasks' :
             \/ u \in tasks /\ u # t
             \/ u \in Pressed
             \/ u = n /\ n \in Works /\ n.draft = t.draft /\ Fits(n.at, r)
        BY <1>1, <2>1, <2>2 DEF Dialogue!Becomes
    <2>4. pick' \in Nat /\ picks' \in Nat
        BY <1>1 DEF DialoguesInv, DialoguesTyped
    <2> HIDE DEF n, r
    <2>5. drafts' = [drafts EXCEPT ![t.draft] = r]
        BY <1>6 DEF r
    <2>6. store' # t.draft
        BY <1>4, <1>6
    <2> QED BY <1>1, <1>2, <1>4, <2>1, <2>3, <2>4, <2>5, <2>6, HandlerMoves
<1> QED BY <1>1, <1>5, <1>6

(* The job is made, or is not.                                             *)
LEMMA JobsKeep ==
    ASSUME DialoguesInv, Dialogue!Created \/ Dialogue!Rejected
    PROVE  DialoguesInv'
<1>0. pick \in Nat /\ picks \in Nat
    BY DEF DialoguesInv, DialoguesTyped
<1>1. CASE Dialogue!Created
    <2>1. PICK t \in tasks :
             /\ t.at = "submit" /\ drafts' = [drafts EXCEPT ![t.draft] = Creates(drafts[t.draft])]
             /\ store' = (IF store = t.draft THEN 0 ELSE store)
             /\ Dialogue!Becomes(t, "effects") /\ UNCHANGED <<pick, picks, taken>>
        BY <1>1 DEF Dialogue!Created, Dialogue!Waiting, Dialogue!Put, Dialogue!Current, Dialogue!choice, Creates
    <2> DEFINE n == [t EXCEPT !.at = "effects"]
               r == Creates(drafts[t.draft])
    <2>2. t.at \in Working /\ "effects" \in Working
        BY <2>1 DEF Working
    <2>3. /\ t \in Works /\ t.draft \in DOMAIN drafts /\ drafts[t.draft] \in DraftRecord
          /\ Fits("submit", drafts[t.draft]) /\ Sound(drafts[t.draft])
        BY <2>1, <2>2, TaskAt
    <2>4. r \in DraftRecord /\ Sound(r) /\ Fits("effects", r) /\ r.created /\ r.pin = drafts[t.draft].pin
        BY <2>3, CreatesAre
    <2>5. n \in Works /\ n.draft = t.draft /\ n.at = "effects"
        BY <2>2, <2>3, TaskBecomes
    <2>6. \A u \in tasks' :
             \/ u \in tasks /\ u # t
             \/ u \in Pressed
             \/ u = n /\ n \in Works /\ n.draft = t.draft /\ Fits(n.at, r)
        BY <2>1, <2>4, <2>5 DEF Dialogue!Becomes
    <2>7. t.draft # 0
        BY <2>3, DraftsAre DEF DialoguesInv
    <2> HIDE DEF n, r
    <2>8. drafts' = [drafts EXCEPT ![t.draft] = r] /\ store' # t.draft /\ store' \in {0, store}
        BY <2>1, <2>7 DEF r
    <2> QED BY <1>0, <2>1, <2>2, <2>4, <2>6, <2>8, HandlerMoves
<1>2. CASE Dialogue!Rejected
    <2>1. PICK t \in tasks :
             /\ t.at = "submit" /\ Dialogue!Becomes(t, "restore")
             /\ UNCHANGED <<drafts, store, pick, picks, taken>>
        BY <1>2 DEF Dialogue!Rejected, Dialogue!Waiting, Dialogue!choice
    <2> DEFINE n == [t EXCEPT !.at = "restore"]
               r == drafts[t.draft]
    <2>2. t.at \in Working /\ "restore" \in Working
        BY <2>1 DEF Working
    <2>3. /\ t \in Works /\ t.draft \in DOMAIN drafts /\ r \in DraftRecord
          /\ Fits("submit", r) /\ Sound(r)
          /\ store # t.draft \/ r.jobs = 0
        BY <2>1, <2>2, TaskAt
    <2>4. Fits("restore", r)
        BY <2>3 DEF Fits, Processing
    <2>5. n \in Works /\ n.draft = t.draft /\ n.at = "restore"
        BY <2>2, <2>3, TaskBecomes
    <2>6. \A u \in tasks' :
             \/ u \in tasks /\ u # t
             \/ u \in Pressed
             \/ u = n /\ n \in Works /\ n.draft = t.draft /\ Fits(n.at, r)
        BY <2>1, <2>4, <2>5 DEF Dialogue!Becomes
    <2>7. drafts' = [drafts EXCEPT ![t.draft] = r]
        BY <2>1, <2>3, DraftSame DEF DialoguesInv
    <2> HIDE DEF n
    <2>8. store' = t.draft => r.jobs = 0
        BY <2>1, <2>3
    <2> QED BY <1>0, <2>1, <2>2, <2>3, <2>6, <2>7, <2>8, HandlerMoves
<1> QED BY <1>1, <1>2

LEMMA CancelledKeeps ==
    ASSUME DialoguesInv, Dialogue!Cancelled
    PROVE  DialoguesInv'
<1>0. pick \in Nat /\ picks \in Nat
    BY DEF DialoguesInv, DialoguesTyped
<1>1. PICK t \in tasks :
         /\ t.at = "cancel" /\ tasks' = tasks \ {t} /\ UNCHANGED <<pick, picks, taken>>
         /\ \/ /\ drafts' = [drafts EXCEPT ![t.draft] = Ends(drafts[t.draft])]
               /\ store' = (IF store = t.draft THEN 0 ELSE store)
            \/ /\ drafts' = [drafts EXCEPT ![t.draft] = Resumes(drafts[t.draft])]
               /\ store' = store
    BY DEF Dialogue!Cancelled, Dialogue!Waiting, Dialogue!Put, Dialogue!Leaves, Dialogue!Current,
           Dialogue!choice, Ends, Resumes
<1>2. t.at \in Working
    BY <1>1 DEF Working
<1>3. /\ t.draft \in DOMAIN drafts /\ drafts[t.draft] \in DraftRecord
      /\ Fits("cancel", drafts[t.draft]) /\ Sound(drafts[t.draft])
    BY <1>1, <1>2, TaskAt
<1>4. drafts[t.draft].jobs = 0 /\ t.draft # 0
    BY <1>3, DraftsAre DEF Fits, DialoguesInv
<1>5. \A u \in tasks' : (u \in tasks /\ u # t) \/ u \in Pressed
    BY <1>1
<1>6. CASE /\ drafts' = [drafts EXCEPT ![t.draft] = Ends(drafts[t.draft])]
           /\ store' = (IF store = t.draft THEN 0 ELSE store)
    <2> DEFINE r == Ends(drafts[t.draft])
    <2>1. /\ r \in DraftRecord /\ Sound(r) /\ r.pin = drafts[t.draft].pin
          /\ drafts[t.draft].created => r.created
        BY <1>3, <1>4, EndsAre
    <2>2. drafts' = [drafts EXCEPT ![t.draft] = r] /\ store' # t.draft /\ store' \in {0, store}
        BY <1>4, <1>6
    <2>3. \A u \in tasks' :
             \/ u \in tasks /\ u # t
             \/ u \in Pressed
             \/ u = store /\ store \in Works /\ store.draft = t.draft /\ Fits(store.at, r)
        BY <1>5
    <2> HIDE DEF r
    <2> QED BY <1>0, <1>1, <1>2, <2>1, <2>2, <2>3, HandlerMoves
<1>7. CASE /\ drafts' = [drafts EXCEPT ![t.draft] = Resumes(drafts[t.draft])]
           /\ store' = store
    BY <1>3, ReleasesAre, <1>0, <1>1, <1>2, <1>5, <1>7, HandlerLeaves
<1> QED BY <1>1, <1>6, <1>7

LEMMA PressKeeps ==
    ASSUME DialoguesInv, NEW p \in Presses, Dialogue!Press(p)
    PROVE  DialoguesInv'
<1>1. store # 0 /\ ~Dialogue!Busy(store)
    BY DEF Dialogue!Press
<1>2. drafts[store] \in DraftRecord
    BY <1>1, NotBusy
<1>3. drafts[store].step \in Dialogue!Steps
    BY <1>2 DEF DraftRecord
<1>4. [at |-> "fetch", press |-> p, old |-> FALSE, step |-> drafts[store].step] \in Pressed
    BY <1>3 DEF Pressed
<1> QED BY <1>4, IdleKeeps DEF Dialogue!Press, Dialogue!choice, DialoguesInv, DialoguesTyped

(* The card is looked at again when its message has been fetched.          *)
LEMMA FetchedKeeps ==
    ASSUME DialoguesInv, Dialogue!Fetched
    PROVE  DialoguesInv'
<1>0. pick \in Nat /\ picks \in Nat /\ UNCHANGED <<store, pick, picks, taken>>
    BY DEF DialoguesInv, DialoguesTyped, Dialogue!Fetched, Dialogue!choice
<1> DEFINE r == Dialogue!Changed(Dialogue!Handling(store))
           q == [r EXCEPT !.step = "confirm", !.editing = FALSE]
<1>1. PICK t \in tasks :
         \/ tasks' = tasks \ {t} /\ UNCHANGED drafts
         \/ /\ Dialogue!Valid(t)
            /\ drafts' = [drafts EXCEPT ![store] = [drafts[store] EXCEPT !.submitting = TRUE]]
            /\ tasks' = (tasks \ {t}) \cup {[at |-> "submit", draft |-> store]}
         \/ /\ Dialogue!Valid(t)
            /\ \E at \in {"subscribe", "target"} :
                  /\ drafts' = [drafts EXCEPT ![store] = r]
                  /\ tasks' = (tasks \ {t}) \cup {[at |-> at, draft |-> store]}
         \/ /\ Dialogue!Valid(t)
            /\ drafts' = [drafts EXCEPT ![store] = q]
            /\ tasks' = (tasks \ {t}) \cup {[at |-> "prompt", draft |-> store]}
    BY DEF Dialogue!Fetched, Dialogue!Pressing, Dialogue!Leaves, Dialogue!Put
<1>2. Dialogue!Valid(t) => store # 0 /\ ~Dialogue!Busy(store)
    BY DEF Dialogue!Valid
<1>3. CASE tasks' = tasks \ {t} /\ UNCHANGED drafts
    BY <1>0, <1>3, IdleKeeps
<1>4. CASE /\ Dialogue!Valid(t)
           /\ drafts' = [drafts EXCEPT ![store] = [drafts[store] EXCEPT !.submitting = TRUE]]
           /\ tasks' = (tasks \ {t}) \cup {[at |-> "submit", draft |-> store]}
    BY <1>0, <1>2, <1>4, SubmitKeeps
<1>5. {"subscribe", "target", "prompt"} \subseteq Processing /\ "confirm" \in Dialogue!Steps
    BY DEF Processing, Dialogue!Steps
<1>6. ASSUME Dialogue!Valid(t) PROVE Handled(r) /\ Plain(r) /\ r.processing
    BY <1>2, <1>6, NotBusy, HandlingIsHandled, ChangedIsPlain DEF Handled
<1> HIDE DEF r
<1>7. CASE /\ Dialogue!Valid(t)
           /\ \E at \in {"subscribe", "target"} :
                 /\ drafts' = [drafts EXCEPT ![store] = r]
                 /\ tasks' = (tasks \ {t}) \cup {[at |-> at, draft |-> store]}
    BY <1>7, <1>5, <1>0, <1>2, <1>6, HandlerBegins
<1>8. CASE /\ Dialogue!Valid(t)
           /\ drafts' = [drafts EXCEPT ![store] = q]
           /\ tasks' = (tasks \ {t}) \cup {[at |-> "prompt", draft |-> store]}
    <2>1. Plain(q) /\ q.processing
        BY <1>5, <1>6, <1>8, StepIsPlain
    <2> HIDE DEF q
    <2>2. Handled(q)
        BY <2>1 DEF Handled
    <2>3. "prompt" \in Processing /\
          \A u \in tasks' : u \in tasks \/ u \in Pressed \/ u = [at |-> "prompt", draft |-> store]
        BY <1>5, <1>8
    <2> QED BY <1>0, <1>2, <1>8, <2>2, <2>3, HandlerBegins
<1> QED BY <1>1, <1>3, <1>4, <1>7, <1>8

LEMMA ButtonsKeep ==
    ASSUME DialoguesInv, Dialogue!Edit \/ Dialogue!Choose
    PROVE  DialoguesInv'
<1>0. store # 0 /\ ~Dialogue!Busy(store) /\ UNCHANGED <<store, tasks, pick, picks, taken>>
    BY DEF Dialogue!Edit, Dialogue!Choose, Dialogue!choice
<1>1. /\ store \in DOMAIN drafts /\ Plain(drafts[store]) /\ ~drafts[store].created
      /\ \A t \in tasks : t \in Works => t.draft # store
    BY <1>0, NotBusy
<1> DEFINE c == Dialogue!Changed(drafts[store])
<1>2. Plain(c)
    BY <1>1, ChangedIsPlain
<1>3. /\ {"source", "path", "tag", "start"} \subseteq Dialogue!Steps
      /\ {"tag", "date"} \subseteq Kinds
    BY DEF Dialogue!Steps, Kinds
<1>4. \/ \E s \in {"source", "path", "tag", "start"} :
            drafts' = [drafts EXCEPT ![store] = [c EXCEPT !.editing = TRUE, !.step = s]]
      \/ \E k \in {"tag", "date"} :
            drafts' = [drafts EXCEPT ![store] = [c EXCEPT !.kind = k, !.step = "source"]]
      \/ drafts' = [drafts EXCEPT ![store] = c]
    BY DEF Dialogue!Edit, Dialogue!Choose, Dialogue!Put, Dialogue!Filter
<1> HIDE DEF c
<1>5. \E r : Plain(r) /\ drafts' = [drafts EXCEPT ![store] = r]
    BY <1>2, <1>3, EditIsPlain, KindStepIsPlain, <1>4
<1>6. PICK r : Plain(r) /\ drafts' = [drafts EXCEPT ![store] = r]
    BY <1>5
<1> QED BY <1>0, <1>1, <1>6, PlainKeeps

LEMMA DialogueCounts ==
    ASSUME NEW S
    PROVE  Dialogue!Cardinality(S) = Cardinality(S)
BY Zenon DEF Dialogue!Cardinality, Cardinality

LEMMA AtMostOne ==
    ASSUME NEW S, \A t, u \in S : t = u
    PROVE  Cardinality(S) <= 1
<1>1. CASE S = {}
    BY <1>1, FS_EmptySet
<1>2. CASE S # {}
    BY <1>2, FS_Singleton
<1> QED BY <1>1, <1>2

(* One handler at a time works on a draft, a draft makes one job or one    *)
(* subscription, unchanged since it was submitted, and none once it was    *)
(* seen to be cancelled, and a job consumes the selection that it was made *)
(* with (telegramBot.ts, handleTelegramWizardText, submitTelegramWizard).  *)
THEOREM DialoguesTheorem ==
    ASSUME OpeningSteps
    PROVE  Dialogue!Spec => [](Dialogue!TypeOK /\ Dialogue!DialoguesKept)
<1>1. Dialogue!Init => DialoguesInv
    BY EmptySeq DEF Dialogue!Init, DialoguesInv, DialoguesTyped, DraftsSound, KeptIsOpen,
        HandlersFit, OneHandler, TakenOfDrafts
<1>2. DialoguesInv /\ [Dialogue!Next]_(Dialogue!vars) => DialoguesInv'
    BY IdleKeeps, BeginningsKeep, TextKeeps, ValidatedKeeps, TargetedKeeps, HandlersLeave,
        RepliesFollow, JobsKeep, CancelledKeeps, PressKeeps, FetchedKeeps, ButtonsKeep, CancelKeeps
        DEF Dialogue!vars, Dialogue!choice, DialoguesInv, DialoguesTyped, Dialogue!Next
<1>3. DialoguesInv => Dialogue!TypeOK /\ Dialogue!DialoguesKept
    <2> SUFFICES ASSUME DialoguesInv PROVE Dialogue!TypeOK /\ Dialogue!DialoguesKept
        OBVIOUS
    <2>1. \A d \in DOMAIN drafts : drafts[d] \in DraftRecord /\ Sound(drafts[d])
        BY DraftsAre DEF DialoguesInv, DraftsSound
    <2>2. Dialogue!TypeOK
        BY <2>1 DEF Dialogue!TypeOK, DialoguesInv, DialoguesTyped, DraftRecord
    <2>3. Dialogue!Alone
        <3> DEFINE S(d) == {t \in tasks : t.at \notin {"start", "fetch"} /\ t.draft = d}
        <3>1. ASSUME NEW d \in DOMAIN drafts PROVE Dialogue!Cardinality(S(d)) <= 1
            <4>1. \A t \in S(d) : t \in tasks /\ t \in Works /\ t.draft = d
                BY TasksAre DEF DialoguesInv
            <4>2. \A t, u \in S(d) : t = u
                BY <4>1 DEF DialoguesInv, OneHandler
            <4> HIDE DEF S
            <4> QED BY <4>2, AtMostOne, DialogueCounts
        <3>2. \A d \in DOMAIN drafts : Dialogue!Cardinality(S(d)) <= 1
            <4> HIDE DEF S
            <4> QED BY <3>1
        <3> QED BY <3>2 DEF Dialogue!Alone
    <2>4. Dialogue!OneJob
        BY <2>1 DEF Dialogue!OneJob, Sound
    <2>5. Dialogue!TakenWithJob
        BY DEF Dialogue!TakenWithJob, DialoguesInv, TakenOfDrafts
    <2> QED BY <2>2, <2>3, <2>4, <2>5 DEF Dialogue!DialoguesKept
<1> QED BY <1>1, <1>2, <1>3, PTL DEF Dialogue!Spec

-----------------------------------------------------------------------------
(* The tasks as administrators control them.                               *)

(* A task is a channel job or a group, and "all" is no card.               *)
TasksDistinct ==
    /\ Jobs \cap Groups = {} /\ "all" \notin Cards
    /\ MaxEvents \in Nat /\ MaxTokens \in Nat

EntryStatuses == {"running", "paused", "completed", "failed", "cancelled"}
EntryRecord(s) == [status : s, version : Nat]
Versions == {<<>>} \cup ({"row", "live"} \X Nat)
PromptRecord ==
    [task : Jobs \cup Groups \cup {"all"}, card : Cards \cup {"all"}, expired : BOOLEAN, taken : BOOLEAN, uses : Nat]
CardPresses == [at : {"ask", "find"}, task : Jobs \cup Groups, card : Cards, prompt : {0}]
JobHandlers == [at : {"job"}, task : Jobs, card : Cards, prompt : Nat]
Listings == [at : {"list"}, prompt : Nat]
Sweeps == [at : {"all"}, prompt : Nat, left : SUBSET Jobs]
WebJobs == [at : {"webJob"}, task : Jobs]
WebGroups == [at : {"webRow", "webMark"}, task : Groups]
Listed == (Jobs \cup Groups) \X Versions
Checks == [at : {"check"}, shown : SUBSET Listed]
Saves == [at : {"save"}, items : SUBSET Listed]
CentreHandlers ==
    CardPresses \cup JobHandlers \cup Listings \cup Sweeps \cup WebJobs \cup WebGroups \cup Checks \cup Saves
CancelTokens == [use : {"cancel"}, task : Jobs \cup Groups, id : Nat]
DismissTokens == [use : {"dismiss"}, id : Nat, shown : SUBSET Listed]

EntriesTyped ==
    /\ jobs \in [Jobs -> EntryRecord(EntryStatuses)] /\ rows \in [Groups -> EntryRecord(EntryStatuses)]
    /\ groups \in [Groups -> EntryRecord(EntryStatuses \cup {"gone"})]
    /\ told \in [Groups -> Seq(EntryStatuses)]

CountsTyped == stopped \subseteq Jobs \cup Groups /\ events \in 0..MaxEvents /\ issued \in 0..MaxTokens

HandlersTyped == handlers \subseteq CentreHandlers /\ tokens \subseteq CancelTokens \cup DismissTokens

PromptsTyped == prompts \in Seq(PromptRecord) /\ pending \in [Cards -> 0..Len(prompts)]

(* A prompt is used when it was taken, and the one kept for a card was not.*)
PromptsKnown ==
    /\ \A n \in 1..Len(prompts) : prompts[n].uses <= 1 /\ (~prompts[n].taken => prompts[n].uses = 0)
    /\ \A c \in Cards : pending[c] # 0 =>
           prompts[pending[c]].card = c /\ ~prompts[pending[c]].taken

(* A handler that is to cancel a job has taken the prompt alone.           *)
JobsConfirmed ==
    /\ \A h \in handlers : h \in JobHandlers =>
           /\ h.prompt \in 1..Len(prompts) /\ prompts[h.prompt].task = h.task
           /\ prompts[h.prompt].taken /\ prompts[h.prompt].uses = 0
    /\ \A h, k \in handlers : h \in JobHandlers /\ k \in JobHandlers /\ h.prompt = k.prompt => h = k

(* A version of an entry that is over, or that the entry has left.         *)
Past(e, k) == k < e.version \/ (k = e.version /\ e.status \in {"completed", "failed", "cancelled", "gone"})
KnownOver(t, v) ==
    \/ t \in Jobs /\ \E k \in Nat : v = <<"row", k>> /\ Past(jobs[t], k)
    \/ t \in Groups /\ \E k \in Nat : v = <<"live", k>> /\ Past(groups[t], k)
    \/ t \in Groups /\ groups[t].status = "gone" /\ \E k \in Nat : v = <<"row", k>> /\ Past(rows[t], k)

DismissedKnown ==
    /\ dismissed \in [Jobs \cup Groups -> Versions]
    /\ \A t \in Jobs \cup Groups : dismissed[t] = <<>> \/ KnownOver(t, dismissed[t])
    /\ \A h \in handlers : h \in Saves => \A s \in h.items : KnownOver(s[1], s[2])

CentreInv ==
    /\ EntriesTyped /\ CountsTyped /\ HandlersTyped /\ PromptsTyped
    /\ PromptsKnown /\ JobsConfirmed /\ DismissedKnown /\ Centre!StoppedStays

(* How an entry changes: its version with it, and not once it is cancelled;*)
(* a group that is over may leave memory.                                  *)
EntriesMove ==
    /\ \A j \in Jobs : jobs'[j] = jobs[j] \/
           (jobs'[j].version = jobs[j].version + 1 /\ jobs[j].status # "cancelled")
    /\ \A g \in Groups :
           \/ groups'[g] = groups[g]
           \/ groups'[g].version = groups[g].version + 1 /\ groups[g].status \notin {"cancelled", "gone"}
           \/ groups'[g].version = groups[g].version /\ groups'[g].status = "gone"
    /\ \A g \in Groups : rows'[g] = rows[g] \/ rows'[g].version = rows[g].version + 1

LEMMA EntriesAre ==
    ASSUME EntriesTyped
    PROVE  /\ \A j \in Jobs : jobs[j].status \in EntryStatuses /\ jobs[j].version \in Nat
           /\ \A g \in Groups : rows[g].status \in EntryStatuses /\ rows[g].version \in Nat
           /\ \A g \in Groups : groups[g].status \in EntryStatuses \cup {"gone"} /\ groups[g].version \in Nat
    BY DEF EntryRecord, EntriesTyped

LEMMA TurnedIs ==
    ASSUME NEW S, NEW e, e.version \in Nat, NEW s \in S
    PROVE  /\ Centre!Turn(e, s) \in EntryRecord(S)
           /\ Centre!Turn(e, s).status = s /\ Centre!Turn(e, s).version = e.version + 1
BY DEF Centre!Turn, EntryRecord

LEMMA KnownStays ==
    ASSUME EntriesTyped, EntriesMove, NEW t, NEW v, KnownOver(t, v)
    PROVE  KnownOver(t, v)'
    BY EntriesAre DEF EntriesMove, Past, KnownOver

(* What is dismissed stays so while entries move, and no handler saves     *)
(* anything that it did not check.                                         *)
LEMMA DismissedStays ==
    ASSUME EntriesTyped, EntriesMove, DismissedKnown, dismissed' = dismissed,
           \A h \in handlers' : h \in handlers \/ h \notin Saves
    PROVE  DismissedKnown'
<1>1. \A t, v : KnownOver(t, v) => KnownOver(t, v)'
    BY KnownStays
<1>2. \A t \in Jobs \cup Groups : dismissed'[t] = <<>> \/ KnownOver(t, dismissed[t])'
    BY <1>1 DEF DismissedKnown
<1>3. \A h \in handlers' : h \in Saves => \A s \in h.items : KnownOver(s[1], s[2])'
    BY <1>1 DEF DismissedKnown
<1> QED BY <1>2, <1>3 DEF DismissedKnown, KnownOver

LEMMA StoppedFollow ==
    ASSUME EntriesTyped, EntriesMove, Centre!StoppedStays, CountsTyped, stopped' = stopped
    PROVE  Centre!StoppedStays'
BY EntriesAre DEF EntriesMove, Centre!StoppedStays, CountsTyped

LEMMA StoppedGrows ==
    ASSUME EntriesTyped, EntriesMove, Centre!StoppedStays, CountsTyped, NEW ts \in SUBSET (Jobs \cup Groups),
           stopped' = Centre!StoppedBy(ts),
           \A t \in ts : t \in Jobs /\ jobs[t].status \in Centre!Unfinished => jobs'[t].status = "cancelled",
           \A t \in ts : t \notin Jobs /\ groups[t].status \in Centre!Unfinished
                             => groups'[t].status = "cancelled"
    PROVE  Centre!StoppedStays' /\ stopped' \subseteq Jobs \cup Groups
    BY EntriesAre DEF Centre!StoppedBy, CountsTyped, EntriesMove, Centre!StoppedStays

-----------------------------------------------------------------------------
(* Changes of entries.                                                     *)

LEMMA EntriesSame ==
    ASSUME EntriesTyped, UNCHANGED <<jobs, groups, rows, told>>
    PROVE  EntriesTyped' /\ EntriesMove
BY DEF EntriesTyped, EntriesMove

LEMMA JobTurns ==
    ASSUME EntriesTyped, NEW j \in Jobs, NEW s \in EntryStatuses, jobs[j].status # "cancelled",
           Centre!SetJob(j, s), UNCHANGED <<groups, rows, told>>
    PROVE  EntriesTyped' /\ EntriesMove /\ jobs'[j].status = s
<1>0. jobs \in [Jobs -> EntryRecord(EntryStatuses)] /\ jobs[j].version \in Nat
    BY EntriesAre DEF EntriesTyped
<1>1. jobs' = [jobs EXCEPT ![j] = Centre!Turn(jobs[j], s)]
    BY DEF Centre!SetJob
<1>2. /\ Centre!Turn(jobs[j], s) \in EntryRecord(EntryStatuses)
      /\ Centre!Turn(jobs[j], s).status = s /\ Centre!Turn(jobs[j], s).version = jobs[j].version + 1
    BY <1>0, TurnedIs
<1>3. /\ jobs' \in [Jobs -> EntryRecord(EntryStatuses)] /\ jobs'[j] = Centre!Turn(jobs[j], s)
      /\ \A i \in Jobs : i # j => jobs'[i] = jobs[i]
    BY <1>0, <1>1, <1>2
<1> QED BY <1>2, <1>3 DEF EntriesTyped, EntriesMove

LEMMA GroupsTurn ==
    ASSUME EntriesTyped, NEW gs \in SUBSET Groups, NEW s \in EntryStatuses,
           \A g \in gs : groups[g].status \notin {"cancelled", "gone"},
           Centre!SetGroups(gs, s), UNCHANGED <<jobs, rows>>
    PROVE  EntriesTyped' /\ EntriesMove /\ \A g \in gs : groups'[g].status = s
<1>0. /\ groups \in [Groups -> EntryRecord(EntryStatuses \cup {"gone"})]
      /\ told \in [Groups -> Seq(EntryStatuses)]
      /\ \A g \in Groups : groups[g].version \in Nat
    BY EntriesAre DEF EntriesTyped
<1>1. /\ groups' = [g \in Groups |-> IF g \in gs THEN Centre!Turn(groups[g], s) ELSE groups[g]]
      /\ told' = [g \in Groups |-> IF g \in gs THEN Append(told[g], s) ELSE told[g]]
    BY DEF Centre!SetGroups
<1>2. \A g \in Groups :
          /\ Centre!Turn(groups[g], s) \in EntryRecord(EntryStatuses \cup {"gone"})
          /\ Centre!Turn(groups[g], s).status = s /\ Centre!Turn(groups[g], s).version = groups[g].version + 1
    BY <1>0, TurnedIs
<1>3. groups' \in [Groups -> EntryRecord(EntryStatuses \cup {"gone"})]
    BY <1>0, <1>1, <1>2
<1>4. \A g \in Groups : told'[g] \in Seq(EntryStatuses)
    BY <1>0, <1>1
<1>5. told' \in [Groups -> Seq(EntryStatuses)]
    BY <1>1, <1>4
<1>6. \A g \in Groups : groups'[g] = IF g \in gs THEN Centre!Turn(groups[g], s) ELSE groups[g]
    BY <1>1
<1> QED BY <1>2, <1>3, <1>5, <1>6 DEF EntriesTyped, EntriesMove

LEMMA JobCancelled ==
    ASSUME EntriesTyped, NEW j \in Jobs, Centre!CancelJob(j)
    PROVE  EntriesTyped' /\ EntriesMove /\ (jobs[j].status \in Centre!Unfinished => jobs'[j].status = "cancelled")
    BY JobTurns, EntriesSame DEF Centre!CancelJob, Centre!SetJob, Centre!Unfinished, EntryStatuses

LEMMA GroupsCancelled ==
    ASSUME EntriesTyped, NEW gs \in SUBSET Groups, Centre!CancelGroups(gs)
    PROVE  /\ EntriesTyped' /\ EntriesMove
           /\ \A g \in gs : groups[g].status \in Centre!Unfinished => groups'[g].status = "cancelled"
<1> DEFINE ended == {g \in gs : groups[g].status \in Centre!Unfinished}
<1>1. ended \in SUBSET Groups /\ \A g \in ended : groups[g].status \notin {"cancelled", "gone"}
    BY DEF Centre!Unfinished
<1>2. Centre!SetGroups(ended, "cancelled") /\ UNCHANGED <<jobs, rows>>
    BY DEF Centre!CancelGroups
<1>3. EntriesTyped' /\ EntriesMove /\ \A g \in ended : groups'[g].status = "cancelled"
    <2> HIDE DEF ended
    <2> QED BY <1>1, <1>2, GroupsTurn DEF EntryStatuses
<1> QED BY <1>3

LEMMA CancelStops ==
    ASSUME EntriesTyped, Centre!StoppedStays, CountsTyped, NEW t \in Jobs \cup Groups,
           (IF t \in Jobs THEN Centre!CancelJob(t) ELSE Centre!CancelGroups({t})),
           stopped' = Centre!StoppedBy({t})
    PROVE  EntriesTyped' /\ EntriesMove /\ Centre!StoppedStays' /\ stopped' \subseteq Jobs \cup Groups
<1>1. CASE t \in Jobs
    <2>1. EntriesTyped' /\ EntriesMove /\ (jobs[t].status \in Centre!Unfinished => jobs'[t].status = "cancelled")
        BY <1>1, JobCancelled
    <2> QED BY <1>1, <2>1, StoppedGrows
<1>2. CASE t \notin Jobs
    BY <1>2, GroupsCancelled, StoppedGrows
<1> QED BY <1>1, <1>2

(* The rest of a step that only changes entries.                           *)
LEMMA EntryStep ==
    ASSUME CentreInv, EntriesTyped', EntriesMove, Centre!StoppedStays', CountsTyped',
           UNCHANGED <<dismissed, prompts, pending, tokens, handlers>>
    PROVE  CentreInv'
    BY DismissedStays DEF CentreInv, HandlersTyped, PromptsTyped, PromptsKnown, JobsConfirmed

LEMMA JobStep ==
    ASSUME TasksDistinct, CentreInv, NEW j \in Jobs, NEW s \in EntryStatuses, jobs[j].status # "cancelled",
           Centre!SetJob(j, s), Centre!Happens,
           UNCHANGED <<groups, rows, told, dismissed, prompts, pending, tokens, handlers, stopped, issued>>
    PROVE  CentreInv'
    BY JobTurns, StoppedFollow, EntryStep DEF CentreInv, CountsTyped, Centre!Happens, TasksDistinct

LEMMA GroupStep ==
    ASSUME TasksDistinct, CentreInv, NEW g \in Groups, NEW s \in EntryStatuses,
           groups[g].status \notin {"cancelled", "gone"}, Centre!SetGroups({g}, s), Centre!Happens,
           UNCHANGED <<jobs, rows, dismissed, prompts, pending, tokens, handlers, stopped, issued>>
    PROVE  CentreInv'
    BY GroupsTurn, StoppedFollow, EntryStep DEF CentreInv, CountsTyped, Centre!Happens,
        TasksDistinct

LEMMA TasksGoOn ==
    ASSUME TasksDistinct, CentreInv, Centre!JobEnds \/ Centre!JobTouched \/ Centre!GroupEnds
    PROVE  CentreInv'
    BY JobStep, GroupStep DEF Centre!JobEnds, EntryStatuses, Centre!JobTouched, Centre!GroupEnds

LEMMA ControlKeeps ==
    ASSUME TasksDistinct, CentreInv, NEW from, NEW to \in EntryStatuses,
           "cancelled" \notin from, "gone" \notin from, Centre!Control(from, to), Centre!Controlled
    PROVE  CentreInv'
    BY JobStep, GroupStep DEF Centre!Controlled, Centre!Control

LEMMA ControlsKeep ==
    ASSUME TasksDistinct, CentreInv, Centre!Pause \/ Centre!Resume \/ Centre!Retry
    PROVE  CentreInv'
    BY ControlKeeps DEF EntryStatuses, Centre!Pause, Centre!Resume, Centre!Retry

(* A row and its snapshots change, or a group leaves memory.               *)
LEMMA RowMoves ==
    ASSUME EntriesTyped, NEW g \in Groups, NEW s \in EntryStatuses,
           rows' = rows \/ rows' = [rows EXCEPT ![g] = Centre!Turn(@, s)],
           told' \in [Groups -> Seq(EntryStatuses)], UNCHANGED <<jobs, groups>>
    PROVE  EntriesTyped' /\ EntriesMove
<1>1. rows \in [Groups -> EntryRecord(EntryStatuses)] /\ rows[g].version \in Nat
    BY EntriesAre DEF EntriesTyped
<1>2. /\ Centre!Turn(rows[g], s) \in EntryRecord(EntryStatuses)
      /\ Centre!Turn(rows[g], s).version = rows[g].version + 1
    BY <1>1, TurnedIs
<1>3. /\ rows' \in [Groups -> EntryRecord(EntryStatuses)]
      /\ \A i \in Groups : i # g => rows'[i] = rows[i]
      /\ rows'[g] = rows[g] \/ rows'[g] = Centre!Turn(rows[g], s)
    BY <1>1, <1>2
<1> QED BY <1>2, <1>3 DEF EntriesTyped, EntriesMove

LEMMA SnapshotKeeps ==
    ASSUME TasksDistinct, CentreInv, Centre!Snapshot
    PROVE  CentreInv'
<1>1. PICK g \in Groups :
          /\ told[g] # <<>> /\ told' = [told EXCEPT ![g] = Tail(@)]
          /\ rows' = rows \/ rows' = [rows EXCEPT ![g] = Centre!Turn(@, Head(told[g]))]
          /\ UNCHANGED <<jobs, groups, dismissed, prompts, pending, tokens, handlers, stopped, events, issued>>
    BY DEF Centre!Snapshot
<1>2. told \in [Groups -> Seq(EntryStatuses)] /\ told[g] \in Seq(EntryStatuses)
    BY DEF CentreInv, EntriesTyped
<1>3. Head(told[g]) \in EntryStatuses /\ Tail(told[g]) \in Seq(EntryStatuses)
    BY <1>1, <1>2
<1>4. told' \in [Groups -> Seq(EntryStatuses)]
    BY <1>1, <1>2, <1>3
<1>5. EntriesTyped' /\ EntriesMove
    BY <1>1, <1>3, <1>4, RowMoves DEF CentreInv
<1>6. Centre!StoppedStays' /\ CountsTyped'
    BY <1>1, <1>5, StoppedFollow DEF CentreInv, CountsTyped
<1> QED BY <1>1, <1>5, <1>6, EntryStep

LEMMA ForgetKeeps ==
    ASSUME TasksDistinct, CentreInv, Centre!Forget
    PROVE  CentreInv'
<1>1. PICK g \in Groups :
          /\ groups' = [groups EXCEPT ![g].status = "gone"]
          /\ UNCHANGED <<jobs, rows, told, dismissed, prompts, pending, tokens, handlers, stopped, events, issued>>
    BY DEF Centre!Forget
<1>2. groups \in [Groups -> EntryRecord(EntryStatuses \cup {"gone"})]
    BY DEF CentreInv, EntriesTyped
<1>3. \A e \in EntryRecord(EntryStatuses \cup {"gone"}) :
          /\ [e EXCEPT !.status = "gone"] \in EntryRecord(EntryStatuses \cup {"gone"})
          /\ [e EXCEPT !.status = "gone"].status = "gone"
          /\ [e EXCEPT !.status = "gone"].version = e.version
    BY DEF EntryRecord
<1>4. /\ groups' \in [Groups -> EntryRecord(EntryStatuses \cup {"gone"})]
      /\ groups'[g] = [groups[g] EXCEPT !.status = "gone"]
      /\ \A i \in Groups : i # g => groups'[i] = groups[i]
    BY <1>1, <1>2, <1>3
<1>5. groups'[g].status = "gone" /\ groups'[g].version = groups[g].version
    BY <1>2, <1>3, <1>4
<1>6. EntriesTyped' /\ EntriesMove
    BY <1>1, <1>4, <1>5 DEF CentreInv, EntriesTyped, EntriesMove
<1>7. Centre!StoppedStays' /\ CountsTyped'
    BY <1>1, <1>6, StoppedFollow DEF CentreInv, CountsTyped
<1> QED BY <1>1, <1>6, <1>7, EntryStep

LEMMA CancelTaskKeeps ==
    ASSUME TasksDistinct, CentreInv, Centre!CancelTask
    PROVE  CentreInv'
<1>1. PICK t \in Jobs \cup Groups :
          /\ Centre!Happens /\ IF t \in Jobs THEN Centre!CancelJob(t) ELSE Centre!CancelGroups({t})
          /\ stopped' = Centre!StoppedBy({t})
          /\ UNCHANGED <<dismissed, prompts, pending, tokens, handlers, issued>>
    BY DEF Centre!CancelTask, Centre!Tasks
<1>2. EntriesTyped' /\ EntriesMove /\ Centre!StoppedStays' /\ stopped' \subseteq Jobs \cup Groups
    BY <1>1, CancelStops DEF CentreInv
<1>3. CountsTyped'
    BY <1>1, <1>2 DEF CentreInv, CountsTyped, Centre!Happens, TasksDistinct
<1> QED BY <1>1, <1>2, <1>3, EntryStep

-----------------------------------------------------------------------------
(* Handlers come and go while the prompts stay.                            *)

LEMMA KindsOfHandlers ==
    ASSUME NEW h \in CentreHandlers
    PROVE  /\ h.at \in {"ask", "find"} => h \in CardPresses
           /\ h.at = "job" <=> h \in JobHandlers
           /\ h.at = "list" => h \in Listings
           /\ h.at = "all" => h \in Sweeps
           /\ h.at = "webJob" => h \in WebJobs
           /\ h.at \in {"webRow", "webMark"} => h \in WebGroups
           /\ h.at = "check" => h \in Checks
           /\ h.at = "save" <=> h \in Saves
BY DEF CentreHandlers, CardPresses, JobHandlers, Listings, Sweeps, WebJobs, WebGroups, Checks, Saves

LEMMA HandlerStep ==
    ASSUME CentreInv, EntriesTyped', EntriesMove, Centre!StoppedStays', CountsTyped',
           UNCHANGED <<dismissed, prompts, pending>>, tokens' \subseteq CancelTokens \cup DismissTokens,
           handlers' \subseteq CentreHandlers,
           \A h \in handlers' : h \in handlers \/ h.at \notin {"job", "save"}
    PROVE  CentreInv'
    BY KindsOfHandlers, DismissedStays DEF CentreInv, HandlersTyped, PromptsTyped, PromptsKnown,
        JobsConfirmed

(* Nothing of the entries is changed.                                      *)
LEMMA QuietStep ==
    ASSUME CentreInv, UNCHANGED <<jobs, groups, rows, told, stopped, events>>, issued' \in 0..MaxTokens
    PROVE  EntriesTyped' /\ EntriesMove /\ Centre!StoppedStays' /\ CountsTyped'
    BY EntriesSame, StoppedFollow DEF CentreInv, CountsTyped

LEMMA WaitingAre ==
    ASSUME CentreInv
    PROVE  /\ \A at : \A h \in Centre!Waiting(at) : h \in handlers /\ h \in CentreHandlers /\ h.at = at
           /\ handlers \subseteq CentreHandlers /\ tokens \subseteq CancelTokens \cup DismissTokens
           /\ issued \in 0..MaxTokens
BY DEF CentreInv, HandlersTyped, CountsTyped, Centre!Waiting

LEMMA PressKeepsCentre ==
    ASSUME TasksDistinct, CentreInv, Centre!PressCancel \/ Centre!PressConfirm
    PROVE  CentreInv'
<1>1. PICK at \in {"ask", "find"}, c \in Cards, t \in Jobs \cup Groups :
          /\ handlers' = handlers \cup {Centre!Handler(at, t, c, 0)}
          /\ UNCHANGED <<jobs, groups, rows, told, dismissed, prompts, pending, tokens, stopped, events, issued>>
    BY DEF Centre!PressCancel, Centre!PressConfirm, Centre!Press, Centre!Tasks, Centre!tasks
<1>2. Centre!Handler(at, t, c, 0) \in CardPresses /\ Centre!Handler(at, t, c, 0).at = at
    BY DEF Centre!Handler, CardPresses
<1>3. Centre!Handler(at, t, c, 0) \in CentreHandlers
    BY <1>2 DEF CentreHandlers
<1>4. EntriesTyped' /\ EntriesMove /\ Centre!StoppedStays' /\ CountsTyped'
    BY <1>1, QuietStep, WaitingAre
<1> QED BY <1>1, <1>2, <1>3, <1>4, WaitingAre, HandlerStep

LEMMA NotFoundKeeps ==
    ASSUME TasksDistinct, CentreInv, Centre!NotFound
    PROVE  CentreInv'
    BY QuietStep, WaitingAre, HandlerStep DEF Centre!NotFound, Centre!tasks

LEMMA ListAllKeeps ==
    ASSUME TasksDistinct, CentreInv, Centre!ListAll
    PROVE  CentreInv'
<1>1. PICK h \in Centre!Waiting("list") :
          /\ handlers' = (handlers \ {h}) \cup {[at |-> "all", prompt |-> h.prompt,
                 left |-> {j \in Jobs : jobs[j].status \in Centre!Unfinished \cup {"failed"}}]}
          /\ UNCHANGED <<jobs, groups, rows, told, dismissed, prompts, pending, tokens, stopped, events, issued>>
    BY DEF Centre!ListAll, Centre!tasks
<1> DEFINE new == [at |-> "all", prompt |-> h.prompt,
                   left |-> {j \in Jobs : jobs[j].status \in Centre!Unfinished \cup {"failed"}}]
<1>2. h.prompt \in Nat
    BY WaitingAre, KindsOfHandlers DEF Listings
<1>3. new \in Sweeps /\ new.at = "all"
    BY <1>2 DEF Sweeps
<1>4. new \in CentreHandlers
    BY <1>3 DEF CentreHandlers
<1>5. handlers' = (handlers \ {h}) \cup {new}
    BY <1>1
<1>6. EntriesTyped' /\ EntriesMove /\ Centre!StoppedStays' /\ CountsTyped'
    BY <1>1, QuietStep, WaitingAre
<1> HIDE DEF new
<1> QED BY <1>1, <1>3, <1>4, <1>5, <1>6, WaitingAre, HandlerStep

LEMMA CancelAllKeeps ==
    ASSUME TasksDistinct, CentreInv, Centre!CancelAll
    PROVE  CentreInv'
<1>1. PICK h \in Centre!Waiting("all") :
          /\ \/ \E j \in h.left :
                   /\ Centre!CancelJob(j) /\ stopped' = Centre!StoppedBy({j})
                   /\ handlers' = (handlers \ {h}) \cup {[h EXCEPT !.left = @ \ {j}]}
             \/ /\ h.left = {} /\ handlers' = handlers \ {h}
                /\ Centre!CancelGroups(Groups) /\ stopped' = Centre!StoppedBy(Groups)
          /\ UNCHANGED <<dismissed, prompts, pending, tokens, events, issued>>
    BY DEF Centre!CancelAll
<1>2. h \in Sweeps
    BY WaitingAre, KindsOfHandlers
<1>3. CASE \E j \in h.left :
               /\ Centre!CancelJob(j) /\ stopped' = Centre!StoppedBy({j})
               /\ handlers' = (handlers \ {h}) \cup {[h EXCEPT !.left = @ \ {j}]}
    <2>1. PICK j \in h.left :
              /\ Centre!CancelJob(j) /\ stopped' = Centre!StoppedBy({j})
              /\ handlers' = (handlers \ {h}) \cup {[h EXCEPT !.left = @ \ {j}]}
        BY <1>3
    <2>2. j \in Jobs
        BY <1>2 DEF Sweeps
    <2>3. [h EXCEPT !.left = @ \ {j}] \in Sweeps
        BY <1>2 DEF Sweeps
    <2>4. [h EXCEPT !.left = @ \ {j}].at = "all" /\ [h EXCEPT !.left = @ \ {j}] \in CentreHandlers
        BY <2>3 DEF CentreHandlers, Sweeps
    <2>5. EntriesTyped' /\ EntriesMove /\ Centre!StoppedStays' /\ stopped' \subseteq Jobs \cup Groups
        BY <2>1, <2>2, CancelStops DEF CentreInv
    <2>6. CountsTyped'
        BY <1>1, <2>5 DEF CentreInv, CountsTyped
    <2> QED BY <1>1, <2>1, <2>4, <2>5, <2>6, WaitingAre, HandlerStep
<1>4. CASE /\ h.left = {} /\ handlers' = handlers \ {h}
           /\ Centre!CancelGroups(Groups) /\ stopped' = Centre!StoppedBy(Groups)
    BY <1>4, GroupsCancelled, StoppedGrows, <1>1, WaitingAre, HandlerStep DEF CentreInv,
        TasksDistinct, CountsTyped
<1> QED BY <1>1, <1>3, <1>4

-----------------------------------------------------------------------------
(* Prompts.                                                                *)

(* A prompt stays what it is for while it expires, is taken or is used.    *)
PromptTurns(n, Q) ==
    /\ Q \in Seq(PromptRecord) /\ Len(Q) = Len(prompts)
    /\ \A m \in 1..Len(prompts) : m # n => Q[m] = prompts[m]
    /\ Q[n].task = prompts[n].task /\ Q[n].card = prompts[n].card

LEMMA PromptsAre ==
    ASSUME PromptsTyped
    PROVE  /\ Len(prompts) \in Nat /\ prompts \in [1..Len(prompts) -> PromptRecord]
           /\ \A n \in 1..Len(prompts) :
                  prompts[n] \in PromptRecord /\ prompts[n].uses \in Nat /\ prompts[n].taken \in BOOLEAN
           /\ \A c \in Cards : pending[c] \in 0..Len(prompts)
<1>1. \A p \in PromptRecord : p.uses \in Nat /\ p.taken \in BOOLEAN
    BY DEF PromptRecord
<1> QED BY <1>1, LenProperties DEF PromptsTyped

LEMMA PromptPut ==
    ASSUME PromptsTyped, NEW n \in 1..Len(prompts), NEW p \in PromptRecord,
           p.task = prompts[n].task, p.card = prompts[n].card
    PROVE  PromptTurns(n, [prompts EXCEPT ![n] = p]) /\ [prompts EXCEPT ![n] = p][n] = p
    BY ExceptSeq, PromptsAre DEF PromptsTyped, PromptTurns

LEMMA PromptExpires ==
    ASSUME PromptsTyped, NEW n \in 1..Len(prompts)
    PROVE  LET Q == [prompts EXCEPT ![n].expired = TRUE]
           IN  PromptTurns(n, Q) /\ Q[n].taken = prompts[n].taken /\ Q[n].uses = prompts[n].uses
<1> DEFINE p == [prompts[n] EXCEPT !.expired = TRUE]
<1>1. prompts[n] \in PromptRecord
    BY PromptsAre
<1>2. /\ p \in PromptRecord /\ p.task = prompts[n].task /\ p.card = prompts[n].card
      /\ p.taken = prompts[n].taken /\ p.uses = prompts[n].uses
    BY <1>1 DEF PromptRecord
<1>3. [prompts EXCEPT ![n].expired = TRUE] = [prompts EXCEPT ![n] = p]
    OBVIOUS
<1> HIDE DEF p
<1> QED BY <1>2, <1>3, PromptPut

LEMMA PromptIsTaken ==
    ASSUME PromptsTyped, NEW n \in 1..Len(prompts)
    PROVE  LET Q == [prompts EXCEPT ![n].taken = TRUE]
           IN  PromptTurns(n, Q) /\ Q[n].taken /\ Q[n].uses = prompts[n].uses
<1> DEFINE p == [prompts[n] EXCEPT !.taken = TRUE]
<1>1. prompts[n] \in PromptRecord
    BY PromptsAre
<1>2. /\ p \in PromptRecord /\ p.task = prompts[n].task /\ p.card = prompts[n].card
      /\ p.taken /\ p.uses = prompts[n].uses
    BY <1>1 DEF PromptRecord
<1>3. [prompts EXCEPT ![n].taken = TRUE] = [prompts EXCEPT ![n] = p]
    OBVIOUS
<1> HIDE DEF p
<1> QED BY <1>2, <1>3, PromptPut

LEMMA UseOfPrompt ==
    ASSUME NEW q \in PromptRecord
    PROVE  LET p == [q EXCEPT !.uses = @ + 1]
           IN  p \in PromptRecord /\ p.task = q.task /\ p.card = q.card /\ p.taken = q.taken /\ p.uses = q.uses + 1
BY DEF PromptRecord

LEMMA PromptIsUsed ==
    ASSUME PromptsTyped, NEW n \in 1..Len(prompts)
    PROVE  LET Q == [prompts EXCEPT ![n].uses = @ + 1]
           IN  PromptTurns(n, Q) /\ Q[n].taken = prompts[n].taken /\ Q[n].uses = prompts[n].uses + 1
<1> DEFINE p == [prompts[n] EXCEPT !.uses = @ + 1]
<1>1. prompts[n] \in PromptRecord
    BY PromptsAre
<1>2. /\ p \in PromptRecord /\ p.task = prompts[n].task /\ p.card = prompts[n].card
      /\ p.taken = prompts[n].taken /\ p.uses = prompts[n].uses + 1
    BY <1>1 DEF PromptRecord
<1>3. [prompts EXCEPT ![n].uses = @ + 1] = [prompts EXCEPT ![n] = p]
    OBVIOUS
<1> HIDE DEF p
<1> QED BY <1>2, <1>3, PromptPut

LEMMA PromptIsSpent ==
    ASSUME PromptsTyped, NEW n \in 1..Len(prompts)
    PROVE  LET Q == [prompts EXCEPT ![n].taken = TRUE, ![n].uses = @ + 1]
           IN  PromptTurns(n, Q) /\ Q[n].taken /\ Q[n].uses = prompts[n].uses + 1
<1> DEFINE q == [prompts[n] EXCEPT !.taken = TRUE]
           p == [q EXCEPT !.uses = @ + 1]
<1>1. prompts[n] \in PromptRecord
    BY PromptsAre
<1>2. /\ q \in PromptRecord /\ q.task = prompts[n].task /\ q.card = prompts[n].card
      /\ q.taken /\ q.uses = prompts[n].uses
    BY <1>1 DEF PromptRecord
<1>3. [prompts EXCEPT ![n].taken = TRUE, ![n].uses = @ + 1] = [prompts EXCEPT ![n] = p]
    BY PromptsAre, <1>1 DEF PromptRecord
<1> HIDE DEF q
<1>4. /\ p \in PromptRecord /\ p.task = q.task /\ p.card = q.card
      /\ p.taken = q.taken /\ p.uses = q.uses + 1
    BY <1>2, UseOfPrompt
<1> HIDE DEF p
<1> QED BY <1>2, <1>4, <1>3, PromptPut

(* The card of a prompt that is taken keeps nothing, nor does a handler    *)
(* that is to cancel a job rely on it.                                     *)
LEMMA PromptsTurn ==
    ASSUME PromptsTyped, PromptsKnown, JobsConfirmed, NEW n \in 1..Len(prompts), PromptTurns(n, prompts'),
           prompts'[n].uses <= 1, ~prompts'[n].taken => prompts'[n].uses = 0,
           pending' \in [Cards -> 0..Len(prompts)],
           \A c \in Cards : pending'[c] # 0 =>
               pending'[c] = pending[c] /\ (pending[c] = n => ~prompts'[n].taken),
           \A h \in handlers' : h \in JobHandlers =>
               \/ h \in handlers /\ (h.prompt = n => prompts'[n].taken /\ prompts'[n].uses = 0)
               \/ /\ h.prompt = n /\ h.task = prompts[n].task /\ prompts'[n].taken /\ prompts'[n].uses = 0
                  /\ \A k \in handlers' : k \in JobHandlers /\ k.prompt = n => k = h
    PROVE  PromptsTyped' /\ PromptsKnown' /\ JobsConfirmed'
<1>1. PromptsTyped' /\ Len(prompts') = Len(prompts)
    BY DEF PromptsTyped, PromptTurns
<1>2. \A m \in 1..Len(prompts) :
          /\ prompts'[m].task = prompts[m].task /\ prompts'[m].card = prompts[m].card
          /\ m # n => prompts'[m] = prompts[m]
    BY DEF PromptTurns
<1>3. PromptsKnown'
    BY <1>1, <1>2, PromptsAre DEF PromptsKnown
<1>4. JobsConfirmed'
    BY <1>1, <1>2 DEF JobsConfirmed
<1> QED BY <1>1, <1>3, <1>4

LEMMA PromptsGrow ==
    ASSUME PromptsTyped, PromptsKnown, JobsConfirmed, NEW t \in Jobs \cup Groups \cup {"all"},
           NEW c \in Cards \cup {"all"}, prompts' = Append(prompts, Centre!Prompt(t, c)),
           pending' = pending \/ (c \in Cards /\ pending' = [pending EXCEPT ![c] = Len(prompts) + 1]),
           \A h \in handlers' : h \in JobHandlers => h \in handlers
    PROVE  PromptsTyped' /\ PromptsKnown' /\ JobsConfirmed'
<1> DEFINE p == Centre!Prompt(t, c)
<1>1. p \in PromptRecord /\ p.card = c /\ ~p.taken /\ p.uses = 0
    BY DEF Centre!Prompt, PromptRecord
<1> HIDE DEF p
<1>2. /\ prompts' \in Seq(PromptRecord) /\ Len(prompts') = Len(prompts) + 1
      /\ \A m \in 1..Len(prompts) : prompts'[m] = prompts[m]
      /\ prompts'[Len(prompts) + 1] = p
    BY <1>1, AppendProperties DEF PromptsTyped, p
<1>3. pending' \in [Cards -> 0..Len(prompts')]
    BY <1>2, PromptsAre DEF PromptsTyped
<1>4. \A m \in 1..Len(prompts') : m \in 1..Len(prompts) \/ m = Len(prompts) + 1
    BY <1>2, PromptsAre
<1>5. PromptsKnown'
    BY <1>1, <1>2, <1>4, PromptsAre DEF PromptsKnown, PromptsTyped
<1>6. JobsConfirmed'
    BY <1>2, PromptsAre DEF JobsConfirmed
<1> QED BY <1>2, <1>3, <1>5, <1>6 DEF PromptsTyped

(* The rest of a step that is about prompts.                               *)
LEMMA PromptStep ==
    ASSUME CentreInv, EntriesTyped', EntriesMove, Centre!StoppedStays', CountsTyped',
           UNCHANGED <<dismissed, tokens>>, handlers' \subseteq CentreHandlers,
           \A h \in handlers' : h \in handlers \/ h.at # "save",
           PromptsTyped', PromptsKnown', JobsConfirmed'
    PROVE  CentreInv'
    BY KindsOfHandlers, DismissedStays DEF CentreInv, HandlersTyped

LEMMA AskKeepsCentre ==
    ASSUME TasksDistinct, CentreInv, Centre!Ask
    PROVE  CentreInv'
<1>1. PICK h \in Centre!Waiting("ask") :
          /\ handlers' = handlers \ {h}
          /\ \/ /\ prompts' = Append(prompts, Centre!Prompt(h.task, h.card))
                /\ pending' = [pending EXCEPT ![h.card] = Len(prompts) + 1]
             \/ UNCHANGED <<prompts, pending>>
          /\ UNCHANGED <<jobs, groups, rows, told, dismissed, tokens, stopped, events, issued>>
    BY DEF Centre!Ask, Centre!tasks
<1>2. h.task \in Jobs \cup Groups /\ h.card \in Cards
    BY WaitingAre, KindsOfHandlers DEF CardPresses
<1>3. EntriesTyped' /\ EntriesMove /\ Centre!StoppedStays' /\ CountsTyped'
    BY <1>1, QuietStep, WaitingAre
<1>4. PromptsTyped' /\ PromptsKnown' /\ JobsConfirmed'
    BY <1>1, <1>2, PromptsGrow DEF CentreInv, PromptsTyped, PromptsKnown, JobsConfirmed
<1> QED BY <1>1, <1>3, <1>4, WaitingAre, PromptStep

LEMMA AskAllKeeps ==
    ASSUME TasksDistinct, CentreInv, Centre!AskAll
    PROVE  CentreInv'
    BY QuietStep, WaitingAre, PromptsGrow, PromptStep DEF Centre!AskAll, Centre!tasks, CentreInv

LEMMA ExpireKeeps ==
    ASSUME TasksDistinct, CentreInv, Centre!Expire
    PROVE  CentreInv'
<1>1. PICK n \in 1..Len(prompts) :
          /\ ~prompts[n].taken
          /\ prompts' = [prompts EXCEPT ![n].expired = TRUE]
          /\ UNCHANGED <<jobs, groups, rows, told, dismissed, pending, tokens, handlers, stopped, events, issued>>
    BY DEF Centre!Expire, Centre!tasks
<1>2. EntriesTyped' /\ EntriesMove /\ Centre!StoppedStays' /\ CountsTyped'
    BY <1>1, QuietStep, WaitingAre
<1>3. PromptTurns(n, prompts') /\ ~prompts'[n].taken /\ prompts'[n].uses = prompts[n].uses
    BY <1>1, PromptExpires DEF CentreInv
<1>4. prompts[n].uses = 0
    BY <1>1 DEF CentreInv, PromptsKnown
<1>5. pending' \in [Cards -> 0..Len(prompts)] /\ pending' = pending
    BY <1>1 DEF CentreInv, PromptsTyped
<1>6. \A h \in handlers' : h \in JobHandlers => h \in handlers /\ h.prompt # n
    BY <1>1 DEF CentreInv, JobsConfirmed
<1>7. PromptsTyped' /\ PromptsKnown' /\ JobsConfirmed'
    BY <1>3, <1>4, <1>5, <1>6, PromptsTurn DEF CentreInv
<1> QED BY <1>1, <1>2, <1>7, WaitingAre, PromptStep

LEMMA ConfirmAllKeeps ==
    ASSUME TasksDistinct, CentreInv, Centre!ConfirmAll
    PROVE  CentreInv'
<1>1. PICK n \in 1..Len(prompts) :
          /\ prompts[n].card = "all" /\ ~prompts[n].taken
          /\ prompts' = [prompts EXCEPT ![n].taken = TRUE, ![n].uses = @ + 1]
          /\ handlers' = handlers \cup {[at |-> "list", prompt |-> n]}
          /\ UNCHANGED <<jobs, groups, rows, told, dismissed, pending, tokens, stopped, events, issued>>
    BY DEF Centre!ConfirmAll, Centre!tasks
<1>2. EntriesTyped' /\ EntriesMove /\ Centre!StoppedStays' /\ CountsTyped'
    BY <1>1, QuietStep, WaitingAre
<1>3. PromptTurns(n, prompts') /\ prompts'[n].taken /\ prompts'[n].uses = prompts[n].uses + 1
    BY <1>1, PromptIsSpent DEF CentreInv
<1>4. prompts[n].uses = 0
    BY <1>1 DEF CentreInv, PromptsKnown
<1>5. pending' \in [Cards -> 0..Len(prompts)] /\ pending' = pending
    BY <1>1 DEF CentreInv, PromptsTyped
<1>6. \A c \in Cards : pending[c] # n
    BY <1>1, PromptsAre DEF CentreInv, PromptsKnown, TasksDistinct
<1>7. [at |-> "list", prompt |-> n] \in CentreHandlers /\ [at |-> "list", prompt |-> n] \notin JobHandlers
    BY PromptsAre DEF CentreInv, CentreHandlers, Listings, JobHandlers
<1>8. \A h \in handlers' : h \in JobHandlers => h \in handlers /\ h.prompt # n
    BY <1>1, <1>7 DEF CentreInv, JobsConfirmed
<1>9. PromptsTyped' /\ PromptsKnown' /\ JobsConfirmed'
    BY <1>3, <1>4, <1>5, <1>6, <1>8, PromptsTurn DEF CentreInv
<1> QED BY <1>1, <1>2, <1>7, <1>9, WaitingAre, PromptStep

LEMMA CancelTheJobKeeps ==
    ASSUME TasksDistinct, CentreInv, Centre!CancelTheJob
    PROVE  CentreInv'
<1>1. PICK h \in Centre!Waiting("job") :
          /\ Centre!CancelJob(h.task)
          /\ prompts' = [prompts EXCEPT ![h.prompt].uses = @ + 1]
          /\ handlers' = handlers \ {h}
          /\ stopped' = Centre!StoppedBy({h.task})
          /\ pending' \in {pending, [pending EXCEPT ![h.card] = 0]}
          /\ UNCHANGED <<dismissed, tokens, events, issued>>
    BY DEF Centre!CancelTheJob
<1>2. h \in JobHandlers /\ h \in handlers
    BY WaitingAre, KindsOfHandlers
<1>3. h.task \in Jobs /\ h.card \in Cards
    BY <1>2 DEF JobHandlers
<1>4. EntriesTyped' /\ EntriesMove /\ Centre!StoppedStays' /\ stopped' \subseteq Jobs \cup Groups
    BY <1>1, <1>3, CancelStops DEF CentreInv
<1>5. CountsTyped'
    BY <1>1, <1>4 DEF CentreInv, CountsTyped
<1>6. /\ h.prompt \in 1..Len(prompts) /\ prompts[h.prompt].taken /\ prompts[h.prompt].uses = 0
      /\ \A k \in handlers' : k \in JobHandlers => k \in handlers /\ k.prompt # h.prompt
    BY <1>1, <1>2 DEF CentreInv, JobsConfirmed
<1>7. PromptTurns(h.prompt, prompts') /\ prompts'[h.prompt].taken /\ prompts'[h.prompt].uses = 1
    <2> DEFINE n == h.prompt
    <2>1. n \in 1..Len(prompts) /\ prompts' = [prompts EXCEPT ![n].uses = @ + 1]
        BY <1>1, <1>6
    <2>2. prompts[n].taken /\ prompts[n].uses = 0
        BY <1>6
    <2> HIDE DEF n
    <2>3. /\ PromptTurns(n, prompts') /\ prompts'[n].taken = prompts[n].taken
          /\ prompts'[n].uses = prompts[n].uses + 1
        BY <2>1, PromptIsUsed DEF CentreInv
    <2> QED BY <2>2, <2>3 DEF n
<1>8. /\ pending' \in [Cards -> 0..Len(prompts)]
      /\ \A c \in Cards : pending'[c] # 0 => pending'[c] = pending[c]
    BY <1>1, <1>3, PromptsAre DEF CentreInv, PromptsTyped
<1>9. \A c \in Cards : pending[c] # h.prompt
    BY <1>6, PromptsAre DEF CentreInv, PromptsKnown
<1>10. PromptsTyped' /\ PromptsKnown' /\ JobsConfirmed'
    BY <1>6, <1>7, <1>8, <1>9, PromptsTurn DEF CentreInv
<1> QED BY <1>1, <1>4, <1>5, <1>10, WaitingAre, PromptStep

LEMMA ConfirmKeeps ==
    ASSUME TasksDistinct, CentreInv, Centre!Confirm
    PROVE  CentreInv'
<1>1. PICK h \in Centre!Waiting("find") :
          LET n == pending[h.card]
              good == Centre!Good(h, n)
          IN  /\ pending' = [pending EXCEPT ![h.card] = 0]
              /\ IF good /\ h.task \in Groups
                 THEN /\ handlers' = handlers \ {h} /\ Centre!CancelGroups({h.task})
                      /\ prompts' = [prompts EXCEPT ![n].taken = TRUE, ![n].uses = @ + 1]
                      /\ stopped' = Centre!StoppedBy({h.task})
                 ELSE /\ UNCHANGED stopped
                      /\ prompts' = IF n = 0 THEN prompts ELSE [prompts EXCEPT ![n].taken = TRUE]
                      /\ handlers' = (handlers \ {h}) \cup
                             (IF good THEN {Centre!Handler("job", h.task, h.card, n)} ELSE {})
                      /\ UNCHANGED <<jobs, groups, rows, told>>
              /\ UNCHANGED <<dismissed, tokens, events, issued>>
    BY DEF Centre!Confirm, Centre!tasks
<1> DEFINE n == pending[h.card]
           new == Centre!Handler("job", h.task, h.card, n)
<1>2. h.task \in Jobs \cup Groups /\ h.card \in Cards
    BY WaitingAre, KindsOfHandlers DEF CardPresses
<1>3. /\ n \in 0..Len(prompts) /\ n \in Nat
      /\ n # 0 => prompts[n].card = h.card /\ ~prompts[n].taken /\ prompts[n].uses = 0
    BY <1>2, PromptsAre DEF CentreInv, PromptsKnown
<1>4. /\ pending' \in [Cards -> 0..Len(prompts)] /\ pending' = [pending EXCEPT ![h.card] = 0]
      /\ \A c \in Cards : pending'[c] # 0 => pending'[c] = pending[c]
      /\ \A c \in Cards : pending'[c] # 0 => c # h.card
    BY <1>1, <1>2, PromptsAre DEF CentreInv, PromptsTyped
<1>5. \A c \in Cards : pending'[c] # 0 /\ n # 0 => pending[c] # n
    BY <1>2, <1>3, <1>4 DEF CentreInv, PromptsKnown
<1>6. \A k \in handlers : k \in JobHandlers /\ n # 0 => k.prompt # n
    BY <1>3 DEF CentreInv, JobsConfirmed
<1>7. /\ new.at = "job" /\ new.prompt = n /\ new.task = h.task
      /\ h.task \in Jobs => new \in JobHandlers
    BY <1>2, <1>3 DEF Centre!Handler, JobHandlers
<1>8. UNCHANGED <<dismissed, tokens, events, issued>>
    BY <1>1
<1>9. CASE Centre!Good(h, n) /\ h.task \in Groups
    <2>1. /\ handlers' = handlers \ {h} /\ Centre!CancelGroups({h.task})
          /\ prompts' = [prompts EXCEPT ![n].taken = TRUE, ![n].uses = @ + 1]
          /\ stopped' = Centre!StoppedBy({h.task})
        BY <1>1, <1>9
    <2>2. n \in 1..Len(prompts) /\ n # 0
        BY <1>3, <1>9, PromptsAre DEF Centre!Good, CentreInv
    <2>3. h.task \notin Jobs
        BY <1>9 DEF TasksDistinct
    <2>4. EntriesTyped' /\ EntriesMove /\ Centre!StoppedStays' /\ stopped' \subseteq Jobs \cup Groups
        BY <1>2, <2>1, <2>3, CancelStops DEF CentreInv
    <2>5. CountsTyped'
        BY <1>8, <2>4 DEF CentreInv, CountsTyped
    <2>6. PromptTurns(n, prompts') /\ prompts'[n].taken /\ prompts'[n].uses = 1
        <3>1. prompts[n].uses = 0
            BY <1>3, <2>2
        <3> HIDE DEF n
        <3>2. PromptTurns(n, prompts') /\ prompts'[n].taken /\ prompts'[n].uses = prompts[n].uses + 1
            BY <2>1, <2>2, PromptIsSpent DEF CentreInv
        <3> QED BY <3>1, <3>2
    <2>7. \A k \in handlers' : k \in JobHandlers => k \in handlers /\ k.prompt # n
        BY <1>6, <2>1, <2>2
    <2>8. PromptsTyped' /\ PromptsKnown' /\ JobsConfirmed'
        <3> HIDE DEF n
        <3> QED BY <1>4, <1>5, <2>2, <2>6, <2>7, PromptsTurn DEF CentreInv
    <2> QED BY <1>8, <2>1, <2>4, <2>5, <2>8, WaitingAre, PromptStep
<1>10. CASE ~(Centre!Good(h, n) /\ h.task \in Groups)
    <2>1. /\ UNCHANGED <<jobs, groups, rows, told, stopped>>
          /\ prompts' = IF n = 0 THEN prompts ELSE [prompts EXCEPT ![n].taken = TRUE]
          /\ handlers' = (handlers \ {h}) \cup (IF Centre!Good(h, n) THEN {new} ELSE {})
        BY <1>1, <1>10
    <2>2. EntriesTyped' /\ EntriesMove /\ Centre!StoppedStays' /\ CountsTyped'
        BY <1>8, <2>1, QuietStep, WaitingAre
    <2>3. CASE n = 0
        BY <2>3, <2>1, <1>4, <1>8, <2>2, WaitingAre, PromptStep DEF Centre!Good, CentreInv,
            PromptsTyped, PromptsKnown, JobsConfirmed
    <2>4. CASE n # 0
        <3>1. n \in 1..Len(prompts)
            BY <1>3, <2>4, PromptsAre DEF CentreInv
        <3>2. PromptTurns(n, prompts') /\ prompts'[n].taken /\ prompts'[n].uses = 0
            <4> HIDE DEF n, new
            <4> QED BY <1>3, <2>1, <2>4, <3>1, PromptIsTaken DEF CentreInv
        <3>3. Centre!Good(h, n) => h.task = prompts[n].task /\ new \in JobHandlers
            BY <1>2, <1>7, <1>10 DEF Centre!Good
        <3>4. handlers' \subseteq CentreHandlers /\ \A k \in handlers' : k \in handlers \/ k.at # "save"
            <4> HIDE DEF n, new
            <4> QED BY <1>7, <2>1, <3>3, WaitingAre DEF CentreHandlers
        <3>5. \A k \in handlers' : k \in JobHandlers =>
                  \/ k \in handlers /\ (k.prompt = n => prompts'[n].taken /\ prompts'[n].uses = 0)
                  \/ /\ k.prompt = n /\ k.task = prompts[n].task /\ prompts'[n].taken /\ prompts'[n].uses = 0
                     /\ \A i \in handlers' : i \in JobHandlers /\ i.prompt = n => i = k
            <4> HIDE DEF n, new
            <4> QED BY <1>6, <1>7, <2>1, <2>4, <3>2, <3>3
        <3>6. PromptsTyped' /\ PromptsKnown' /\ JobsConfirmed'
            <4> HIDE DEF n, new
            <4> QED BY <1>4, <1>5, <2>4, <3>1, <3>2, <3>5, PromptsTurn DEF CentreInv
        <3> QED BY <1>8, <2>2, <3>4, <3>6, PromptStep
    <2> QED BY <2>3, <2>4
<1> QED BY <1>9, <1>10

-----------------------------------------------------------------------------
(* The web page cancels one task.                                          *)

LEMMA IssueKeeps ==
    ASSUME TasksDistinct, CentreInv, NEW token \in CancelTokens \cup DismissTokens, Centre!Issue(token),
           UNCHANGED <<jobs, groups, rows, told, dismissed, prompts, pending, handlers, stopped, events>>
    PROVE  CentreInv'
    BY WaitingAre, QuietStep, HandlerStep DEF Centre!Issue, TasksDistinct

LEMMA PrepareCancelKeeps ==
    ASSUME TasksDistinct, CentreInv, Centre!PrepareCancel
    PROVE  CentreInv'
    BY WaitingAre, IssueKeeps DEF Centre!PrepareCancel, Centre!Tasks, Centre!tasks, CancelTokens

LEMMA CancelByWebKeeps ==
    ASSUME TasksDistinct, CentreInv, Centre!CancelByWeb
    PROVE  CentreInv'
<1>1. PICK k \in tokens :
          /\ k.use = "cancel" /\ tokens' = tokens \ {k}
          /\ handlers' = handlers \cup {[at |-> IF k.task \in Jobs THEN "webJob" ELSE "webRow", task |-> k.task]}
          /\ UNCHANGED <<jobs, groups, rows, told, dismissed, prompts, pending, stopped, events, issued>>
    BY DEF Centre!CancelByWeb, Centre!tasks
<1>2. k \in CancelTokens \/ k \in DismissTokens
    BY WaitingAre
<1>3. k.task \in Jobs \cup Groups
    BY <1>1, <1>2 DEF CancelTokens, DismissTokens
<1> DEFINE new == [at |-> IF k.task \in Jobs THEN "webJob" ELSE "webRow", task |-> k.task]
<1>4. new \in WebJobs \/ new \in WebGroups
    BY <1>3 DEF WebJobs, WebGroups
<1>5. new \in CentreHandlers /\ new.at \notin {"job", "save"}
    BY <1>4 DEF CentreHandlers
<1>6. handlers' = handlers \cup {new}
    BY <1>1
<1> HIDE DEF new
<1>7. EntriesTyped' /\ EntriesMove /\ Centre!StoppedStays' /\ CountsTyped'
    BY <1>1, QuietStep, WaitingAre
<1> QED BY <1>1, <1>5, <1>6, <1>7, WaitingAre, HandlerStep

LEMMA CancelJobByWebKeeps ==
    ASSUME TasksDistinct, CentreInv, Centre!CancelJobByWeb
    PROVE  CentreInv'
    BY WaitingAre, KindsOfHandlers, CancelStops, HandlerStep DEF Centre!CancelJobByWeb, WebJobs,
        CentreInv, CountsTyped

LEMMA CancelGroupByWebKeeps ==
    ASSUME TasksDistinct, CentreInv, Centre!CancelGroupByWeb
    PROVE  CentreInv'
<1>1. PICK h \in Centre!Waiting("webRow") :
          /\ IF rows[h.task].status = "failed" THEN UNCHANGED <<jobs, groups, rows, told, stopped>>
             ELSE Centre!CancelGroups({h.task}) /\ stopped' = Centre!StoppedBy({h.task})
          /\ handlers' = (handlers \ {h}) \cup
                 IF rows[h.task].status = "failed" \/ groups[h.task].status \in Centre!Unfinished
                 THEN {[at |-> "webMark", task |-> h.task]} ELSE {}
          /\ UNCHANGED <<dismissed, prompts, pending, tokens, events, issued>>
    BY DEF Centre!CancelGroupByWeb, Centre!tasks
<1>2. h.task \in Groups
    BY WaitingAre, KindsOfHandlers DEF WebGroups
<1>3. EntriesTyped' /\ EntriesMove /\ Centre!StoppedStays' /\ stopped' \subseteq Jobs \cup Groups
    BY <1>1, EntriesSame, StoppedFollow, <1>2, CancelStops DEF CentreInv, CountsTyped, TasksDistinct
<1>4. CountsTyped'
    BY <1>1, <1>3 DEF CentreInv, CountsTyped
<1>5. [at |-> "webMark", task |-> h.task] \in CentreHandlers
    BY <1>2 DEF CentreHandlers, WebGroups
<1>6. handlers' \subseteq (handlers \cup {[at |-> "webMark", task |-> h.task]})
    BY <1>1
<1> QED BY <1>1, <1>3, <1>4, <1>5, <1>6, WaitingAre, HandlerStep

LEMMA MarkByWebKeeps ==
    ASSUME TasksDistinct, CentreInv, Centre!MarkByWeb
    PROVE  CentreInv'
<1>1. PICK h \in Centre!Waiting("webMark") :
          /\ rows' = [rows EXCEPT ![h.task] = Centre!Turn(@, "cancelled")]
          /\ handlers' = handlers \ {h}
          /\ UNCHANGED <<jobs, groups, told, dismissed, prompts, pending, tokens, stopped, events, issued>>
    BY DEF Centre!MarkByWeb
<1>2. h.task \in Groups
    BY WaitingAre, KindsOfHandlers DEF WebGroups
<1>3. "cancelled" \in EntryStatuses /\ told' \in [Groups -> Seq(EntryStatuses)]
    BY <1>1 DEF CentreInv, EntriesTyped, EntryStatuses
<1>4. EntriesTyped' /\ EntriesMove
    BY <1>1, <1>2, <1>3, RowMoves DEF CentreInv
<1>5. Centre!StoppedStays' /\ CountsTyped'
    BY <1>1, <1>4, StoppedFollow DEF CentreInv, CountsTyped
<1> QED BY <1>1, <1>4, <1>5, WaitingAre, HandlerStep

-----------------------------------------------------------------------------
(* Records are dismissed.                                                  *)

LEMMA SeenIs ==
    ASSUME TasksDistinct, EntriesTyped, NEW t \in Jobs \cup Groups
    PROVE  /\ Centre!Seen(t).version \in Versions /\ Centre!Seen(t).version # <<>>
           /\ Centre!Dismissible(Centre!Seen(t).status) <=> KnownOver(t, Centre!Seen(t).version)
    BY EntriesAre DEF Centre!Seen, TasksDistinct, KnownOver, Past, Versions, Centre!Dismissible,
        Centre!Final, EntryStatuses, Centre!InMemory

LEMMA PrepareDismissalKeeps ==
    ASSUME TasksDistinct, CentreInv, Centre!PrepareDismissal
    PROVE  CentreInv'
<1>1. PICK ts \in SUBSET (Jobs \cup Groups) :
          /\ Centre!Issue([use |-> "dismiss", id |-> issued, shown |-> {<<t, Centre!Seen(t).version>> : t \in ts}])
          /\ UNCHANGED <<jobs, groups, rows, told, dismissed, prompts, pending, handlers, stopped, events>>
    BY DEF Centre!PrepareDismissal, Centre!Tasks, Centre!tasks
<1>2. {<<t, Centre!Seen(t).version>> : t \in ts} \subseteq Listed
    BY SeenIs DEF CentreInv, Listed
<1> DEFINE shown == {<<t, Centre!Seen(t).version>> : t \in ts}
<1>3. shown \in SUBSET Listed
    BY <1>2
<1>4. Centre!Issue([use |-> "dismiss", id |-> issued, shown |-> shown])
    BY <1>1
<1> HIDE DEF shown
<1>5. [use |-> "dismiss", id |-> issued, shown |-> shown] \in DismissTokens
    BY <1>3, WaitingAre DEF DismissTokens
<1> QED BY <1>1, <1>4, <1>5, IssueKeeps

LEMMA ConfirmDismissalKeeps ==
    ASSUME TasksDistinct, CentreInv, Centre!ConfirmDismissal
    PROVE  CentreInv'
    BY WaitingAre, QuietStep, HandlerStep DEF Centre!ConfirmDismissal, Centre!tasks, CancelTokens,
        DismissTokens, CentreHandlers, Checks

(* A step after which what is dismissed, or is to be, is known to be over. *)
LEMMA DismissStep ==
    ASSUME CentreInv, DismissedKnown', handlers' \subseteq CentreHandlers,
           \A h \in handlers' : h \in handlers \/ h.at # "job",
           UNCHANGED <<jobs, groups, rows, told, prompts, pending, tokens, stopped, events, issued>>
    PROVE  CentreInv'
    BY QuietStep, WaitingAre, KindsOfHandlers DEF CentreInv, HandlersTyped, PromptsTyped,
        PromptsKnown, JobsConfirmed

LEMMA CheckDismissalKeeps ==
    ASSUME TasksDistinct, CentreInv, Centre!CheckDismissal
    PROVE  CentreInv'
<1>1. PICK h \in Centre!Waiting("check") :
          /\ handlers' = (handlers \ {h}) \cup {[at |-> "save", items |-> Centre!Unchanged(h.shown)]}
          /\ UNCHANGED <<jobs, groups, rows, told, dismissed, prompts, pending, tokens, stopped, events, issued>>
    BY DEF Centre!CheckDismissal, Centre!tasks
<1>2. h.shown \in SUBSET Listed
    BY WaitingAre, KindsOfHandlers DEF Checks
<1> DEFINE items == Centre!Unchanged(h.shown)
           new == [at |-> "save", items |-> items]
<1>3. items \in SUBSET Listed
    BY <1>2 DEF Centre!Unchanged
<1>4. \A s \in items : KnownOver(s[1], s[2])
    <2>1. \A s \in items :
              /\ s[1] \in Jobs \cup Groups /\ Centre!Dismissible(Centre!Seen(s[1]).status)
              /\ Centre!Seen(s[1]).version = s[2]
        BY <1>2 DEF Centre!Unchanged, Listed
    <2> HIDE DEF items
    <2> QED BY <2>1, SeenIs DEF CentreInv
<1>5. handlers' = (handlers \ {h}) \cup {new}
    BY <1>1
<1> HIDE DEF items
<1>6. new.items = items /\ new.at = "save" /\ new \in CentreHandlers
    BY <1>3 DEF CentreHandlers, Saves
<1> HIDE DEF new
<1>7. DismissedKnown'
    BY <1>1, <1>4, <1>5, <1>6 DEF KnownOver, Past, CentreInv, DismissedKnown
<1> QED BY <1>1, <1>5, <1>6, <1>7, WaitingAre, DismissStep

LEMMA SaveDismissalKeeps ==
    ASSUME TasksDistinct, CentreInv, Centre!SaveDismissal
    PROVE  CentreInv'
<1>1. PICK h \in Centre!Waiting("save") :
          /\ \/ \E s \in h.items :
                   /\ dismissed' = [dismissed EXCEPT ![s[1]] = s[2]]
                   /\ handlers' = (handlers \ {h}) \cup {[h EXCEPT !.items = @ \ {s}]}
             \/ h.items = {} /\ handlers' = handlers \ {h} /\ UNCHANGED dismissed
          /\ UNCHANGED <<jobs, groups, rows, told, prompts, pending, tokens, stopped, events, issued>>
    BY DEF Centre!SaveDismissal, Centre!tasks
<1>2. h \in Saves /\ h \in handlers
    BY WaitingAre, KindsOfHandlers
<1>3. h.items \in SUBSET Listed /\ \A s \in h.items : KnownOver(s[1], s[2])
    BY <1>2 DEF Saves, CentreInv, DismissedKnown
<1>4. \A t, v : KnownOver(t, v)' <=> KnownOver(t, v)
    BY <1>1 DEF KnownOver, Past
<1>5. CASE h.items = {} /\ handlers' = handlers \ {h} /\ UNCHANGED dismissed
    BY <1>1, EntriesSame, <1>5, DismissedStays, WaitingAre, DismissStep DEF CentreInv
<1>6. CASE \E s \in h.items :
               /\ dismissed' = [dismissed EXCEPT ![s[1]] = s[2]]
               /\ handlers' = (handlers \ {h}) \cup {[h EXCEPT !.items = @ \ {s}]}
    <2>1. PICK s \in h.items :
              /\ dismissed' = [dismissed EXCEPT ![s[1]] = s[2]]
              /\ handlers' = (handlers \ {h}) \cup {[h EXCEPT !.items = @ \ {s}]}
        BY <1>6
    <2>2. s[1] \in Jobs \cup Groups /\ s[2] \in Versions /\ KnownOver(s[1], s[2])
        BY <1>3 DEF Listed
    <2> DEFINE new == [h EXCEPT !.items = @ \ {s}]
    <2>3. new \in Saves /\ new.items = h.items \ {s} /\ new.at = "save"
        BY <1>2 DEF Saves
    <2>4. handlers' = (handlers \ {h}) \cup {new}
        BY <2>1
    <2> HIDE DEF new
    <2>5. new \in CentreHandlers
        BY <2>3 DEF CentreHandlers
    <2>6. \A k \in handlers' : k \in Saves => \A i \in k.items : KnownOver(i[1], i[2])
        BY <1>3, <2>3, <2>4 DEF CentreInv, DismissedKnown
    <2>7. \A k \in handlers' : k \in Saves => \A i \in k.items : KnownOver(i[1], i[2])'
        BY <1>4, <2>6
    <2>8. /\ dismissed' \in [Jobs \cup Groups -> Versions]
          /\ \A t \in Jobs \cup Groups : dismissed'[t] = <<>> \/ KnownOver(t, dismissed'[t])
        BY <2>1, <2>2 DEF CentreInv, DismissedKnown
    <2>9. \A t \in Jobs \cup Groups : dismissed'[t] = <<>> \/ KnownOver(t, dismissed[t])'
        BY <1>1, <2>8 DEF KnownOver, Past
    <2>10. DismissedKnown'
        BY <2>7, <2>8, <2>9 DEF DismissedKnown, KnownOver
    <2> QED BY <1>1, <2>3, <2>4, <2>5, <2>10, WaitingAre, DismissStep
<1> QED BY <1>1, <1>5, <1>6

-----------------------------------------------------------------------------
LEMMA CentreInit ==
    ASSUME TasksDistinct, Centre!Init
    PROVE  CentreInv
    BY DEF Centre!Init, Centre!Tasks, EntryRecord, EntriesTyped, EntryStatuses, PromptsTyped,
        PromptsKnown, CountsTyped, HandlersTyped, JobsConfirmed, TasksDistinct, DismissedKnown,
        Versions, Centre!StoppedStays, CentreInv

LEMMA CentreIdle ==
    ASSUME CentreInv, UNCHANGED Centre!vars
    PROVE  CentreInv'
    BY QuietStep, WaitingAre, EntryStep DEF Centre!vars, Centre!tasks

LEMMA CentreCounts ==
    ASSUME NEW S
    PROVE  Centre!Cardinality(S) = Cardinality(S)
BY Zenon DEF Centre!Cardinality, Cardinality

LEMMA ConfirmedOnce ==
    ASSUME CentreInv
    PROVE  Centre!OnlyWhatWasConfirmed
<1> DEFINE S(n) == {h \in Centre!Waiting("job") : h.prompt = n}
<1>1. \A h \in Centre!Waiting("job") : h \in handlers /\ h \in JobHandlers
    BY WaitingAre, KindsOfHandlers
<1>2. ASSUME NEW n \in 1..Len(prompts)
      PROVE  prompts[n].uses + Cardinality(S(n)) <= 1
    <2>1. prompts[n].uses \in Nat /\ prompts[n].uses <= 1
        BY PromptsAre DEF CentreInv, PromptsKnown
    <2>2. CASE S(n) = {}
        <3>1. Cardinality(S(n)) = 0
            BY <2>2, FS_EmptySet
        <3> HIDE DEF S
        <3> QED BY <2>1, <3>1
    <2>3. CASE S(n) # {}
        <3>1. PICK h \in S(n) : TRUE
            BY <2>3
        <3>2. prompts[n].uses = 0
            BY <1>1, <3>1 DEF CentreInv, JobsConfirmed
        <3>3. S(n) = {h}
            BY <1>1, <3>1 DEF CentreInv, JobsConfirmed
        <3>4. Cardinality(S(n)) = 1
            BY <3>3, FS_Singleton
        <3> HIDE DEF S
        <3> QED BY <3>2, <3>4
    <2> QED BY <2>2, <2>3
<1>3. \A n \in 1..Len(prompts) : prompts[n].uses + Centre!Cardinality(S(n)) <= 1
    <2> HIDE DEF S
    <2>1. \A n : Centre!Cardinality(S(n)) = Cardinality(S(n))
        BY CentreCounts
    <2> QED BY <1>2, <2>1
<1>4. \A h \in Centre!Waiting("job") : prompts[h.prompt].task = h.task
    BY <1>1 DEF CentreInv, JobsConfirmed
<1> QED BY <1>3, <1>4 DEF Centre!OnlyWhatWasConfirmed

(* A prompt cancels what it names, once; what is hidden is over; and what  *)
(* was reported as cancelled never runs again (routes/tasks.ts,            *)
(* telegramCommands.ts, taskCenterDismissals.ts).                          *)
THEOREM CentreTheorem ==
    ASSUME TasksDistinct
    PROVE  Centre!Spec => [](Centre!TypeOK /\ Centre!TaskCentreKept)
<1>1. Centre!Init => CentreInv
    BY CentreInit
<1>2. CentreInv /\ [Centre!Next]_(Centre!vars) => CentreInv'
    BY CentreIdle, TasksGoOn, SnapshotKeeps, ForgetKeeps, ControlsKeep, CancelTaskKeeps,
        PressKeepsCentre, NotFoundKeeps, AskKeepsCentre, ExpireKeeps, ConfirmKeeps,
        CancelTheJobKeeps, AskAllKeeps, ConfirmAllKeeps, ListAllKeeps, CancelAllKeeps,
        PrepareCancelKeeps, CancelByWebKeeps, CancelJobByWebKeeps, CancelGroupByWebKeeps,
        MarkByWebKeeps, PrepareDismissalKeeps, ConfirmDismissalKeeps, CheckDismissalKeeps,
        SaveDismissalKeeps DEF Centre!Next
<1>3. CentreInv => Centre!TypeOK /\ Centre!TaskCentreKept
    BY SeenIs, ConfirmedOnce DEF Centre!States, Centre!Unfinished, Centre!Final, EntryStatuses,
        Centre!Entries, EntryRecord, CentreInv, EntriesTyped, PromptsTyped, CountsTyped,
        Centre!TypeOK, Centre!Tasks, DismissedKnown, Centre!Hidden, Centre!HiddenIsOver,
        Centre!TaskCentreKept
<1> QED BY <1>1, <1>2, <1>3, PTL DEF Centre!Spec
=============================================================================

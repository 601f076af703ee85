----------------------- MODULE ChannelDownloadsProofs -----------------------
(***************************************************************************)
(* Proofs about ChannelDownloads, for any number of items, leases, faults  *)
(* and controls.                                                           *)
(*                                                                         *)
(* The job, its items, the write journal, the storage, the workers and the *)
(* recovery pass change in some fifty steps, but each of them in few ways: *)
(* ItemMoves, JournalMoves, StageMoves, StoreMoves and ClaimMoves say how, *)
(* proved once by going through the steps.  The invariants follow from     *)
(* these alone: who holds which lease, which write a journal row and a     *)
(* claim are about, and what of it may be removed.  A part is about a job  *)
(* no cooldown ever meets, the last about SubscriptionSync: the cursor of  *)
(* a subscription.                                                         *)
(***************************************************************************)
EXTENDS ChannelDownloads, FiniteSetTheorems, TLAPS

Statuses == {"pending", "downloading", "success", "failed", "skipped"}

ItemRecord == [status : Statuses, token : 0..MaxClaims, lapsed : BOOLEAN]

Evidences == {"unknown", "present", "deleted"}

JournalRecord ==
    [state : {"none", "pending", "operator", "committed", "undone"},
     op : 0..MaxClaims, object : Evidences, index : Evidences,
     path : BOOLEAN, file : BOOLEAN, leased : BOOLEAN]

ClaimRecord ==
    [at : {"idle", "claimed", "object", "check", "row", "close"},
     object : Evidences, index : Evidences, path : BOOLEAN, file : BOOLEAN,
     op : 0..MaxClaims, success : BOOLEAN]

Stages ==
    {"none", "claimed", "left", "ready", "download", "permitted", "begun",
     "saved", "marked", "indexed", "written", "valid", "undo", "unrow", "drop",
     "unindex", "note", "refused", "skip", "duplicate", "fail", "again"}

Done == {"completed", "completed_with_errors", "failed"}

ItemTypes == given \in [Items -> 0..MaxClaims] /\ item \in [Items -> ItemRecord]

StoreTypes == objects \subseteq Tokens /\ files \subseteq Tokens

StageTypes ==
    stage \in [Tokens -> Stages] /\ gone \in [Tokens -> SUBSET {"object", "index"}]

ControlTypes ==
    /\ job \in {"running", "paused", "cooling", "cancelled", "completed",
                "completed_with_errors", "failed"}
    /\ cooling \in BOOLEAN /\ quota \in BOOLEAN /\ stopping \in BOOLEAN
    /\ phase \in {"off", "wait", "go", "claimed", "active", "restore", "tally", "finish"}
    /\ verdict \in {"none", "pending", "skipped", "running", "completed",
                    "completed_with_errors"}
    /\ exhausted \in BOOLEAN /\ aborted \in BOOLEAN
    /\ failure \in {"none", "lease", "quota", "error"}
    /\ pass \in {"off", "resolve", "repair", "uncool", "release", "start"}
    /\ faults \in 0..MaxFaults /\ controls \in 0..MaxControls

Typed ==
    /\ ItemTypes /\ StoreTypes /\ StageTypes /\ ControlTypes
    /\ journal \in [Items -> JournalRecord]
    /\ claim \in [Items -> ClaimRecord]

-----------------------------------------------------------------------------
(* Tokens.                                                                 *)

LEMMA TypesOfTypeOK == TypeOK <=> Typed /\ \A i \in Items : item[i].token <= given[i]
BY DEF TypeOK, Typed, ItemTypes, StoreTypes, StageTypes, ControlTypes, ItemRecord, Statuses,
       JournalRecord, ClaimRecord, Evidences, Stages

LEMMA TokenParts ==
    ASSUME NEW t \in Tokens
    PROVE  t[1] \in Items /\ t[2] \in 1..MaxClaims /\ t = <<t[1], t[2]>>
BY DEF Tokens

LEMMA MakeToken ==
    ASSUME NEW i \in Items, NEW n \in 1..MaxClaims
    PROVE  <<i, n>> \in Tokens /\ <<i, n>>[1] = i /\ <<i, n>>[2] = n
BY DEF Tokens

LEMMA LeasedType ==
    ASSUME NEW s \in Statuses, NEW n \in 0..MaxClaims
    PROVE  /\ Leased(s, n) \in ItemRecord
           /\ Leased(s, n).status = s /\ Leased(s, n).token = n /\ Leased(s, n).lapsed = FALSE
BY DEF Leased, ItemRecord

LEMMA GivenBackType ==
    ASSUME NEW s \in Statuses
    PROVE  /\ Leased(s, Unset) \in ItemRecord
           /\ Leased(s, Unset).status = s /\ Leased(s, Unset).token = Unset
           /\ Leased(s, Unset).lapsed = FALSE
<1>1. Unset \in 0..MaxClaims
    BY ChannelAssumption DEF Unset
<1> QED BY <1>1, LeasedType

-----------------------------------------------------------------------------
(* What a step does to an item: it is taken under a new lease, given back, *)
(* settled, its lease is renewed or lapses, or nothing.                    *)

Kept(i) == given'[i] = given[i] /\ item'[i] = item[i]

Taken(i) ==
    /\ item[i].status = "pending" /\ ~Unresolved(i) /\ given[i] < MaxClaims
    /\ given'[i] = given[i] + 1
    /\ item'[i].status = "downloading" /\ item'[i].token = given[i] + 1
    /\ item'[i].lapsed = FALSE

Back(i) ==
    /\ given'[i] = given[i]
    /\ item'[i].token \in {Unset, item[i].token}
    /\ \/ item[i].status \in {"pending", "downloading"}
          /\ item'[i].status \in {"pending", "skipped"}
       \/ item[i].status = "downloading" /\ item'[i].status = "failed"
       \/ /\ item[i].status = "failed" /\ item'[i].status = "pending"
          /\ job \in Done /\ job' = "running"

Ticked(i) ==
    /\ given'[i] = given[i]
    /\ item'[i].status = item[i].status /\ item'[i].token = item[i].token
    /\ item'[i].lapsed => ~Beating(i)
    /\ item'[i].lapsed \/ \E t \in Refs : t[1] = i /\ Owns(t)

Committing(t) ==
    stage[t] = "valid" /\ Settles(t) /\ journal'[t[1]].state = "committed"

Succeeds(i) ==
    /\ given'[i] = given[i]
    /\ item'[i].status = "success" /\ item'[i].token = Unset
    /\ \E t \in Tokens : /\ t[1] = i /\ Owns(t)
                         /\ stage[t] = "duplicate" \/ Committing(t)

ItemMoves(i) == Kept(i) \/ Taken(i) \/ Back(i) \/ Ticked(i) \/ Succeeds(i)

ItemsMove == ItemTypes' /\ \A i \in Items : ItemMoves(i)

LEMMA ItemsKept ==
    ASSUME Typed, UNCHANGED itemVars
    PROVE  ItemsMove
BY DEF Typed, ItemTypes, itemVars, ItemsMove, ItemMoves, Kept

LEMMA ClaimItems ==
    ASSUME Typed, NEW n, NEW as, Claim(n, as)
    PROVE  ItemsMove
<1>1. PICK S \in SUBSET Claimable :
          /\ given' = [i \in Items |-> given[i] + IF i \in S THEN 1 ELSE 0]
          /\ item' = [i \in Items |->
                 IF i \in S THEN Leased("downloading", given'[i]) ELSE item[i]]
    BY DEF Claim
<1>2. \A i \in Items : given[i] \in 0..MaxClaims /\ item[i] \in ItemRecord
    BY DEF Typed, ItemTypes
<1>3. \A i \in S : /\ item[i].status = "pending" /\ ~Unresolved(i)
                   /\ given[i] < MaxClaims /\ i \in Items
    BY DEF Claimable
<1>4. \A i \in Items : given'[i] \in 0..MaxClaims
    BY <1>1, <1>2, <1>3, ChannelAssumption
<1>5. ASSUME NEW i \in Items PROVE item'[i] \in ItemRecord /\ ItemMoves(i)
    <2>1. CASE i \in S
        <3>1. given'[i] = given[i] + 1 /\ item'[i] = Leased("downloading", given'[i])
            BY <1>1, <2>1
        <3>2. "downloading" \in Statuses
            BY DEF Statuses
        <3> DEFINE lease == given'[i]
        <3>3. lease \in 0..MaxClaims
            BY <1>4
        <3> HIDE DEF lease
        <3>4. Leased("downloading", lease) \in ItemRecord
              /\ Leased("downloading", lease).status = "downloading"
              /\ Leased("downloading", lease).token = lease
              /\ Leased("downloading", lease).lapsed = FALSE
            BY <3>2, <3>3, LeasedType
        <3> QED BY <1>3, <2>1, <3>1, <3>4 DEF ItemMoves, Taken, lease
    <2>2. CASE i \notin S
        <3>1. given'[i] = given[i] /\ item'[i] = item[i]
            BY <1>1, <1>2, <2>2
        <3> QED BY <1>2, <3>1 DEF ItemMoves, Kept
    <2> QED BY <2>1, <2>2
<1>6. ItemTypes'
    BY <1>1, <1>4, <1>5 DEF ItemTypes
<1> QED BY <1>5, <1>6 DEF ItemsMove

(* Items given back, all at once.                                          *)
LEMMA ItemsBack ==
    ASSUME Typed, UNCHANGED given, NEW new, item' = [i \in Items |-> new[i]],
           \A i \in Items : new[i] \in ItemRecord /\ (new[i] = item[i] \/
              (/\ new[i].token \in {Unset, item[i].token}
               /\ \/ item[i].status \in {"pending", "downloading"}
                     /\ new[i].status \in {"pending", "skipped"}
                  \/ /\ item[i].status = "failed" /\ new[i].status = "pending"
                     /\ job \in Done /\ job' = "running"))
    PROVE  ItemsMove
BY DEF Typed, ItemTypes, ItemsMove, ItemMoves, Kept, Back

LEMMA ItemFields ==
    ASSUME Typed, NEW i \in Items
    PROVE  /\ item[i] \in ItemRecord /\ given[i] \in 0..MaxClaims
           /\ item[i].status \in Statuses /\ item[i].token \in 0..MaxClaims
           /\ item[i].lapsed \in BOOLEAN
BY DEF Typed, ItemTypes, ItemRecord

LEMMA RestoreItems ==
    ASSUME Typed, Restore, verdict \in {"pending", "skipped"}
    PROVE  ItemsMove
<1> DEFINE new(i) == IF \E t \in Refs : t[1] = i /\ Owns(t)
                     THEN Leased(verdict, Unset) ELSE item[i]
<1>1. item' = [i \in Items |-> new(i)] /\ given' = given
    BY DEF Restore
<1>2. /\ Leased(verdict, Unset) \in ItemRecord
      /\ Leased(verdict, Unset).status = verdict /\ Leased(verdict, Unset).token = Unset
    BY GivenBackType DEF Statuses
<1>3. ASSUME NEW i \in Items
      PROVE  new(i) \in ItemRecord /\ (new(i) = item[i] \/ Back(i))
    <2>1. CASE \E t \in Refs : t[1] = i /\ Owns(t)
        <3>1. item[i].status = "downloading" /\ new(i) = Leased(verdict, Unset)
            BY <2>1 DEF Owns
        <3>2. item'[i] = Leased(verdict, Unset) /\ given'[i] = given[i]
            BY <1>1, <3>1
        <3> QED BY <1>2, <3>1, <3>2 DEF Back
    <2>2. CASE ~\E t \in Refs : t[1] = i /\ Owns(t)
        BY <2>2, ItemFields
    <2> QED BY <2>1, <2>2
<1> HIDE DEF new
<1> QED BY <1>1, <1>3 DEF Typed, ItemTypes, ItemsMove, ItemMoves, Kept

LEMMA CoolDownItems ==
    ASSUME Typed, CoolDown, UNCHANGED given
    PROVE  ItemsMove
<1>1. item' = [i \in Items |-> IF item[i].status = "downloading"
                               THEN [item[i] EXCEPT !.status = "pending"] ELSE item[i]]
    BY DEF CoolDown
<1>2. ASSUME NEW i \in Items PROVE item'[i] \in ItemRecord /\ ItemMoves(i)
    BY <1>1, ItemFields DEF ItemRecord, Statuses, ItemMoves, Kept, Back
<1> QED BY <1>1, <1>2 DEF Typed, ItemTypes, ItemsMove

(* One item settled.                                                       *)
LEMMA ItemLeased ==
    ASSUME Typed, NEW t \in Tokens, NEW s \in Statuses, UNCHANGED given, Owns(t),
           item' = [item EXCEPT ![t[1]] = Leased(s, Unset)],
           \/ s \in {"skipped", "failed"}
           \/ s = "success" /\ (stage[t] = "duplicate" \/ Committing(t))
    PROVE  ItemsMove
<1>1. t[1] \in Items /\ item[t[1]].status = "downloading"
    BY TokenParts DEF Owns
<1>2. /\ Leased(s, Unset) \in ItemRecord
      /\ Leased(s, Unset).status = s /\ Leased(s, Unset).token = Unset
    BY GivenBackType
<1>3. item'[t[1]] = Leased(s, Unset) /\ \A i \in Items \ {t[1]} : item'[i] = item[i]
    BY <1>1 DEF Typed, ItemTypes
<1>4. ItemTypes'
    BY <1>1, <1>2 DEF Typed, ItemTypes
<1>5. ItemMoves(t[1])
    BY <1>1, <1>2, <1>3 DEF ItemMoves, Back, Succeeds
<1>6. \A i \in Items \ {t[1]} : ItemMoves(i)
    BY <1>3 DEF ItemMoves, Kept
<1> QED BY <1>4, <1>5, <1>6 DEF ItemsMove

LEMMA CommitItems ==
    ASSUME Typed, NEW t \in Tokens, Commit(t)
    PROVE  ItemsMove
<1>1. CASE UNCHANGED item
    BY <1>1, ItemsKept DEF Commit, itemVars
<1>2. CASE /\ Settles(t)
           /\ item' = [item EXCEPT ![t[1]] = Leased("success", Unset)]
           /\ Resolve(t[1], "committed")
    <2>1. journal'[t[1]].state = "committed"
        BY <1>2, TokenParts DEF Resolve, Typed, JournalRecord
    <2>2. Owns(t) /\ Committing(t) /\ UNCHANGED given
        BY <1>2, <2>1 DEF Commit, Committing, Settles
    <2>3. "success" \in Statuses
        BY DEF Statuses
    <2> QED BY <1>2, <2>2, <2>3, ItemLeased
<1> QED BY <1>1, <1>2 DEF Commit

LEMMA SettleItems ==
    ASSUME Typed, NEW t \in Tokens, Settle(t)
    PROVE  ItemsMove
<1>1. CASE UNCHANGED item
    BY <1>1, ItemsKept DEF Settle, itemVars
<1>2. CASE Owns(t) /\ item' = [item EXCEPT ![t[1]] = Leased(Outcome(stage[t]), Unset)]
    <2> DEFINE o == Outcome(stage[t])
    <2>1. /\ o \in {"skipped", "success", "failed"}
          /\ o = "success" => stage[t] = "duplicate"
          /\ UNCHANGED given
        BY DEF Settle, Outcome
    <2> HIDE DEF o
    <2>2. o \in Statuses
        BY <2>1 DEF Statuses
    <2>3. item' = [item EXCEPT ![t[1]] = Leased(o, Unset)]
        BY <1>2 DEF o
    <2> QED BY <1>2, <2>1, <2>2, <2>3, ItemLeased
<1> QED BY <1>1, <1>2 DEF Settle

LEMMA MarkFailedItems ==
    ASSUME Typed, NEW t \in Tokens, MarkFailed(t)
    PROVE  ItemsMove
<1>1. CASE UNCHANGED item
    BY <1>1, ItemsKept DEF MarkFailed, itemVars
<1>2. CASE Owns(t) /\ item' = [item EXCEPT ![t[1]] = Leased("failed", Unset)]
    <2>1. "failed" \in Statuses /\ UNCHANGED given
        BY DEF MarkFailed, Statuses
    <2> QED BY <1>2, <2>1, ItemLeased
<1> QED BY <1>1, <1>2 DEF MarkFailed

LEMMA HeartbeatItems ==
    ASSUME Typed, Heartbeat
    PROVE  ItemsMove
<1>1. CASE UNCHANGED item
    BY <1>1, ItemsKept DEF Heartbeat, itemVars
<1>2. CASE item' = [i \in Items |-> IF \E t \in Refs : t[1] = i /\ Owns(t)
                                    THEN [item[i] EXCEPT !.lapsed = FALSE] ELSE item[i]]
    <2>1. ASSUME NEW i \in Items PROVE item'[i] \in ItemRecord /\ ItemMoves(i)
        <3>1. CASE \E t \in Refs : t[1] = i /\ Owns(t)
            <4>1. item'[i] = [item[i] EXCEPT !.lapsed = FALSE] /\ given' = given
                BY <1>2, <3>1 DEF Heartbeat
            <4>2. /\ item'[i] \in ItemRecord /\ ~item'[i].lapsed
                  /\ item'[i].status = item[i].status /\ item'[i].token = item[i].token
                BY <4>1, ItemFields DEF ItemRecord
            <4> QED BY <3>1, <4>1, <4>2 DEF ItemMoves, Ticked
        <3>2. CASE ~\E t \in Refs : t[1] = i /\ Owns(t)
            BY <1>2, <3>2, ItemFields DEF Heartbeat, ItemMoves, Kept
        <3> QED BY <3>1, <3>2
    <2>2. ItemTypes'
        BY <1>2, <2>1 DEF Heartbeat, Typed, ItemTypes
    <2> QED BY <2>1, <2>2 DEF ItemsMove
<1> QED BY <1>1, <1>2 DEF Heartbeat

LEMMA OtherItems ==
    ASSUME Typed,
           (\E i \in Items : LeaseLapses(i)) \/ Repair \/ Release \/ StopRun \/ Retry
    PROVE  ItemsMove
<1>1. ASSUME NEW k \in Items, LeaseLapses(k) PROVE ItemsMove
    <2>1. item' = [item EXCEPT ![k].lapsed = TRUE] /\ given' = given /\ ~Beating(k)
        BY <1>1 DEF LeaseLapses
    <2>2. ASSUME NEW i \in Items PROVE item'[i] \in ItemRecord /\ ItemMoves(i)
        BY <2>1, ItemFields DEF Typed, ItemTypes, ItemRecord, ItemMoves, Kept, Ticked
    <2> QED BY <2>1, <2>2 DEF Typed, ItemTypes, ItemsMove
<1>2. CASE Repair
    <2>1. CASE UNCHANGED item
        BY <1>2, <2>1, ItemsKept DEF Repair, itemVars
    <2>2. ASSUME NEW old \in SUBSET {i \in Items : /\ item[i].status = "downloading"
                                                   /\ item[i].lapsed /\ ~Unresolved(i)},
                 item' = [i \in Items |-> IF i \in old
                                          THEN [item[i] EXCEPT !.status = "pending"]
                                          ELSE item[i]]
          PROVE  ItemsMove
        <3>1. given' = given /\ \A i \in old : item[i].status = "downloading"
            BY <1>2 DEF Repair
        <3>2. ASSUME NEW i \in Items PROVE item'[i] \in ItemRecord /\ ItemMoves(i)
            BY <2>2, <3>1, ItemFields DEF ItemRecord, Statuses, ItemMoves, Kept, Back
        <3> QED BY <2>2, <3>1, <3>2 DEF Typed, ItemTypes, ItemsMove
    <2> QED BY <1>2, <2>1, <2>2 DEF Repair
<1>3. CASE Release
    <2>1. /\ item' = [i \in Items |-> IF /\ item[i].status = "downloading" /\ item[i].lapsed
                                         /\ ~Unresolved(i) /\ ~Finished(job)
                                      THEN Leased("pending", Unset) ELSE item[i]]
          /\ given' = given
        BY <1>3 DEF Release
    <2>2. /\ Leased("pending", Unset) \in ItemRecord
          /\ Leased("pending", Unset).status = "pending" /\ Leased("pending", Unset).token = Unset
        BY GivenBackType DEF Statuses
    <2>3. ASSUME NEW i \in Items PROVE item'[i] \in ItemRecord /\ ItemMoves(i)
        BY <2>1, <2>2, ItemFields DEF ItemMoves, Kept, Back
    <2> QED BY <2>1, <2>3 DEF Typed, ItemTypes, ItemsMove
<1>4. CASE StopRun
    <2>1. /\ item' = [i \in Items |-> IF item[i].status = "pending"
                                      THEN [item[i] EXCEPT !.status = "skipped"] ELSE item[i]]
          /\ given' = given
        BY <1>4 DEF StopRun
    <2>2. ASSUME NEW i \in Items PROVE item'[i] \in ItemRecord /\ ItemMoves(i)
        BY <2>1, ItemFields DEF ItemRecord, Statuses, ItemMoves, Kept, Back
    <2> QED BY <2>1, <2>2 DEF Typed, ItemTypes, ItemsMove
<1>5. CASE Retry
    <2> DEFINE again == {i \in Items : item[i].status = "failed" /\ ~Unresolved(i)}
    <2>1. /\ item' = [i \in Items |-> IF i \in again
                                      THEN [item[i] EXCEPT !.status = "pending"] ELSE item[i]]
          /\ given' = given /\ job \in Done /\ job' = "running"
        BY <1>5 DEF Retry, Done
    <2>2. \A i \in again : item[i].status = "failed"
        OBVIOUS
    <2> HIDE DEF again
    <2>3. ASSUME NEW i \in Items PROVE item'[i] \in ItemRecord /\ ItemMoves(i)
        BY <2>1, <2>2, ItemFields DEF ItemRecord, Statuses, ItemMoves, Kept, Back
    <2> QED BY <2>1, <2>3 DEF Typed, ItemTypes, ItemsMove
<1> QED BY <1>1, <1>2, <1>3, <1>4, <1>5

(* A refused window goes back as the state of the job says.                *)
RestoreVerdict == phase = "restore" => verdict \in {"pending", "skipped"}

LEMMA ItemsStep ==
    ASSUME Typed, RestoreVerdict, [Next]_vars
    PROVE  ItemsMove
<1>1. CASE Run
    <2>1. CASE ClaimBatch \/ Load
        BY <2>1, ItemsKept, ClaimItems DEF ClaimBatch, Load, itemVars
    <2>2. CASE Restore
        BY <2>2, RestoreItems DEF Restore, RestoreVerdict
    <2>3. CASE QuotaEnds \/ ApplyCooldown
        BY <2>3, CoolDownItems DEF QuotaEnds, ApplyCooldown
    <2>4. CASE \/ Await \/ OpenWindow \/ RefuseWindow \/ CloseWindow \/ LeaseLost
               \/ RunFails \/ Tally \/ Finalize
        BY <2>4, ItemsKept
        DEF Await, OpenWindow, RefuseWindow, CloseWindow, LeaseLost, RunFails, Tally, Finalize
    <2> QED BY <1>1, <2>1, <2>2, <2>3, <2>4 DEF Run
<1>2. ASSUME NEW t \in Tokens, Work(t) PROVE ItemsMove
    <2>1. CASE \/ StartItem(t) \/ Download(t) \/ Begin(t) \/ Save(t) \/ MarkObject(t)
               \/ InsertRow(t) \/ MarkIndex(t) \/ Validate(t)
               \/ Undo(t) \/ UndoRow(t) \/ Drop(t) \/ DropRow(t) \/ Note(t)
        BY <2>1, ItemsKept
        DEF StartItem, Download, Begin, Save, MarkObject, InsertRow, MarkIndex, Validate,
            Undo, UndoRow, Drop, DropRow, Note
    <2> QED BY <1>2, <2>1, CommitItems, SettleItems, MarkFailedItems DEF Work
<1>3. CASE \/ \E i \in Items : JournalLeaseLapses(i) \/ Recover(i)
           \/ AccountCools \/ CooldownEnds \/ ClaimWrites
    BY <1>3, ItemsKept
    DEF JournalLeaseLapses, Recover, Decide, DeleteObject, StillMine, DeleteRow, CloseWrite,
        AccountCools, CooldownEnds, ClaimWrites
<1>4. CASE RecoverJob \/ User \/ StopRun \/ Crash
    <2>1. CASE WritesDone \/ Uncool \/ Start \/ Pause \/ Resume \/ Cancel \/ Crash
        BY <2>1, ItemsKept DEF WritesDone, Uncool, Start, Pause, Resume, Cancel, Crash, itemVars
    <2> QED BY <1>4, <2>1, OtherItems DEF RecoverJob, User
<1>5. CASE UNCHANGED vars
    BY <1>5, ItemsKept DEF vars
<1> QED BY <1>1, <1>2, <1>3, <1>4, <1>5, HeartbeatItems, OtherItems DEF Next

-----------------------------------------------------------------------------
(* What a step does to the journal row of an item: a write is begun under  *)
(* a new lease, the row is noted or resolved, or it is committed.          *)

SameWrite(i) == journal'[i].state = journal[i].state /\ journal'[i].op = journal[i].op

Begun(i) ==
    /\ ~Unresolved(i)
    /\ journal'[i].state = "pending"
    /\ \E t \in Tokens : /\ t[1] = i /\ journal'[i].op = t[2]
                         /\ stage[t] = "permitted" /\ stage'[t] = "begun" /\ Owns(t)

Judged(i) ==
    /\ Unresolved(i)
    /\ journal'[i].state \in {"operator", "undone"} /\ journal'[i].op = journal[i].op

Committed(i) ==
    /\ journal'[i].state = "committed" /\ journal'[i].op = journal[i].op
    /\ \/ \E t \in Tokens : /\ t[1] = i /\ Committing(t) /\ stage'[t] = "none"
                            /\ item'[i].status = "success"
       \/ claim[i].at = "claimed" /\ claim[i].success

JournalMoves(i) == SameWrite(i) \/ Begun(i) \/ Judged(i) \/ Committed(i)

JournalMove ==
    journal' \in [Items -> JournalRecord] /\ \A i \in Items : JournalMoves(i)

LEMMA JournalKept ==
    ASSUME Typed, UNCHANGED journal
    PROVE  JournalMove
BY DEF Typed, JournalMove, JournalMoves, SameWrite

LEMMA JournalFields ==
    ASSUME Typed, NEW i \in Items
    PROVE  /\ journal[i] \in JournalRecord
           /\ journal[i].state \in {"none", "pending", "operator", "committed", "undone"}
           /\ journal[i].op \in 0..MaxClaims
           /\ journal[i].object \in Evidences /\ journal[i].index \in Evidences
BY DEF Typed, JournalRecord

(* The row of one item changes.                                            *)
LEMMA JournalRow ==
    ASSUME Typed, NEW k \in Items, NEW r \in JournalRecord,
           journal' = [journal EXCEPT ![k] = r],
           journal'[k] = r => JournalMoves(k)
    PROVE  JournalMove
<1>1. journal'[k] = r /\ \A i \in Items \ {k} : journal'[i] = journal[i]
    BY DEF Typed
<1>2. journal' \in [Items -> JournalRecord]
    BY DEF Typed
<1>3. \A i \in Items \ {k} : JournalMoves(i)
    BY <1>1 DEF JournalMoves, SameWrite
<1> QED BY <1>1, <1>2, <1>3 DEF JournalMove

(* The row of one item is resolved, or noted, in the same operation.       *)
LEMMA JournalResolved ==
    ASSUME Typed, NEW k \in Items, Unresolved(k), NEW s,
           s \in {"operator", "undone"} \/ s = journal[k].state
              \/ (s = "committed" /\ (journal'[k].state = "committed" => Committed(k))),
           NEW r \in JournalRecord, r.state = s, r.op = journal[k].op,
           journal' = [journal EXCEPT ![k] = r]
    PROVE  JournalMove
<1>1. journal'[k] = r => JournalMoves(k)
    BY DEF JournalMoves, SameWrite, Judged, Committed
<1> QED BY <1>1, JournalRow

LEMMA ResolveJournal ==
    ASSUME Typed, NEW k \in Items, Unresolved(k),
           NEW s \in {"operator", "committed"}, Resolve(k, s),
           journal'[k].state = "committed" /\ journal'[k].op = journal[k].op => Committed(k)
    PROVE  JournalMove
<1> DEFINE r == [journal[k] EXCEPT !.state = s, !.leased = FALSE]
<1>1. r \in JournalRecord /\ r.state = s /\ r.op = journal[k].op
    BY JournalFields DEF JournalRecord
<1>2. journal' = [journal EXCEPT ![k] = r]
    BY DEF Resolve
<1>3. journal'[k] = r
    BY <1>2 DEF Typed
<1> HIDE DEF r
<1> QED BY <1>1, <1>2, <1>3, JournalResolved

LEMMA CompensatedJournal ==
    ASSUME Typed, NEW k \in Items, Unresolved(k), NEW confirmed, Compensated(k, confirmed)
    PROVE  JournalMove
<1> DEFINE s == IF confirmed = {"object", "index"} THEN "undone" ELSE journal[k].state
           o == Evidence("object", confirmed)
           x == Evidence("index", confirmed)
           r == [journal[k] EXCEPT !.object = o, !.index = x, !.state = s, !.leased = FALSE]
<1>1. journal' = [journal EXCEPT ![k] = r]
    BY DEF Compensated
<1>2. o \in Evidences /\ x \in Evidences /\ (s = "undone" \/ s = journal[k].state)
    BY DEF Evidence, Evidences
<1> HIDE DEF o, x, s
<1>3. r \in JournalRecord /\ r.state = s /\ r.op = journal[k].op
    BY <1>2, JournalFields DEF JournalRecord
<1> HIDE DEF r
<1> QED BY <1>1, <1>2, <1>3, JournalResolved

LEMMA WorkJournal ==
    ASSUME Typed, NEW t \in Tokens, Work(t)
    PROVE  JournalMove
<1>0. t[1] \in Items /\ t[2] \in 0..MaxClaims
    BY TokenParts
<1>1. CASE \/ StartItem(t) \/ Download(t) \/ Save(t) \/ InsertRow(t) \/ Validate(t)
           \/ Undo(t) \/ UndoRow(t) \/ Drop(t) \/ DropRow(t) \/ Settle(t) \/ MarkFailed(t)
    BY <1>1, JournalKept
    DEF StartItem, Download, Save, InsertRow, Validate, Undo, UndoRow, Drop, DropRow, Settle,
        MarkFailed
<1>2. CASE Begin(t)
    <2>1. CASE UNCHANGED journal
        BY <2>1, JournalKept
    <2>2. ASSUME NEW known \in Prepares, Owns(t), ~Unresolved(t[1]),
                 journal' = [journal EXCEPT ![t[1]] =
                     [state |-> "pending", op |-> t[2], object |-> "unknown",
                      index |-> "unknown", path |-> known, file |-> FALSE, leased |-> FALSE]],
                 To(t, "begun")
          PROVE  JournalMove
        <3> DEFINE r == [state |-> "pending", op |-> t[2], object |-> "unknown",
                         index |-> "unknown", path |-> known, file |-> FALSE, leased |-> FALSE]
        <3>1. r \in JournalRecord /\ r.state = "pending" /\ r.op = t[2]
            BY <1>0, ChannelAssumption DEF JournalRecord, Evidences
        <3>2. journal' = [journal EXCEPT ![t[1]] = r]
            BY <2>2
        <3> HIDE DEF r
        <3>3. stage[t] = "permitted" /\ stage'[t] = "begun"
            BY <1>2, <2>2 DEF Begin, To, Typed, StageTypes
        <3>4. journal'[t[1]] = r => JournalMoves(t[1])
            BY <2>2, <3>1, <3>3 DEF JournalMoves, Begun
        <3> QED BY <1>0, <3>1, <3>2, <3>4, JournalRow
    <2> QED BY <1>2, <2>1, <2>2 DEF Begin
<1>3. CASE MarkObject(t)
    <2> DEFINE r == [journal[t[1]] EXCEPT !.object = "present", !.path = TRUE]
    <2>1. CASE Operation(t) /\ journal' = [journal EXCEPT ![t[1]] = r]
        <3>1. r \in JournalRecord /\ r.state = journal[t[1]].state /\ r.op = journal[t[1]].op
            BY <1>0, JournalFields DEF JournalRecord, Evidences
        <3> HIDE DEF r
        <3> QED BY <1>0, <2>1, <3>1, JournalResolved DEF Operation
    <2> QED BY <1>3, <2>1, JournalKept DEF MarkObject
<1>4. CASE MarkIndex(t)
    <2> DEFINE r == [journal[t[1]] EXCEPT !.index = "present", !.file = TRUE]
    <2>1. CASE Operation(t) /\ journal' = [journal EXCEPT ![t[1]] = r]
        <3>1. r \in JournalRecord /\ r.state = journal[t[1]].state /\ r.op = journal[t[1]].op
            BY <1>0, JournalFields DEF JournalRecord, Evidences
        <3> HIDE DEF r
        <3> QED BY <1>0, <2>1, <3>1, JournalResolved DEF Operation
    <2> QED BY <1>4, <2>1, JournalKept DEF MarkIndex
<1>5. CASE Commit(t)
    <2>1. CASE UNCHANGED journal
        BY <2>1, JournalKept
    <2>2. CASE /\ Settles(t) /\ Resolve(t[1], "committed") /\ To(t, "none")
               /\ item' = [item EXCEPT ![t[1]] = Leased("success", Unset)]
        <3>1. stage[t] = "valid" /\ stage'[t] = "none" /\ Unresolved(t[1])
            BY <1>5, <2>2 DEF Commit, Settles, Operation, To, Typed, StageTypes
        <3>2. item'[t[1]].status = "success"
            BY <1>0, <2>2, GivenBackType DEF Typed, ItemTypes, Statuses
        <3>3. journal'[t[1]].state = "committed" /\ journal'[t[1]].op = journal[t[1]].op
                 => Committed(t[1])
            BY <2>2, <3>1, <3>2 DEF Committed, Committing
        <3> QED BY <1>0, <2>2, <3>1, <3>3, ResolveJournal
    <2> QED BY <1>5, <2>1, <2>2 DEF Commit
<1>6. CASE Note(t)
    BY <1>0, <1>6, JournalKept, CompensatedJournal DEF Note, Operation
<1> QED BY <1>1, <1>2, <1>3, <1>4, <1>5, <1>6 DEF Work

LEMMA PassJournal ==
    ASSUME Typed, NEW i \in Items,
           ClaimWrites \/ Recover(i) \/ JournalLeaseLapses(i)
    PROVE  JournalMove
<1>1. CASE ClaimWrites
    <2> DEFINE S == {k \in Items : /\ journal[k].state = "pending"
                                   /\ ~journal[k].leased /\ ~InProgress(k)}
    <2>1. journal' = [k \in Items |-> IF k \in S THEN [journal[k] EXCEPT !.leased = TRUE]
                                      ELSE journal[k]]
        BY <1>1 DEF ClaimWrites
    <2> HIDE DEF S
    <2>2. ASSUME NEW k \in Items PROVE journal'[k] \in JournalRecord /\ JournalMoves(k)
        BY <2>1, JournalFields DEF JournalRecord, JournalMoves, SameWrite
    <2> QED BY <2>1, <2>2 DEF JournalMove
<1>2. CASE DeleteObject(i) \/ StillMine(i) \/ DeleteRow(i)
    BY <1>2, JournalKept DEF DeleteObject, StillMine, DeleteRow
<1>3. CASE Decide(i)
    <2>1. CASE UNCHANGED journal
        BY <2>1, JournalKept
    <2>2. CASE Mine(i) /\ Resolve(i, "committed") /\ claim[i].success /\ claim[i].at = "claimed"
        <3>1. journal'[i].state = "committed" /\ journal'[i].op = journal[i].op => Committed(i)
            BY <2>2 DEF Committed
        <3> QED BY <2>2, <3>1, ResolveJournal DEF Mine
    <2>3. CASE Mine(i) /\ Resolve(i, "operator")
        <3>1. journal'[i].state = "operator"
            BY <2>3 DEF Resolve, Typed, JournalRecord
        <3> QED BY <2>3, <3>1, ResolveJournal DEF Mine
    <2> QED BY <1>3, <2>1, <2>2, <2>3 DEF Decide
<1>4. CASE CloseWrite(i)
    BY <1>4, JournalKept, CompensatedJournal DEF CloseWrite, Mine
<1>5. CASE JournalLeaseLapses(i)
    <2>1. journal' = [journal EXCEPT ![i].leased = FALSE]
        BY <1>5 DEF JournalLeaseLapses
    <2>2. ASSUME NEW k \in Items PROVE journal'[k] \in JournalRecord /\ JournalMoves(k)
        BY <2>1, JournalFields DEF Typed, JournalRecord, JournalMoves, SameWrite
    <2> QED BY <2>1, <2>2 DEF Typed, JournalMove
<1> QED BY <1>1, <1>2, <1>3, <1>4, <1>5 DEF Recover

LEMMA JournalStep ==
    ASSUME Typed, [Next]_vars
    PROVE  JournalMove
<1>1. CASE Run \/ Heartbeat
    BY <1>1, JournalKept
    DEF Run, Await, ClaimBatch, OpenWindow, RefuseWindow, Restore, Load, CloseWindow, LeaseLost,
        QuotaEnds, ApplyCooldown, RunFails, Tally, Finalize, Heartbeat
<1>2. CASE (\E i \in Items : LeaseLapses(i)) \/ AccountCools \/ CooldownEnds \/ RecoverJob
    BY <1>2, JournalKept
    DEF LeaseLapses, AccountCools, CooldownEnds, RecoverJob, WritesDone, Repair, Uncool, Release,
        Start
<1>3. CASE User \/ StopRun \/ Crash \/ UNCHANGED vars
    BY <1>3, JournalKept DEF User, Pause, Resume, Cancel, Retry, StopRun, Crash, vars
<1>4. CASE ClaimWrites
    <2>1. CASE Items = {}
        BY <1>4, <2>1 DEF ClaimWrites, JournalMove
    <2> QED BY <1>4, <2>1, PassJournal
<1> QED BY <1>1, <1>2, <1>3, <1>4, WorkJournal, PassJournal DEF Next

-----------------------------------------------------------------------------
(* What a step does to a worker: it begins with the lease of its item, it  *)
(* goes on, or it ends.                                                    *)

Early == {"claimed", "ready", "download", "permitted", "duplicate"}
Stored == {"saved", "marked", "indexed", "written", "valid"}
Indexed == {"indexed", "written", "valid"}

StartsWork(t) ==
    /\ Taken(t[1]) /\ t[2] = given[t[1]] + 1
    /\ stage'[t] \in {"claimed", "ready"}

GoesOn(t) ==
    /\ stage[t] # "none"
    /\ stage'[t] \in Early => stage[t] \in Early
    /\ stage'[t] \in Stored => stage[t] \in Stored \/ t \in objects'
    /\ stage'[t] \in Indexed => stage[t] \in Indexed \/ t \in files'

StageMoves(t) ==
    stage'[t] = stage[t] \/ stage'[t] = "none" \/ StartsWork(t) \/ GoesOn(t)

StageMove == StageTypes' /\ \A t \in Tokens : StageMoves(t)

LEMMA StageKept ==
    ASSUME Typed, UNCHANGED workVars
    PROVE  StageMove
BY DEF Typed, StageTypes, workVars, StageMove, StageMoves

LEMMA NoWork ==
    ASSUME Typed, stage' = NoRefs, gone' \in [Tokens -> SUBSET {"object", "index"}]
    PROVE  StageMove
BY DEF NoRefs, StageTypes, StageMove, StageMoves, Stages

LEMMA ClaimStages ==
    ASSUME Typed, NEW n, NEW as \in {"claimed", "ready"}, Claim(n, as), UNCHANGED gone
    PROVE  StageMove
<1>1. PICK S \in SUBSET Claimable :
          /\ given' = [i \in Items |-> given[i] + IF i \in S THEN 1 ELSE 0]
          /\ item' = [i \in Items |->
                 IF i \in S THEN Leased("downloading", given'[i]) ELSE item[i]]
          /\ stage' = [t \in Tokens |->
                 IF t[1] \in S /\ t[2] = given'[t[1]] THEN as ELSE stage[t]]
    BY DEF Claim
<1>2. ASSUME NEW t \in Tokens PROVE stage'[t] \in Stages /\ StageMoves(t)
    <2>1. CASE t[1] \in S /\ t[2] = given'[t[1]]
        <3>1. t[1] \in Items /\ t[1] \in Claimable /\ stage'[t] = as
            BY <1>1, <2>1, TokenParts
        <3>2. given'[t[1]] = given[t[1]] + 1
            BY <1>1, <2>1, <3>1
        <3>3. item'[t[1]] = Leased("downloading", given'[t[1]])
            BY <1>1, <2>1, <3>1
        <3>4. Taken(t[1])
            BY <3>1, <3>2, <3>3 DEF Taken, Claimable, Leased
        <3> QED BY <2>1, <3>1, <3>2, <3>4 DEF StageMoves, StartsWork, Stages
    <2>2. CASE ~(t[1] \in S /\ t[2] = given'[t[1]])
        BY <1>1, <2>2 DEF Typed, StageTypes, StageMoves
    <2> QED BY <2>1, <2>2
<1> QED BY <1>1, <1>2 DEF Typed, StageTypes, StageMove

(* One worker moves.                                                       *)
LEMMA StageOf ==
    ASSUME Typed, NEW t \in Tokens, NEW s \in Stages, stage' = [stage EXCEPT ![t] = s],
           gone' = gone \/ \E w \in SUBSET {"object", "index"} : gone' = [gone EXCEPT ![t] = w],
           stage'[t] = s => StageMoves(t)
    PROVE  StageMove
<1>1. stage'[t] = s /\ \A u \in Tokens \ {t} : stage'[u] = stage[u]
    BY DEF Typed, StageTypes
<1>2. StageTypes'
    BY DEF Typed, StageTypes
<1>3. \A u \in Tokens \ {t} : StageMoves(u)
    BY <1>1 DEF StageMoves
<1> QED BY <1>1, <1>2, <1>3 DEF StageMove

LEMMA GoneFields ==
    ASSUME Typed, NEW t \in Tokens
    PROVE  gone[t] \in SUBSET {"object", "index"} /\ stage[t] \in Stages
BY DEF Typed, StageTypes

LEMMA WorkStages ==
    ASSUME Typed, NEW t \in Tokens, Work(t)
    PROVE  StageMove
<1>1. CASE StartItem(t)
    <2>1. PICK s \in {"download", "skip", "left"} : To(t, s) /\ UNCHANGED gone /\ stage[t] = "ready"
        BY <1>1 DEF StartItem
    <2>2. s \in Stages /\ (stage'[t] = s => StageMoves(t))
        BY <2>1 DEF Stages, StageMoves, GoesOn, Early, Stored, Indexed
    <2> QED BY <2>1, <2>2, StageOf DEF To
<1>2. CASE Download(t)
    <2>1. PICK s \in {"permitted", "duplicate", "fail"} :
              To(t, s) /\ UNCHANGED gone /\ stage[t] = "download"
        BY <1>2 DEF Download
    <2>2. s \in Stages /\ (stage'[t] = s => StageMoves(t))
        BY <2>1 DEF Stages, StageMoves, GoesOn, Early, Stored, Indexed
    <2> QED BY <2>1, <2>2, StageOf DEF To
<1>3. CASE Begin(t)
    <2>1. PICK s \in {"begun", "fail"} : To(t, s) /\ UNCHANGED gone /\ stage[t] = "permitted"
        BY <1>3 DEF Begin
    <2>2. s \in Stages /\ (stage'[t] = s => StageMoves(t))
        BY <2>1 DEF Stages, StageMoves, GoesOn, Early, Stored, Indexed
    <2> QED BY <2>1, <2>2, StageOf DEF To
<1>4. CASE Save(t)
    <2>1. PICK s \in {"saved", "note", "refused"} :
              /\ To(t, s) /\ stage[t] = "begun" /\ (s = "saved" => t \in objects')
              /\ UNCHANGED gone \/ Removed(t, {"index"})
        BY <1>4 DEF Save
    <2>2. s \in Stages /\ (stage'[t] = s => StageMoves(t))
        BY <2>1 DEF Stages, StageMoves, GoesOn, Early, Stored, Indexed
    <2> QED BY <2>1, <2>2, StageOf DEF To, Removed
<1>5. CASE MarkObject(t) \/ InsertRow(t) \/ MarkIndex(t)
    <2>1. PICK s \in {"marked", "indexed", "written", "undo"} :
              /\ To(t, s) /\ stage[t] \in {"saved", "marked", "indexed"}
              /\ s = "indexed" => t \in files'
              /\ s = "written" => stage[t] = "indexed"
              /\ UNCHANGED gone \/ Removed(t, {"index"}) \/ Removed(t, {})
        BY <1>5 DEF MarkObject, InsertRow, MarkIndex
    <2>2. s \in Stages /\ (stage'[t] = s => StageMoves(t))
        BY <2>1 DEF Stages, StageMoves, GoesOn, Early, Stored, Indexed
    <2> QED BY <2>1, <2>2, StageOf DEF To, Removed
<1>6. CASE Validate(t) \/ Commit(t)
    <2>1. PICK s \in {"valid", "drop", "none"} :
              To(t, s) /\ UNCHANGED gone /\ stage[t] \in {"written", "valid"}
        BY <1>6 DEF Validate, Commit
    <2>2. s \in Stages /\ (stage'[t] = s => StageMoves(t))
        BY <2>1 DEF Stages, StageMoves, GoesOn, Early, Stored, Indexed
    <2> QED BY <2>1, <2>2, StageOf DEF To
<1>7. CASE Undo(t) \/ UndoRow(t) \/ Drop(t) \/ DropRow(t)
    <2>1. PICK s \in {"unrow", "unindex", "note"} : To(t, s) /\ stage[t] # "none"
        BY <1>7 DEF Undo, UndoRow, Drop, DropRow
    <2>2. s \in Stages /\ (stage'[t] = s => StageMoves(t))
        BY <2>1 DEF Stages, StageMoves, GoesOn, Early, Stored, Indexed
    <2>3. gone' = gone \/ \E w \in SUBSET {"object", "index"} : gone' = [gone EXCEPT ![t] = w]
        BY <1>7, GoneFields DEF Undo, UndoRow, Drop, DropRow, Removed
    <2> QED BY <2>1, <2>2, <2>3, StageOf DEF To
<1>8. CASE Note(t)
    <2>1. PICK s \in {"left", "fail"} : To(t, s) /\ stage[t] # "none" /\ Removed(t, {})
        BY <1>8 DEF Note
    <2>2. s \in Stages /\ (stage'[t] = s => StageMoves(t))
        BY <2>1 DEF Stages, StageMoves, GoesOn, Early, Stored, Indexed
    <2> QED BY <2>1, <2>2, StageOf DEF To, Removed
<1>9. CASE Settle(t)
    <2>1. PICK s \in {"none", "left", "again"} : To(t, s) /\ stage[t] # "none" /\ UNCHANGED gone
        BY <1>9 DEF Settle
    <2>2. s \in Stages /\ (stage'[t] = s => StageMoves(t))
        BY <2>1 DEF Stages, StageMoves, GoesOn, Early, Stored, Indexed
    <2> QED BY <2>1, <2>2, StageOf DEF To
<1>10. CASE MarkFailed(t)
    <2>1. CASE To(t, "none")
        <3>1. "none" \in Stages /\ (stage'[t] = "none" => StageMoves(t)) /\ UNCHANGED gone
            BY <1>10 DEF MarkFailed, Stages, StageMoves
        <3> QED BY <2>1, <3>1, StageOf DEF To
    <2>2. CASE stage' = NoRefs
        BY <1>10, <2>2, NoWork DEF MarkFailed, Typed, StageTypes
    <2> QED BY <1>10, <2>1, <2>2 DEF MarkFailed
<1> QED BY <1>1, <1>2, <1>3, <1>4, <1>5, <1>6, <1>7, <1>8, <1>9, <1>10 DEF Work

LEMMA StageStep ==
    ASSUME Typed, [Next]_vars
    PROVE  StageMove
<1>1. CASE Run
    <2>1. CASE \/ Await \/ OpenWindow \/ RefuseWindow \/ ApplyCooldown \/ RunFails \/ Tally
               \/ Finalize
        BY <2>1, StageKept
        DEF Await, OpenWindow, RefuseWindow, ApplyCooldown, RunFails, Tally, Finalize
    <2>2. CASE ClaimBatch
        BY <2>2, StageKept, ClaimStages DEF ClaimBatch, workVars
    <2>3. CASE Restore \/ CloseWindow \/ LeaseLost \/ QuotaEnds
        <3>1. gone' \in [Tokens -> SUBSET {"object", "index"}]
            BY <2>3 DEF Restore, CloseWindow, LeaseLost, QuotaEnds, workVars, Typed, StageTypes
        <3>2. stage' = NoRefs \/ UNCHANGED workVars
            BY <2>3 DEF Restore, CloseWindow, LeaseLost, QuotaEnds, workVars
        <3> QED BY <3>1, <3>2, NoWork, StageKept
    <2>4. CASE Load
        <3>1. UNCHANGED gone
            BY <2>4 DEF Load
        <3>2. CASE stage' = [t \in Tokens |-> IF stage[t] = "claimed" THEN "ready" ELSE stage[t]]
            <4>1. ASSUME NEW t \in Tokens PROVE stage'[t] \in Stages /\ StageMoves(t)
                BY <3>2, GoneFields DEF Stages, StageMoves, GoesOn, Early, Stored, Indexed
            <4> QED BY <3>1, <3>2, <4>1 DEF Typed, StageTypes, StageMove
        <3>3. CASE Claim(Window - Cardinality(Working), "ready")
            BY <3>1, <3>3, ClaimStages
        <3> QED BY <2>4, <3>1, <3>2, <3>3, StageKept DEF Load, workVars
    <2> QED BY <1>1, <2>1, <2>2, <2>3, <2>4 DEF Run
<1>2. CASE Crash
    BY <1>2, NoWork DEF Crash
<1>3. CASE \/ Heartbeat \/ AccountCools \/ CooldownEnds \/ ClaimWrites
           \/ \E i \in Items : LeaseLapses(i) \/ JournalLeaseLapses(i) \/ Recover(i)
    BY <1>3, StageKept
    DEF Heartbeat, AccountCools, CooldownEnds, ClaimWrites, LeaseLapses, JournalLeaseLapses,
        Recover, Decide, DeleteObject, StillMine, DeleteRow, CloseWrite
<1>4. CASE RecoverJob \/ User \/ StopRun \/ UNCHANGED vars
    BY <1>4, StageKept
    DEF RecoverJob, WritesDone, Repair, Uncool, Release, Start, User, Pause, Resume, Cancel,
        Retry, StopRun, vars
<1> QED BY <1>1, <1>2, <1>3, <1>4, WorkStages DEF Next

-----------------------------------------------------------------------------
(* What a step does to the storage and to files: a worker stores and       *)
(* removes its own, the recovery pass removes what it has claimed.         *)

PassDeletes(t, at) == claim[t[1]].at = at /\ claim[t[1]].op = t[2]

StoreMoves(t) ==
    /\ t \in objects' \ objects => stage[t] = "begun"
    /\ t \in files' \ files => stage[t] = "marked" /\ stage'[t] = "indexed"
    /\ t \in objects \ objects' => stage[t] \in {"undo", "drop"} \/ PassDeletes(t, "object")
    /\ t \in files \ files' => stage[t] \in {"unrow", "unindex"} \/ PassDeletes(t, "row")

StoreMove == StoreTypes' /\ \A t \in Tokens : StoreMoves(t)

LEMMA StoreKept ==
    ASSUME Typed, UNCHANGED storeVars
    PROVE  StoreMove
BY DEF Typed, StoreTypes, storeVars, StoreMove, StoreMoves

LEMMA StoreStep ==
    ASSUME Typed, [Next]_vars
    PROVE  StoreMove
<1>1. CASE Run \/ Heartbeat
    BY <1>1, StoreKept
    DEF Run, Await, ClaimBatch, OpenWindow, RefuseWindow, Restore, Load, CloseWindow, LeaseLost,
        QuotaEnds, ApplyCooldown, RunFails, Tally, Finalize, Heartbeat
<1>2. ASSUME NEW t \in Tokens, Work(t) PROVE StoreMove
    <2>1. CASE \/ StartItem(t) \/ Download(t) \/ Begin(t) \/ MarkObject(t) \/ MarkIndex(t)
               \/ Validate(t) \/ Commit(t) \/ Note(t) \/ Settle(t) \/ MarkFailed(t)
        BY <2>1, StoreKept
        DEF StartItem, Download, Begin, MarkObject, MarkIndex, Validate, Commit, Note, Settle,
            MarkFailed
    <2>2. CASE Save(t)
        BY <2>2 DEF Save, Typed, StoreTypes, StoreMove, StoreMoves
    <2>3. CASE InsertRow(t)
        BY <2>3 DEF InsertRow, To, Typed, StoreTypes, StageTypes, StoreMove, StoreMoves
    <2>4. CASE Undo(t) \/ Drop(t)
        BY <2>4 DEF Undo, Drop, Typed, StoreTypes, StoreMove, StoreMoves
    <2>5. CASE UndoRow(t) \/ DropRow(t)
        BY <2>5 DEF UndoRow, DropRow, Typed, StoreTypes, StoreMove, StoreMoves
    <2> QED BY <1>2, <2>1, <2>2, <2>3, <2>4, <2>5 DEF Work
<1>3. ASSUME NEW i \in Items, Recover(i) PROVE StoreMove
    <2>0. \A t \in Tokens : t = <<i, claim[i].op>> => t[1] = i /\ t[2] = claim[i].op
        OBVIOUS
    <2>1. CASE Decide(i) \/ StillMine(i) \/ CloseWrite(i)
        BY <2>1, StoreKept DEF Decide, StillMine, CloseWrite
    <2>2. CASE DeleteObject(i)
        <3>1. /\ claim[i].at = "object" /\ files' = files
              /\ objects' = objects \/ objects' = objects \ {<<i, claim[i].op>>}
            BY <2>2 DEF DeleteObject
        <3> QED BY <2>0, <3>1 DEF Typed, StoreTypes, StoreMove, StoreMoves, PassDeletes
    <2>3. CASE DeleteRow(i)
        <3>1. /\ claim[i].at = "row" /\ objects' = objects
              /\ files' = files \/ files' = files \ {<<i, claim[i].op>>}
            BY <2>3 DEF DeleteRow
        <3> QED BY <2>0, <3>1 DEF Typed, StoreTypes, StoreMove, StoreMoves, PassDeletes
    <2> QED BY <1>3, <2>1, <2>2, <2>3 DEF Recover
<1>4. CASE \/ AccountCools \/ CooldownEnds \/ ClaimWrites \/ RecoverJob
           \/ \E i \in Items : LeaseLapses(i) \/ JournalLeaseLapses(i)
    BY <1>4, StoreKept
    DEF AccountCools, CooldownEnds, ClaimWrites, LeaseLapses, JournalLeaseLapses, RecoverJob,
        WritesDone, Repair, Uncool, Release, Start
<1>5. CASE User \/ StopRun \/ Crash \/ UNCHANGED vars
    BY <1>5, StoreKept DEF User, Pause, Resume, Cancel, Retry, StopRun, Crash, vars
<1> QED BY <1>1, <1>2, <1>3, <1>4, <1>5 DEF Next

-----------------------------------------------------------------------------
(* What a step does to the claim of the recovery pass on an item: it reads *)
(* the journal row of a write nobody is busy with, it goes on with what it *)
(* has read, or it leaves it.                                              *)

Reads(i) ==
    /\ Kept(i) /\ SameWrite(i)
    /\ journal[i].state = "pending" /\ ~InProgress(i)
    /\ claim'[i].op = journal[i].op
    /\ claim'[i].success = (item[i].status = "success")

Holds(i) ==
    /\ claim[i].at # "idle"
    /\ claim'[i].op = claim[i].op /\ claim'[i].success = claim[i].success

Leaves(i) == claim'[i].at = "idle" /\ claim'[i].op = Unset

ClaimMoves(i) == claim'[i] = claim[i] \/ Leaves(i) \/ Reads(i) \/ Holds(i)

ClaimMove == claim' \in [Items -> ClaimRecord] /\ \A i \in Items : ClaimMoves(i)

LEMMA IdleType == Idle \in ClaimRecord /\ Idle.at = "idle" /\ Idle.op = Unset
BY ChannelAssumption DEF Idle, ClaimRecord, Evidences, Unset

LEMMA ClaimKept ==
    ASSUME Typed, UNCHANGED claim
    PROVE  ClaimMove
BY DEF Typed, ClaimMove, ClaimMoves

LEMMA ClaimFields ==
    ASSUME Typed, NEW i \in Items
    PROVE  /\ claim[i] \in ClaimRecord /\ claim[i].op \in 0..MaxClaims
           /\ claim[i].success \in BOOLEAN
BY DEF Typed, ClaimRecord

(* The claim on one item changes.                                          *)
LEMMA ClaimOne ==
    ASSUME Typed, NEW i \in Items, NEW r \in ClaimRecord,
           claim' = [claim EXCEPT ![i] = r],
           \/ r.at = "idle" /\ r.op = Unset
           \/ claim[i].at # "idle" /\ r.op = claim[i].op /\ r.success = claim[i].success
    PROVE  ClaimMove
<1>1. claim'[i] = r /\ \A k \in Items \ {i} : claim'[k] = claim[k]
    BY DEF Typed
<1>2. claim' \in [Items -> ClaimRecord]
    BY DEF Typed
<1>3. ClaimMoves(i) /\ \A k \in Items \ {i} : ClaimMoves(k)
    BY <1>1 DEF ClaimMoves, Leaves, Holds
<1> QED BY <1>2, <1>3 DEF ClaimMove

LEMMA ClaimStep ==
    ASSUME Typed, [Next]_vars
    PROVE  ClaimMove
<1>1. CASE Run \/ Heartbeat
    BY <1>1, ClaimKept
    DEF Run, Await, ClaimBatch, OpenWindow, RefuseWindow, Restore, Load, CloseWindow, LeaseLost,
        QuotaEnds, ApplyCooldown, RunFails, Tally, Finalize, Heartbeat, passVars
<1>2. ASSUME NEW t \in Tokens, Work(t) PROVE ClaimMove
    <2>1. UNCHANGED passVars
        BY <1>2
        DEF Work, StartItem, Download, Begin, Save, MarkObject, InsertRow, MarkIndex, Validate,
            Commit, Undo, UndoRow, Drop, DropRow, Note, Settle, MarkFailed
    <2> QED BY <2>1, ClaimKept DEF passVars
<1>3. CASE ClaimWrites
    <2> DEFINE S == {i \in Items : /\ journal[i].state = "pending"
                                   /\ ~journal[i].leased /\ ~InProgress(i)}
               new(i) == [at |-> "claimed", object |-> journal[i].object,
                          index |-> journal[i].index, path |-> journal[i].path,
                          file |-> journal[i].file, op |-> journal[i].op,
                          success |-> item[i].status = "success"]
    <2>1. /\ claim' = [i \in Items |-> IF i \in S THEN new(i) ELSE Idle]
          /\ journal' = [i \in Items |-> IF i \in S THEN [journal[i] EXCEPT !.leased = TRUE]
                                         ELSE journal[i]]
          /\ item' = item /\ given' = given
        BY <1>3 DEF ClaimWrites, itemVars
    <2>2. ASSUME NEW i \in S PROVE claim'[i] \in ClaimRecord /\ ClaimMoves(i)
        <3>1. journal[i] \in JournalRecord /\ claim'[i] = new(i)
            BY <2>1, JournalFields
        <3>2. new(i) \in ClaimRecord
            BY <3>1 DEF JournalRecord, ClaimRecord
        <3>3. new(i).op = journal[i].op /\ new(i).success = (item[i].status = "success")
            OBVIOUS
        <3>4. journal'[i].state = journal[i].state /\ journal'[i].op = journal[i].op
            BY <2>1, <3>1 DEF JournalRecord
        <3>5. Kept(i)
            BY <2>1 DEF Kept
        <3> HIDE DEF new
        <3> QED BY <3>1, <3>2, <3>3, <3>4, <3>5 DEF ClaimMoves, Reads, SameWrite
    <2>3. ASSUME NEW i \in Items \ S PROVE claim'[i] \in ClaimRecord /\ ClaimMoves(i)
        <3>1. claim'[i] = Idle
            BY <2>1
        <3> QED BY <3>1, IdleType DEF ClaimMoves, Leaves
    <2>4. \A i \in Items : claim'[i] \in ClaimRecord /\ ClaimMoves(i)
        BY <2>2, <2>3
    <2> HIDE DEF S, new
    <2> QED BY <2>1, <2>4 DEF ClaimMove
<1>4. ASSUME NEW i \in Items, Recover(i) PROVE ClaimMove
    <2>0. claim[i] \in ClaimRecord /\ claim[i].at # "idle"
        BY <1>4, ClaimFields
        DEF Recover, Decide, DeleteObject, StillMine, DeleteRow, CloseWrite
    <2>1. ASSUME Leave(i) PROVE ClaimMove
        BY <2>1, IdleType, ClaimOne DEF Leave
    <2>2. ASSUME NEW s \in {"object", "check", "row", "close"}, Go(i, s) PROVE ClaimMove
        <3> DEFINE r == [claim[i] EXCEPT !.at = s]
        <3>1. r \in ClaimRecord /\ r.op = claim[i].op /\ r.success = claim[i].success
            BY <2>0 DEF ClaimRecord
        <3>2. claim' = [claim EXCEPT ![i] = r]
            BY <2>2 DEF Go
        <3> HIDE DEF r
        <3> QED BY <2>0, <3>1, <3>2, ClaimOne
    <2>3. ASSUME NEW s \in Evidences, Found(i, "object", s) PROVE ClaimMove
        <3> DEFINE r == [claim[i] EXCEPT !.object = s, !.at = "check"]
        <3>1. r \in ClaimRecord /\ r.op = claim[i].op /\ r.success = claim[i].success
            BY <2>0 DEF ClaimRecord
        <3>2. claim' = [claim EXCEPT ![i] = r]
            BY <2>3 DEF Found
        <3> HIDE DEF r
        <3> QED BY <2>0, <3>1, <3>2, ClaimOne
    <2>4. ASSUME NEW s \in Evidences, Found(i, "index", s) PROVE ClaimMove
        <3> DEFINE r == [claim[i] EXCEPT !.index = s, !.at = "close"]
        <3>1. r \in ClaimRecord /\ r.op = claim[i].op /\ r.success = claim[i].success
            BY <2>0 DEF ClaimRecord
        <3>2. claim' = [claim EXCEPT ![i] = r]
            BY <2>4 DEF Found
        <3> HIDE DEF r
        <3> QED BY <2>0, <3>1, <3>2, ClaimOne
    <2>5. CASE Decide(i) \/ CloseWrite(i) \/ StillMine(i)
        BY <2>1, <2>2, <2>5 DEF Decide, CloseWrite, StillMine
    <2>6. CASE DeleteObject(i)
        BY <2>2, <2>3, <2>6 DEF DeleteObject, Evidences
    <2>7. CASE DeleteRow(i)
        BY <2>2, <2>4, <2>7 DEF DeleteRow, Evidences
    <2> QED BY <1>4, <2>5, <2>6, <2>7 DEF Recover
<1>5. CASE Crash
    BY <1>5, IdleType DEF Crash, ClaimMove, ClaimMoves, Leaves
<1>6. CASE AccountCools \/ CooldownEnds \/ RecoverJob \/ User \/ StopRun \/ UNCHANGED vars
    BY <1>6, ClaimKept
    DEF AccountCools, CooldownEnds, RecoverJob, WritesDone, Repair, Uncool, Release, Start, User,
        Pause, Resume, Cancel, Retry, StopRun, passVars, vars
<1>7. CASE \E i \in Items : LeaseLapses(i) \/ JournalLeaseLapses(i)
    BY <1>7, ClaimKept DEF LeaseLapses, JournalLeaseLapses, passVars
<1> QED BY <1>1, <1>2, <1>3, <1>4, <1>5, <1>6, <1>7 DEF Next

-----------------------------------------------------------------------------
(* What a step does to the job and to its run.                             *)

RefsPhase == \A t \in Refs : phase \in {"claimed", "active", "restore"}
WorkingPhase == Working # {} => phase = "active"
RunningJob == phase # "off" => job \notin Done
FinishVerdict ==
    phase = "finish" =>
        /\ verdict \in {"running", "completed", "completed_with_errors"}
        /\ verdict # "running" => ~Remaining
        /\ verdict = "completed" => \A i \in Items : item[i].status # "failed"

JobMoves ==
    \/ job' = job
    \/ job' \notin Done
    \/ job' = "failed" /\ phase # "off" /\ phase' = "off"
    \/ phase = "finish" /\ phase' = "off" /\ job' = verdict

PhaseMoves ==
    /\ phase = "off" /\ phase' # "off" => job \notin Done /\ job' \notin Done
    /\ phase' = "restore" => \/ phase = "restore" /\ verdict' = verdict
                             \/ verdict' \in {"pending", "skipped"}
    /\ phase' = "finish" => \/ phase = "finish" /\ verdict' = verdict
                            \/ UNCHANGED item /\ (FinishVerdict)'

RunMove == ControlTypes' /\ JobMoves /\ PhaseMoves /\ RefsPhase' /\ WorkingPhase'

LEMMA FaultTyped ==
    ASSUME Typed, UNCHANGED bounds \/ Control \/ \E kind \in Faults : Fault(kind)
    PROVE  faults' \in 0..MaxFaults /\ controls' \in 0..MaxControls
BY ChannelAssumption DEF Typed, ControlTypes, bounds, Control, Fault

LEMMA FaultKind ==
    ASSUME NEW kind, Fault(kind)
    PROVE  \E k \in Faults : Fault(k)
BY DEF Fault

LEMMA RunKept ==
    ASSUME Typed, RefsPhase, WorkingPhase,
           UNCHANGED <<job, cooling, phase, verdict, stopping, pass>>,
           quota' \in BOOLEAN, exhausted' \in BOOLEAN, aborted' \in BOOLEAN,
           failure' \in {"none", "lease", "quota", "error"},
           UNCHANGED bounds \/ Control \/ \E kind \in Faults : Fault(kind),
           stage' = stage \/ phase = "active"
    PROVE  RunMove
<1>1. ControlTypes'
    BY FaultTyped DEF Typed, ControlTypes
<1>2. JobMoves /\ PhaseMoves
    BY DEF JobMoves, PhaseMoves
<1>3. RefsPhase' /\ WorkingPhase'
    BY DEF RefsPhase, WorkingPhase, Refs, Working
<1> QED BY <1>1, <1>2, <1>3 DEF RunMove

LEMMA NobodyHeld ==
    ASSUME stage' = NoRefs
    PROVE  RefsPhase' /\ WorkingPhase'
BY DEF NoRefs, RefsPhase, WorkingPhase, Refs, Working

LEMMA WorkRun ==
    ASSUME Typed, RefsPhase, WorkingPhase, RunningJob, NEW t \in Tokens, Work(t)
    PROVE  RunMove
<1>0. /\ phase = "active" /\ job \notin Done
      /\ quota \in BOOLEAN /\ exhausted \in BOOLEAN /\ aborted \in BOOLEAN
      /\ failure \in {"none", "lease", "quota", "error"}
    <2>1. phase = "active"
        BY DEF Work, StartItem, Download, Begin, Save, MarkObject, InsertRow, MarkIndex, Validate,
               Commit, Undo, UndoRow, Drop, DropRow, Note, Settle, MarkFailed, WindowEnds
    <2> QED BY <2>1 DEF RunningJob, Typed, ControlTypes
<1>1. CASE \/ StartItem(t) \/ Download(t) \/ Begin(t) \/ Save(t) \/ MarkObject(t)
           \/ InsertRow(t) \/ MarkIndex(t) \/ Validate(t) \/ Commit(t)
    <2>1. UNCHANGED <<jobVars, loopVars, stopping, pass>>
        BY <1>1
        DEF StartItem, Download, Begin, Save, MarkObject, InsertRow, MarkIndex, Validate, Commit,
            passVars
    <2>2. UNCHANGED bounds \/ \E kind \in Faults : Fault(kind)
        BY <1>1, FaultKind
        DEF StartItem, Download, Begin, Save, MarkObject, InsertRow, MarkIndex, Validate, Commit,
            OrFault
    <2> QED BY <1>0, <2>1, <2>2, RunKept DEF jobVars, loopVars
<1>2. CASE Undo(t) \/ UndoRow(t) \/ Drop(t) \/ DropRow(t)
    <2>1. UNCHANGED <<jobVars, loopVars, stopping, pass>>
        BY <1>2 DEF Undo, UndoRow, Drop, DropRow, passVars
    <2>2. UNCHANGED bounds \/ \E kind \in Faults : Fault(kind)
        BY <1>2, FaultKind DEF Undo, UndoRow, Drop, DropRow, OrFault
    <2> QED BY <1>0, <2>1, <2>2, RunKept DEF jobVars, loopVars
<1>3. CASE Note(t) \/ Settle(t)
    <2>1. /\ UNCHANGED <<job, cooling, phase, verdict, exhausted, aborted, stopping, pass>>
          /\ quota' \in BOOLEAN /\ failure' \in {"none", "lease", "quota", "error"}
        BY <1>0, <1>3 DEF Note, Settle, First, jobVars, passVars
    <2>2. UNCHANGED bounds \/ \E kind \in Faults : Fault(kind)
        BY <1>3, FaultKind DEF Note, Settle, OrFault
    <2> QED BY <1>0, <2>1, <2>2, RunKept
<1>4. CASE MarkFailed(t)
    <2>1. CASE UNCHANGED <<job, phase, bounds>>
        <3>1. UNCHANGED <<cooling, quota, verdict, exhausted, aborted, failure, stopping, pass>>
            BY <1>4 DEF MarkFailed, passVars
        <3> QED BY <1>0, <2>1, <3>1, RunKept
    <2>2. CASE Fault("statement") /\ FailJob /\ stage' = NoRefs /\ phase' = "off"
        <3>1. UNCHANGED <<cooling, quota, verdict, exhausted, aborted, failure, stopping, pass>>
            BY <1>4 DEF MarkFailed, passVars
        <3>2. job' = job \/ job' = "failed"
            BY <2>2 DEF FailJob
        <3>3. faults' \in 0..MaxFaults /\ controls' \in 0..MaxControls
            BY <2>2, FaultKind, FaultTyped
        <3>4. ControlTypes'
            BY <2>2, <3>1, <3>2, <3>3 DEF Typed, ControlTypes
        <3>5. JobMoves /\ PhaseMoves
            BY <1>0, <2>2, <3>2 DEF JobMoves, PhaseMoves
        <3> QED BY <2>2, <3>4, <3>5, NobodyHeld DEF RunMove
    <2> QED BY <1>4, <2>1, <2>2 DEF MarkFailed
<1> QED BY <1>1, <1>2, <1>3, <1>4 DEF Work

(* A step of the run that leaves the stages of its items alone.            *)
LEMMA RunMoved ==
    ASSUME Typed, RefsPhase, WorkingPhase, stage' = stage,
           UNCHANGED <<cooling, quota, stopping, pass, bounds>>,
           exhausted' \in BOOLEAN, aborted' \in BOOLEAN,
           failure' \in {"none", "lease", "quota", "error"},
           job' \in {"running", "paused", "cooling", "cancelled", "completed",
                     "completed_with_errors", "failed"},
           phase' \in {"off", "wait", "go", "claimed", "active", "restore", "tally", "finish"},
           verdict' \in {"none", "pending", "skipped", "running", "completed",
                         "completed_with_errors"},
           JobMoves, PhaseMoves,
           \/ phase \notin {"claimed", "active", "restore"}
           \/ phase = "claimed" /\ phase' = "active"
           \/ Working = {} /\ (phase' = "restore" \/ Refs = {})
    PROVE  RunMove
<1>1. ControlTypes'
    BY FaultTyped DEF Typed, ControlTypes
<1>2. Refs' = Refs /\ Working' = Working
    BY DEF Refs, Working
<1>3. RefsPhase' /\ WorkingPhase'
    BY <1>2 DEF RefsPhase, WorkingPhase, Refs
<1> QED BY <1>1, <1>3 DEF RunMove

LEMMA LoopRun ==
    ASSUME Typed, RefsPhase, WorkingPhase, RunningJob, FinishVerdict, Run
    PROVE  RunMove
<1>0. /\ cooling \in BOOLEAN /\ quota \in BOOLEAN /\ exhausted \in BOOLEAN /\ aborted \in BOOLEAN
      /\ failure \in {"none", "lease", "quota", "error"}
      /\ job \in {"running", "paused", "cooling", "cancelled", "completed",
                  "completed_with_errors", "failed"}
      /\ verdict \in {"none", "pending", "skipped", "running", "completed",
                      "completed_with_errors"}
    BY DEF Typed, ControlTypes
<1>1. CASE Await \/ OpenWindow \/ RefuseWindow
    <2>1. /\ UNCHANGED <<job, cooling, quota, stopping, pass, bounds>> /\ stage' = stage
          /\ exhausted' \in BOOLEAN /\ aborted' \in BOOLEAN
          /\ failure' \in {"none", "lease", "quota", "error"}
        BY <1>0, <1>1 DEF Await, OpenWindow, RefuseWindow, jobVars, workVars, passVars
    <2>2. \/ phase = "wait" /\ phase' \in {"go", "tally"} /\ verdict' = verdict
          \/ phase = "claimed" /\ phase' = "active" /\ verdict' = verdict
          \/ phase = "claimed" /\ phase' = "restore" /\ verdict' \in {"pending", "skipped"}
        BY <1>1 DEF Await, OpenWindow, RefuseWindow, GivesBack
    <2>3. JobMoves /\ PhaseMoves
        BY <2>1, <2>2 DEF JobMoves, PhaseMoves
    <2>4. phase = "claimed" => Working = {}
        BY DEF WorkingPhase
    <2> QED BY <1>0, <2>1, <2>2, <2>3, <2>4, RunMoved
<1>2. CASE ClaimBatch
    <2>1. /\ UNCHANGED <<job, cooling, quota, stopping, pass, bounds, verdict, exhausted, aborted,
                         failure>>
          /\ phase = "go" /\ phase' \in {"claimed", "tally"}
        BY <1>2 DEF ClaimBatch, jobVars, passVars
    <2>2. JobMoves /\ PhaseMoves
        BY <2>1 DEF JobMoves, PhaseMoves
    <2>3. CASE UNCHANGED stage
        BY <1>0, <2>1, <2>2, <2>3, RunMoved
    <2>4. CASE Claim(Window, "claimed") /\ phase' = "claimed"
        <3>1. ControlTypes'
            BY <2>1, <2>4, FaultTyped DEF Typed, ControlTypes
        <3>2. \A t \in Tokens : stage[t] = "none"
            BY <2>1 DEF RefsPhase, Refs
        <3>3. \A t \in Tokens : stage'[t] \in {"none", "claimed"}
            BY <2>4, <3>2 DEF Claim
        <3>4. RefsPhase' /\ WorkingPhase'
            BY <2>4, <3>3 DEF RefsPhase, WorkingPhase, Working
        <3> QED BY <2>2, <3>1, <3>4 DEF RunMove
    <2> QED BY <1>2, <2>3, <2>4 DEF ClaimBatch
<1>3. CASE Restore \/ QuotaEnds \/ LeaseLost \/ (CloseWindow /\ phase' = "wait")
    <2>1. /\ UNCHANGED <<quota, stopping, pass, bounds, exhausted, aborted, failure>>
          /\ stage' = NoRefs /\ phase' \in {"wait", "off"} /\ phase # "off"
          /\ verdict' \in {"none", verdict}
          /\ cooling' \in {cooling, cooling \/ ~Finished(job)}
          /\ job' \in {job, "cooling", "failed"} /\ (job' = "failed" => phase' = "off" \/ job' = job)
        <3>1. CASE Restore \/ (CloseWindow /\ phase' = "wait")
            BY <3>1 DEF Restore, CloseWindow, WindowEnds, jobVars, passVars
        <3>2. CASE QuotaEnds
            BY <3>2 DEF QuotaEnds, WindowEnds, CoolDown, passVars
        <3>3. CASE LeaseLost
            BY <3>3 DEF LeaseLost, WindowEnds, FailJob, passVars
        <3> QED BY <1>3, <3>1, <3>2, <3>3
    <2>2. (cooling \/ ~Finished(job)) \in BOOLEAN
        OBVIOUS
    <2>3. ControlTypes'
        <3>1. faults' \in 0..MaxFaults /\ controls' \in 0..MaxControls
            BY <2>1, FaultTyped
        <3>2. cooling' \in BOOLEAN
            BY <1>0, <2>1, <2>2
        <3>3. verdict' \in {"none", "pending", "skipped", "running", "completed",
                            "completed_with_errors"}
            BY <1>0, <2>1
        <3> QED BY <2>1, <3>1, <3>2, <3>3 DEF Typed, ControlTypes
    <2>4. JobMoves /\ PhaseMoves
        BY <2>1 DEF JobMoves, PhaseMoves, Done
    <2> QED BY <2>1, <2>3, <2>4, NobodyHeld DEF RunMove
<1>4. CASE CloseWindow /\ UNCHANGED stage /\ phase' = "restore"
    <2>1. /\ UNCHANGED <<job, cooling, quota, stopping, pass, bounds, exhausted, aborted, failure>>
          /\ phase = "active" /\ Working = {} /\ verdict' \in {"pending", "skipped"}
        BY <1>4 DEF CloseWindow, WindowEnds, GivesBack, jobVars, passVars
    <2>2. JobMoves /\ PhaseMoves
        BY <1>4, <2>1 DEF JobMoves, PhaseMoves
    <2> QED BY <1>0, <1>4, <2>1, <2>2, RunMoved
<1>5. CASE Load
    <2>1. /\ UNCHANGED <<job, cooling, quota, phase, verdict, stopping, pass, aborted>>
          /\ exhausted' \in BOOLEAN /\ failure' \in {"none", "lease", "quota", "error"}
          /\ phase = "active"
        BY <1>0, <1>5 DEF Load, jobVars, passVars
    <2>2. UNCHANGED bounds \/ \E kind \in Faults : Fault(kind)
        BY <1>5, FaultKind DEF Load, OrFault
    <2> QED BY <1>0, <2>1, <2>2, RunKept
<1>6. CASE ApplyCooldown
    <2>1. /\ UNCHANGED <<quota, stage, phase, verdict, exhausted, aborted, failure, stopping, pass>>
          /\ phase # "off" /\ job' \in {job, "cooling"} /\ UNCHANGED bounds
          /\ cooling' \in {cooling, cooling \/ ~Finished(job)}
        BY <1>6 DEF ApplyCooldown, CoolDown, loopVars, workVars, passVars
    <2>2. ControlTypes'
        <3>1. faults' \in 0..MaxFaults /\ controls' \in 0..MaxControls
            BY <2>1, FaultTyped
        <3>2. cooling' \in BOOLEAN
            BY <1>0, <2>1
        <3> QED BY <2>1, <3>1, <3>2 DEF Typed, ControlTypes
    <2>3. JobMoves /\ PhaseMoves
        BY <2>1 DEF JobMoves, PhaseMoves, Done
    <2>4. RefsPhase' /\ WorkingPhase'
        BY <2>1 DEF RefsPhase, WorkingPhase, Refs, Working
    <2> QED BY <2>2, <2>3, <2>4 DEF RunMove
<1>7. CASE RunFails
    <2>1. /\ UNCHANGED <<cooling, quota, stage, verdict, exhausted, aborted, failure, stopping, pass>>
          /\ UNCHANGED bounds
          /\ phase = "active" /\ phase' = "off" /\ Refs = {} /\ Working = {}
          /\ job' \in {job, "failed"}
        BY <1>7 DEF RunFails, WindowEnds, FailJob, workVars, passVars
    <2>2. JobMoves /\ PhaseMoves
        BY <2>1 DEF JobMoves, PhaseMoves
    <2> QED BY <1>0, <2>1, <2>2, RunMoved
<1>8. CASE Tally
    <2>1. /\ UNCHANGED <<job, cooling, quota, stage, item, exhausted, aborted, failure, stopping>>
          /\ UNCHANGED <<pass, bounds>> /\ phase = "tally" /\ phase' \in {"off", "finish"}
          /\ verdict' \in {"none", "running", "completed", "completed_with_errors"}
        BY <1>8 DEF Tally, jobVars, itemVars, workVars, passVars
    <2>2. (FinishVerdict)'
        <3>1. CASE phase' = "off"
            BY <3>1 DEF FinishVerdict
        <3>2. CASE verdict' = IF Remaining THEN "running"
                              ELSE IF \E i \in Items : item[i].status = "failed"
                              THEN "completed_with_errors" ELSE "completed"
            BY <2>1, <3>2 DEF FinishVerdict, Remaining, Unfinished
        <3> QED BY <1>8, <3>1, <3>2 DEF Tally
    <2>3. JobMoves /\ PhaseMoves
        BY <2>1, <2>2 DEF JobMoves, PhaseMoves
    <2> QED BY <1>0, <2>1, <2>3, RunMoved
<1>9. CASE Finalize
    <2>1. /\ UNCHANGED <<cooling, quota, stage, exhausted, aborted, failure, stopping, pass, bounds>>
          /\ phase = "finish" /\ phase' = "off" /\ verdict' = "none"
          /\ job' \in {job, verdict}
        BY <1>9 DEF Finalize, workVars, passVars
    <2>2. verdict \in {"running", "completed", "completed_with_errors"}
        BY <2>1 DEF FinishVerdict
    <2>3. JobMoves /\ PhaseMoves
        BY <2>1 DEF JobMoves, PhaseMoves
    <2> QED BY <1>0, <2>1, <2>2, <2>3, RunMoved
<1> QED BY <1>1, <1>2, <1>3, <1>4, <1>5, <1>6, <1>7, <1>8, <1>9 DEF Run, CloseWindow

LEMMA RunStep ==
    ASSUME Typed, RefsPhase, WorkingPhase, RunningJob, FinishVerdict, [Next]_vars
    PROVE  RunMove
<1>0. /\ cooling \in BOOLEAN /\ quota \in BOOLEAN /\ exhausted \in BOOLEAN /\ aborted \in BOOLEAN
      /\ failure \in {"none", "lease", "quota", "error"} /\ stopping \in BOOLEAN
      /\ job \in {"running", "paused", "cooling", "cancelled", "completed",
                  "completed_with_errors", "failed"}
      /\ verdict \in {"none", "pending", "skipped", "running", "completed",
                      "completed_with_errors"}
    BY DEF Typed, ControlTypes
<1>1. CASE Heartbeat \/ AccountCools
    <2>1. /\ UNCHANGED <<job, cooling, phase, verdict, stopping, pass, exhausted, failure, stage>>
          /\ aborted' \in BOOLEAN /\ quota' \in BOOLEAN
        BY <1>0, <1>1 DEF Heartbeat, AccountCools, jobVars, loopVars, workVars, passVars
    <2>2. UNCHANGED bounds \/ \E kind \in Faults : Fault(kind)
        BY <1>1, FaultKind DEF Heartbeat, AccountCools, OrFault
    <2> QED BY <1>0, <2>1, <2>2, RunKept
<1>2. ASSUME NEW i \in Items, LeaseLapses(i) \/ JournalLeaseLapses(i) \/ Recover(i)
      PROVE  RunMove
    <2>1. UNCHANGED <<jobVars, loopVars, stopping, pass, stage>>
        BY <1>2
        DEF LeaseLapses, JournalLeaseLapses, Recover, Decide, DeleteObject, StillMine, DeleteRow,
            CloseWrite, passVars, workVars
    <2>2. UNCHANGED bounds \/ \E kind \in Faults : Fault(kind)
        BY <1>2, FaultKind
        DEF LeaseLapses, JournalLeaseLapses, Recover, Decide, DeleteObject, StillMine, DeleteRow,
            CloseWrite
    <2> QED BY <1>0, <2>1, <2>2, RunKept DEF jobVars, loopVars
<1>3. CASE CooldownEnds \/ ClaimWrites \/ WritesDone \/ Release \/ StopRun
    <2>1. /\ UNCHANGED <<job, phase, verdict, exhausted, failure, stage, bounds>>
          /\ cooling' \in BOOLEAN /\ quota' \in BOOLEAN /\ aborted' \in BOOLEAN
          /\ stopping' \in BOOLEAN /\ pass' \in {pass, "resolve", "repair", "start"}
        BY <1>0, <1>3
        DEF CooldownEnds, ClaimWrites, WritesDone, Release, StopRun, jobVars, loopVars, workVars,
            passVars
    <2>2. ControlTypes'
        <3>1. faults' \in 0..MaxFaults /\ controls' \in 0..MaxControls
            BY <2>1, FaultTyped
        <3> QED BY <2>1, <3>1 DEF Typed, ControlTypes
    <2>3. JobMoves /\ PhaseMoves
        BY <2>1 DEF JobMoves, PhaseMoves
    <2>4. RefsPhase' /\ WorkingPhase'
        BY <2>1 DEF RefsPhase, WorkingPhase, Refs, Working
    <2> QED BY <2>2, <2>3, <2>4 DEF RunMove
<1>4. CASE Repair \/ Uncool \/ Start
    <2>1. /\ UNCHANGED <<cooling, quota, stopping, verdict, exhausted, aborted, failure, stage, bounds>>
          /\ pass' \in {"uncool", "release", "off"} /\ job' \in {job, "running"}
          /\ phase' = phase \/ (/\ phase = "off" /\ phase' = "wait"
                                /\ job \in {"running", "cooling"} /\ job' = job)
        BY <1>4 DEF Repair, Uncool, Start, Startable, jobVars, loopVars, workVars
    <2>2. ControlTypes'
        <3>1. faults' \in 0..MaxFaults /\ controls' \in 0..MaxControls
            BY <2>1, FaultTyped
        <3> QED BY <2>1, <3>1 DEF Typed, ControlTypes
    <2>3. JobMoves /\ PhaseMoves
        BY <2>1 DEF JobMoves, PhaseMoves, Done
    <2>4. RefsPhase' /\ WorkingPhase'
        BY <2>1 DEF RefsPhase, WorkingPhase, Refs, Working
    <2> QED BY <2>2, <2>3, <2>4 DEF RunMove
<1>5. CASE User
    <2>1. /\ UNCHANGED <<cooling, quota, loopVars, stage, pass>>
          /\ stopping' \in BOOLEAN /\ job' \in {"paused", "cooling", "running", "cancelled"}
        BY <1>0, <1>5 DEF User, Pause, Resume, Cancel, Retry, workVars, passVars
    <2>2. UNCHANGED bounds \/ Control
        BY <1>5 DEF User, Pause, Resume, Cancel, Retry
    <2>3. ControlTypes'
        <3>1. faults' \in 0..MaxFaults /\ controls' \in 0..MaxControls
            BY <2>2, FaultTyped
        <3> QED BY <2>1, <3>1 DEF Typed, ControlTypes, loopVars
    <2>4. JobMoves /\ PhaseMoves
        BY <2>1 DEF JobMoves, PhaseMoves, Done, loopVars
    <2>5. RefsPhase' /\ WorkingPhase'
        BY <2>1 DEF RefsPhase, WorkingPhase, Refs, Working, loopVars
    <2> QED BY <2>3, <2>4, <2>5 DEF RunMove
<1>6. CASE Crash
    <2>1. /\ UNCHANGED jobVars /\ phase' = "off" /\ verdict' = "none" /\ exhausted' = FALSE
          /\ aborted' = FALSE /\ failure' = "none" /\ stage' = NoRefs /\ stopping' = FALSE
          /\ pass' = "off" /\ Fault("crash")
        BY <1>6 DEF Crash
    <2>2. ControlTypes'
        <3>1. faults' \in 0..MaxFaults /\ controls' \in 0..MaxControls
            BY <2>1, FaultTyped, FaultKind
        <3> QED BY <2>1, <3>1 DEF Typed, ControlTypes, jobVars
    <2>3. JobMoves /\ PhaseMoves
        BY <2>1 DEF JobMoves, PhaseMoves, jobVars
    <2> QED BY <2>1, <2>2, <2>3, NobodyHeld DEF RunMove
<1>7. CASE UNCHANGED vars
    BY <1>0, <1>7, RunKept DEF vars, jobVars, loopVars, workVars, passVars
<1> QED BY <1>1, <1>2, <1>3, <1>4, <1>5, <1>6, <1>7, LoopRun, WorkRun DEF Next, RecoverJob

-----------------------------------------------------------------------------
(* The run.                                                                *)

RunInv ==
    /\ RefsPhase /\ WorkingPhase /\ RunningJob /\ RestoreVerdict /\ FinishVerdict
    /\ CompletedMeansDone

(* An item that has ended stays ended, and does not fail, unless the job   *)
(* is retried.                                                             *)
LEMMA EndedStays ==
    ASSUME Typed, NEW i \in Items, ItemMoves(i), job \notin Done \/ job' # "running",
           ~Unfinished(i)
    PROVE  /\ ~Unfinished(i)'
           /\ item[i].status # "failed" => item'[i].status # "failed"
<1>1. item[i].status \notin {"pending", "downloading"}
    BY DEF Unfinished
<1>2. item'[i].status = item[i].status
    BY <1>1 DEF ItemMoves, Kept, Taken, Back, Ticked, Succeeds, Owns
<1> QED BY <1>1, <1>2 DEF Unfinished

LEMMA RunInvStep ==
    ASSUME Typed, RunInv, RunMove, ItemsMove
    PROVE  RunInv'
<1> USE DEF RunInv, RunMove
<1>1. RefsPhase' /\ WorkingPhase'
    OBVIOUS
<1>2. RunningJob'
    <2>1. SUFFICES ASSUME phase' # "off" PROVE job' \notin Done
        BY DEF RunningJob
    <2> QED BY <2>1 DEF JobMoves, PhaseMoves, RunningJob
<1>3. RestoreVerdict'
    BY DEF PhaseMoves, RestoreVerdict
<1>4. FinishVerdict'
    <2>1. SUFFICES ASSUME phase = "finish", phase' = "finish", verdict' = verdict
                   PROVE  FinishVerdict'
        BY DEF PhaseMoves, FinishVerdict
    <2>2. job \notin Done
        BY <2>1 DEF RunningJob
    <2>3. \A i \in Items : ~Unfinished(i) =>
              ~Unfinished(i)' /\ (item[i].status # "failed" => item'[i].status # "failed")
        BY <2>2, EndedStays DEF ItemsMove
    <2> QED BY <2>1, <2>3 DEF FinishVerdict, Remaining
<1>5. CompletedMeansDone'
    <2>1. SUFFICES ASSUME job' \in {"completed", "completed_with_errors"}
                   PROVE  \A i \in Items : /\ ~Unfinished(i)'
                                           /\ job' = "completed" => item'[i].status # "failed"
        BY DEF CompletedMeansDone
    <2>2. job' = job \/ (phase = "finish" /\ job' = verdict)
        BY <2>1 DEF JobMoves, Done
    <2>3. \A i \in Items : ~Unfinished(i) /\ (job' = "completed" => item[i].status # "failed")
        BY <2>1, <2>2 DEF CompletedMeansDone, FinishVerdict, Remaining
    <2>4. \A i \in Items : ItemMoves(i)
        BY DEF ItemsMove
    <2> QED BY <2>1, <2>3, <2>4, EndedStays
<1> QED BY <1>1, <1>2, <1>3, <1>4, <1>5

-----------------------------------------------------------------------------
(* The leases: a worker, a journal row and a claim of the recovery pass    *)
(* each know the lease they belong to, and none of them is taken for       *)
(* another.                                                                *)

TokensGiven == \A i \in Items : item[i].token <= given[i]

WorkerLeases ==
    \A t \in Refs : t[2] <= given[t[1]] /\ (Owns(t) => ~item[t[1]].lapsed)

RowLeases == \A i \in Items : journal[i].op <= given[i] /\ claim[i].op <= given[i]

(* The recovery pass works on no write whose item is being downloaded      *)
(* under a live lease, and on none of an item that is stored.              *)
ClaimLeases ==
    \A i \in Items : claim[i].at # "idle" =>
        /\ ~(/\ item[i].status = "downloading" /\ item[i].token = claim[i].op
             /\ ~item[i].lapsed)
        /\ ~claim[i].success

(* An item is not taken again before its write is resolved.                *)
OpenWrites ==
    \A i \in Items :
        /\ item[i].status = "downloading" /\ Unresolved(i) => item[i].token = journal[i].op
        /\ item[i].status = "success" => ~Unresolved(i)

(* A worker that has not begun its write has no row in the journal.        *)
NotBegun == \A t \in Refs : stage[t] \in Early => journal[t[1]].op # t[2]

LeaseInv ==
    /\ TokensGiven /\ WorkerLeases /\ RowLeases /\ ClaimLeases /\ OpenWrites /\ NotBegun

LEMMA Moves ==
    ASSUME ItemsMove, JournalMove, StageMove, StoreMove, ClaimMove, NEW t \in Tokens
    PROVE  /\ t[1] \in Items /\ t[2] \in 1..MaxClaims
           /\ ItemMoves(t[1]) /\ JournalMoves(t[1]) /\ ClaimMoves(t[1])
           /\ StageMoves(t) /\ StoreMoves(t)
BY TokenParts DEF ItemsMove, JournalMove, StageMove, StoreMove, ClaimMove

LEMMA LeasesGrow ==
    ASSUME Typed, NEW i \in Items, ItemMoves(i)
    PROVE  /\ given[i] \in Nat /\ given'[i] \in Nat
           /\ given'[i] = given[i] \/ given'[i] = given[i] + 1
<1>1. given[i] \in Nat
    BY ItemFields, ChannelAssumption
<1> QED BY <1>1 DEF ItemMoves, Kept, Taken, Back, Ticked, Succeeds

LEMMA TokenFields ==
    ASSUME Typed, NEW t \in Tokens
    PROVE  /\ t[1] \in Items /\ t[2] \in Nat
           /\ item[t[1]].token \in Nat /\ given[t[1]] \in Nat /\ journal[t[1]].op \in Nat
           /\ claim[t[1]].op \in Nat
<1>1. t[1] \in Items /\ t[2] \in 1..MaxClaims
    BY TokenParts
<1>2. /\ item[t[1]].token \in 0..MaxClaims /\ given[t[1]] \in 0..MaxClaims
      /\ journal[t[1]].op \in 0..MaxClaims /\ claim[t[1]].op \in 0..MaxClaims
    BY <1>1, ItemFields, JournalFields, ClaimFields
<1> QED BY <1>1, <1>2, ChannelAssumption

(* A worker that owns its item has owned it since it began.                *)
LEMMA OwnedBefore ==
    ASSUME Typed, RefsPhase, WorkerLeases, NEW t \in Refs, ItemMoves(t[1]), Owns(t)'
    PROVE  /\ Owns(t) /\ ~item[t[1]].lapsed /\ ~item'[t[1]].lapsed
           /\ item'[t[1]].token = item[t[1]].token
<1>1. t \in Tokens /\ t[2] <= given[t[1]] /\ (Owns(t) => ~item[t[1]].lapsed)
    BY DEF WorkerLeases, Refs
<1>2. t[2] \in Nat /\ given[t[1]] \in Nat
    BY <1>1, TokenFields
<1>3. item'[t[1]].status = "downloading" /\ item'[t[1]].token = t[2]
    BY DEF Owns
<1>4. ~Taken(t[1])
    BY <1>1, <1>2, <1>3 DEF Taken
<1>5. Kept(t[1]) \/ Ticked(t[1])
    BY <1>3, <1>4 DEF ItemMoves, Back, Succeeds
<1>6. Owns(t)
    BY <1>3, <1>5 DEF Kept, Ticked, Owns
<1>7. Beating(t[1])
    BY <1>6 DEF Beating, RefsPhase
<1> QED BY <1>1, <1>5, <1>6, <1>7 DEF Kept, Ticked

LEMMA WorkerLeasesStep ==
    ASSUME Typed, RefsPhase, WorkerLeases, ItemsMove, JournalMove, StageMove, StoreMove, ClaimMove
    PROVE  WorkerLeases'
<1> SUFFICES ASSUME NEW t \in Tokens, stage'[t] # "none"
             PROVE  t[2] <= given'[t[1]] /\ (Owns(t)' => ~item'[t[1]].lapsed)
    BY DEF WorkerLeases, Refs
<1>1. ItemMoves(t[1]) /\ StageMoves(t) /\ t[1] \in Items
    BY Moves
<1>2. CASE t \in Refs
    <2>1. t[2] <= given[t[1]]
        BY <1>2 DEF WorkerLeases
    <2>2. t[2] \in Nat /\ given[t[1]] \in Nat
        BY TokenFields
    <2>3. given'[t[1]] = given[t[1]] \/ given'[t[1]] = given[t[1]] + 1
        BY <1>1, LeasesGrow
    <2>4. t[2] <= given'[t[1]]
        BY <2>1, <2>2, <2>3
    <2> QED BY <1>1, <1>2, <2>4, OwnedBefore
<1>3. CASE t \notin Refs
    <2>1. StartsWork(t)
        BY <1>1, <1>3 DEF Refs, StageMoves, GoesOn
    <2>2. t[2] = given'[t[1]] /\ item'[t[1]].lapsed = FALSE
        BY <2>1 DEF StartsWork, Taken
    <2>3. t[2] \in Nat
        BY TokenFields
    <2> QED BY <2>2, <2>3
<1> QED BY <1>2, <1>3

LEMMA RowLeasesStep ==
    ASSUME Typed, WorkerLeases, RowLeases, TokensGiven, ItemsMove, JournalMove, StageMove,
           StoreMove, ClaimMove
    PROVE  RowLeases' /\ TokensGiven'
<1> SUFFICES ASSUME NEW i \in Items
             PROVE  /\ journal'[i].op <= given'[i] /\ claim'[i].op <= given'[i]
                    /\ item'[i].token <= given'[i]
    BY DEF RowLeases, TokensGiven
<1>1. ItemMoves(i) /\ JournalMoves(i) /\ ClaimMoves(i)
    BY DEF ItemsMove, JournalMove, ClaimMove
<1>2. /\ given[i] \in Nat /\ item[i].token \in Nat /\ journal[i].op \in Nat /\ claim[i].op \in Nat
      /\ Unset \in Nat /\ Unset <= given[i]
    BY ItemFields, JournalFields, ClaimFields, ChannelAssumption DEF Unset
<1>3. given'[i] = given[i] \/ given'[i] = given[i] + 1
    BY <1>1, LeasesGrow
<1>4. journal[i].op <= given[i] /\ claim[i].op <= given[i] /\ item[i].token <= given[i]
    BY DEF RowLeases, TokensGiven
<1>5. journal'[i].op = journal[i].op \/ \E t \in Refs : t[1] = i /\ journal'[i].op = t[2]
    BY <1>1 DEF JournalMoves, SameWrite, Begun, Judged, Committed, Refs
<1>6. journal'[i].op \in Nat /\ journal'[i].op <= given[i]
    <2>1. ASSUME NEW t \in Refs, t[1] = i PROVE t[2] \in Nat /\ t[2] <= given[i]
        BY <2>1, TokenFields DEF WorkerLeases, Refs
    <2> QED BY <1>2, <1>4, <1>5, <2>1
<1>7. claim'[i].op \in {claim[i].op, Unset, journal[i].op}
    BY <1>1 DEF ClaimMoves, Leaves, Reads, Holds
<1>8. item'[i].token \in {item[i].token, Unset, given[i] + 1}
      /\ (item'[i].token = given[i] + 1 => item'[i].token = item[i].token
                                           \/ item'[i].token = Unset \/ given'[i] = given[i] + 1)
    BY <1>1 DEF ItemMoves, Kept, Taken, Back, Ticked, Succeeds
<1>9. journal'[i].op <= given'[i]
    BY <1>2, <1>3, <1>6
<1>10. claim'[i].op <= given'[i]
    BY <1>2, <1>3, <1>4, <1>7
<1>11. item'[i].token <= given'[i]
    BY <1>2, <1>3, <1>4, <1>8
<1> QED BY <1>9, <1>10, <1>11

LEMMA ClaimLeasesStep ==
    ASSUME Typed, WorkerLeases, RowLeases, ClaimLeases, OpenWrites, ItemsMove, ClaimMove
    PROVE  ClaimLeases'
<1> SUFFICES ASSUME NEW i \in Items, claim'[i].at # "idle"
             PROVE  /\ ~(/\ item'[i].status = "downloading" /\ item'[i].token = claim'[i].op
                         /\ ~item'[i].lapsed)
                    /\ ~claim'[i].success
    BY DEF ClaimLeases
<1>1. ItemMoves(i) /\ ClaimMoves(i)
    BY DEF ItemsMove, ClaimMove
<1>2. CASE Reads(i)
    <2>1. item'[i] = item[i] /\ Unresolved(i) /\ ~InProgress(i)
        BY <1>2 DEF Reads, Kept, Unresolved
    <2>2. item[i].status # "success"
        BY <2>1 DEF OpenWrites
    <2> QED BY <1>2, <2>1, <2>2 DEF Reads, InProgress
<1>3. CASE ~Reads(i)
    <2>1. claim[i].at # "idle" /\ claim'[i].op = claim[i].op /\ claim'[i].success = claim[i].success
        BY <1>1, <1>3 DEF ClaimMoves, Leaves, Holds
    <2>2. /\ ~(/\ item[i].status = "downloading" /\ item[i].token = claim[i].op
               /\ ~item[i].lapsed)
          /\ ~claim[i].success /\ claim[i].op <= given[i]
        BY <2>1 DEF ClaimLeases, RowLeases
    <2>3. CASE Taken(i)
        <3>1. given[i] \in Nat /\ claim[i].op \in Nat
            BY ItemFields, ClaimFields, ChannelAssumption
        <3> QED BY <2>1, <2>2, <2>3, <3>1 DEF Taken
    <2>4. CASE Ticked(i) /\ ~item'[i].lapsed
        <3>1. PICK t \in Refs : t[1] = i /\ Owns(t)
            BY <2>4 DEF Ticked
        <3>2. ~item[i].lapsed /\ item[i].status = "downloading"
            BY <3>1 DEF WorkerLeases, Owns
        <3> QED BY <2>1, <2>2, <2>4, <3>2 DEF Ticked
    <2> QED BY <1>1, <2>1, <2>2, <2>3, <2>4 DEF ItemMoves, Kept, Back, Succeeds
<1> QED BY <1>2, <1>3

(* Two workers that own one item are one.                                  *)
LEMMA OneOwner ==
    ASSUME NEW t \in Tokens, NEW u \in Tokens, Owns(t), Owns(u), t[1] = u[1]
    PROVE  t = u
BY TokenParts DEF Owns

LEMMA OpenWritesStep ==
    ASSUME Typed, ClaimLeases, OpenWrites, NotBegun, ItemsMove, JournalMove
    PROVE  OpenWrites'
<1> SUFFICES ASSUME NEW i \in Items, Unresolved(i)'
             PROVE  /\ item'[i].status = "downloading" => item'[i].token = journal'[i].op
                    /\ item'[i].status # "success"
    BY DEF OpenWrites
<1>1. ItemMoves(i) /\ JournalMoves(i)
    BY DEF ItemsMove, JournalMove
<1>2. CASE Begun(i)
    <2>1. PICK t \in Tokens : /\ t[1] = i /\ journal'[i].op = t[2]
                              /\ stage[t] = "permitted" /\ Owns(t)
        BY <1>2 DEF Begun
    <2>2. item[i].status = "downloading" /\ item[i].token = t[2]
        BY <2>1 DEF Owns
    <2>3. ~Succeeds(i)
        <3>1. SUFFICES ASSUME NEW u \in Tokens, u[1] = i, Owns(u),
                              stage[u] = "duplicate" \/ stage[u] = "valid"
                       PROVE  FALSE
            BY DEF Succeeds, Committing
        <3>2. u = t
            BY <2>1, <3>1, OneOwner
        <3> QED BY <2>1, <3>1, <3>2
    <2> QED BY <1>1, <2>1, <2>2, <2>3 DEF ItemMoves, Kept, Taken, Back, Ticked
<1>3. CASE SameWrite(i) \/ Judged(i)
    <2>1. Unresolved(i) /\ journal'[i].op = journal[i].op
        BY <1>3 DEF SameWrite, Judged, Unresolved
    <2>2. /\ item[i].status = "downloading" => item[i].token = journal[i].op
          /\ item[i].status # "success"
        BY <2>1 DEF OpenWrites
    <2>3. ~Succeeds(i)
        <3>1. SUFFICES ASSUME NEW u \in Tokens, u[1] = i, Owns(u),
                              stage[u] = "duplicate" \/ Committing(u)
                       PROVE  FALSE
            BY DEF Succeeds
        <3>2. ~Committing(u)
            BY <3>1 DEF Committing, Unresolved
        <3>3. u \in Refs /\ u[2] = journal[i].op /\ stage[u] \in Early
            BY <2>2, <3>1, <3>2 DEF Refs, Owns, Early
        <3> QED BY <3>1, <3>3 DEF NotBegun
    <2> QED BY <1>1, <2>1, <2>2, <2>3 DEF ItemMoves, Kept, Taken, Back, Ticked
<1>4. ~Committed(i)
    BY DEF Committed, Unresolved
<1> QED BY <1>1, <1>2, <1>3, <1>4 DEF JournalMoves

LEMMA NotBegunStep ==
    ASSUME Typed, RowLeases, NotBegun, ItemsMove, JournalMove, StageMove, StoreMove, ClaimMove
    PROVE  NotBegun'
<1> SUFFICES ASSUME NEW t \in Tokens, stage'[t] \in Early
             PROVE  journal'[t[1]].op # t[2]
    BY DEF NotBegun, Refs
<1>1. t[1] \in Items /\ ItemMoves(t[1]) /\ JournalMoves(t[1]) /\ StageMoves(t)
    BY Moves
<1>2. CASE Begun(t[1])
    <2>1. PICK u \in Tokens : /\ u[1] = t[1] /\ journal'[t[1]].op = u[2]
                              /\ stage'[u] = "begun" /\ Owns(u)
        BY <1>2 DEF Begun
    <2>2. u # t
        BY <2>1 DEF Early
    <2> QED BY <2>1, <2>2, TokenParts
<1>3. CASE ~Begun(t[1])
    <2>1. journal'[t[1]].op = journal[t[1]].op
        BY <1>1, <1>3 DEF JournalMoves, SameWrite, Judged, Committed
    <2>2. CASE StartsWork(t)
        <3>1. journal[t[1]].op <= given[t[1]] /\ t[2] = given[t[1]] + 1
            BY <1>1, <2>2 DEF RowLeases, StartsWork
        <3>2. journal[t[1]].op \in Nat /\ given[t[1]] \in Nat
            BY TokenFields
        <3> QED BY <2>1, <3>1, <3>2
    <2>3. CASE ~StartsWork(t)
        <3>1. stage[t] \in Early /\ stage[t] # "none"
            BY <1>1, <2>3 DEF StageMoves, GoesOn, Early
        <3> QED BY <2>1, <3>1 DEF NotBegun, Refs
    <2> QED BY <2>2, <2>3
<1> QED BY <1>2, <1>3

-----------------------------------------------------------------------------
(* The writes.                                                             *)

(* What a worker that owns its item has stored is there.                   *)
OwnersStored ==
    \A t \in Refs : Owns(t) =>
        /\ stage[t] \in Stored => t \in objects
        /\ stage[t] \in Indexed => t \in files

(* Nobody is busy with a committed write any more.                         *)
LeftAlone(i) ==
    /\ claim[i].at = "idle" \/ claim[i].op # journal[i].op
    /\ \A t \in Refs : ~(t[1] = i /\ t[2] = journal[i].op)

CommittedAlone == \A i \in Items : journal[i].state = "committed" => LeftAlone(i)

WriteInv == OwnersStored /\ CommittedAlone /\ CommittedStays

(* The recovery pass removes nothing of a worker that owns its item.       *)
LEMMA PassSpares ==
    ASSUME Typed, WorkerLeases, ClaimLeases, NEW t \in Refs, Owns(t),
           NEW at \in {"object", "row"}
    PROVE  ~PassDeletes(t, at)
<1>1. t[1] \in Items /\ ~item[t[1]].lapsed
    BY TokenParts DEF WorkerLeases, Refs
<1> QED BY <1>1 DEF PassDeletes, ClaimLeases, Owns

LEMMA OwnersStoredStep ==
    ASSUME Typed, RefsPhase, WorkerLeases, ClaimLeases, OwnersStored, ItemsMove, JournalMove,
           StageMove, StoreMove, ClaimMove
    PROVE  OwnersStored'
<1> SUFFICES ASSUME NEW t \in Tokens, stage'[t] # "none", Owns(t)'
             PROVE  /\ stage'[t] \in Stored => t \in objects'
                    /\ stage'[t] \in Indexed => t \in files'
    BY DEF OwnersStored, Refs
<1>1. t[1] \in Items /\ ItemMoves(t[1]) /\ StageMoves(t) /\ StoreMoves(t)
    BY Moves
<1>2. CASE StartsWork(t)
    BY <1>2 DEF StartsWork, Stored, Indexed
<1>3. CASE ~StartsWork(t)
    <2>1. /\ t \in Refs
          /\ stage'[t] \in Stored => stage[t] \in Stored \/ t \in objects'
          /\ stage'[t] \in Indexed => stage[t] \in Indexed \/ t \in files'
        BY <1>1, <1>3 DEF StageMoves, GoesOn, Refs
    <2>2. Owns(t)
        BY <1>1, <2>1, OwnedBefore
    <2>3. ~PassDeletes(t, "object") /\ ~PassDeletes(t, "row")
        BY <2>1, <2>2, PassSpares
    <2>4. stage[t] \in Stored => t \in objects'
        BY <1>1, <2>1, <2>2, <2>3 DEF StoreMoves, OwnersStored, Stored
    <2>5. stage[t] \in Indexed => t \in files'
        BY <1>1, <2>1, <2>2, <2>3 DEF StoreMoves, OwnersStored, Indexed
    <2> QED BY <2>1, <2>4, <2>5
<1> QED BY <1>2, <1>3

(* The step that commits a write.                                          *)
LEMMA CommitAlone ==
    ASSUME Typed, RefsPhase, LeaseInv, OwnersStored, NEW i \in Items, Committed(i),
           ItemsMove, JournalMove, StageMove, StoreMove, ClaimMove
    PROVE  /\ LeftAlone(i)' /\ item'[i].status = "success"
           /\ <<i, journal'[i].op>> \in objects' \cap files'
<1> USE DEF LeaseInv
<1>1. PICK t \in Tokens : /\ t[1] = i /\ Committing(t) /\ stage'[t] = "none"
                          /\ item'[i].status = "success"
    BY DEF Committed, ClaimLeases
<1>2. /\ stage[t] = "valid" /\ Owns(t) /\ journal[i].op = t[2] /\ t \in Refs
      /\ journal'[i].op = t[2] /\ t = <<i, t[2]>>
    BY <1>1, TokenParts DEF Committing, Settles, Operation, Refs, Committed
<1>3. t \in objects' \cap files'
    <2>1. t \in objects /\ t \in files
        BY <1>2 DEF OwnersStored, Stored, Indexed
    <2>2. ~PassDeletes(t, "object") /\ ~PassDeletes(t, "row") /\ StoreMoves(t)
        BY <1>2, PassSpares, Moves
    <2> QED BY <1>2, <2>1, <2>2 DEF StoreMoves
<1>4. claim'[i].at = "idle" \/ claim'[i].op # t[2]
    <2>1. ClaimMoves(i) /\ ~item[i].lapsed
        BY <1>1, <1>2 DEF ClaimMove, WorkerLeases
    <2>2. claim[i].at = "idle" \/ claim[i].op # t[2]
        BY <1>1, <1>2, <2>1 DEF ClaimLeases, Owns
    <2>3. ~Reads(i)
        BY <1>1, <1>2, <2>1 DEF Reads, InProgress, Owns
    <2> QED BY <2>1, <2>2, <2>3 DEF ClaimMoves, Leaves, Holds
<1>5. \A u \in Tokens : u[1] = i /\ u[2] = t[2] => stage'[u] = "none"
    BY <1>1, TokenParts
<1>6. LeftAlone(i)'
    BY <1>2, <1>4, <1>5 DEF LeftAlone, Refs
<1> QED BY <1>1, <1>2, <1>3, <1>6

(* A committed write stays as it is.                                       *)
LEMMA CommittedKept ==
    ASSUME Typed, LeaseInv, CommittedAlone, CommittedStays, NEW i \in Items,
           journal[i].state = "committed", ~Committed(i),
           ItemsMove, JournalMove, StageMove, StoreMove, ClaimMove
    PROVE  /\ LeftAlone(i)' /\ item'[i].status = "success"
           /\ <<i, journal'[i].op>> \in objects' \cap files'
<1> USE DEF LeaseInv
<1>1. /\ item[i].status = "success" /\ <<i, journal[i].op>> \in objects \cap files
      /\ LeftAlone(i) /\ ItemMoves(i) /\ JournalMoves(i) /\ ClaimMoves(i)
    BY DEF CommittedStays, CommittedAlone, ItemsMove, JournalMove, ClaimMove
<1>2. item'[i].status = "success"
    BY <1>1 DEF ItemMoves, Kept, Taken, Back, Ticked, Succeeds
<1>3. journal'[i].op = journal[i].op
    BY <1>1 DEF JournalMoves, SameWrite, Begun, Judged, Unresolved, Owns
<1>4. claim'[i].at = "idle" \/ claim'[i].op # journal[i].op
    BY <1>1 DEF LeftAlone, ClaimMoves, Leaves, Reads, Holds
<1>5. ASSUME NEW t \in Tokens, t[1] = i, t[2] = journal[i].op
      PROVE  stage'[t] = "none"
    <2>1. t \notin Refs /\ stage[t] = "none"
        BY <1>1, <1>5 DEF LeftAlone, Refs
    <2>2. ~StartsWork(t)
        BY <1>1, <1>5 DEF StartsWork, Taken
    <2>3. StageMoves(t)
        BY Moves
    <2> QED BY <2>1, <2>2, <2>3 DEF StageMoves, GoesOn
<1>6. LeftAlone(i)'
    BY <1>3, <1>4, <1>5 DEF LeftAlone, Refs
<1>7. <<i, journal[i].op>> \in objects' \cap files'
    <2> DEFINE t == <<i, journal[i].op>>
    <2>1. t \in Tokens /\ t \in objects /\ t \in files /\ t[1] = i /\ t[2] = journal[i].op
        BY <1>1 DEF Typed, StoreTypes
    <2> HIDE DEF t
    <2>2. stage[t] = "none" /\ ~PassDeletes(t, "object") /\ ~PassDeletes(t, "row")
        BY <1>1, <2>1 DEF LeftAlone, Refs, PassDeletes
    <2>3. StoreMoves(t)
        BY <2>1, Moves
    <2>4. t \in objects' /\ t \in files'
        BY <2>1, <2>2, <2>3 DEF StoreMoves
    <2> QED BY <2>4 DEF t
<1> QED BY <1>2, <1>3, <1>6, <1>7

LEMMA WriteInvStep ==
    ASSUME Typed, RunInv, LeaseInv, WriteInv, ItemsMove, JournalMove, StageMove, StoreMove,
           ClaimMove
    PROVE  WriteInv'
<1>1. OwnersStored'
    BY OwnersStoredStep DEF RunInv, LeaseInv, WriteInv
<1>2. ASSUME NEW i \in Items, journal'[i].state = "committed"
      PROVE  /\ LeftAlone(i)' /\ item'[i].status = "success"
             /\ <<i, journal'[i].op>> \in objects' \cap files'
    <2>1. CASE Committed(i)
        BY <2>1, CommitAlone DEF RunInv, WriteInv
    <2>2. CASE ~Committed(i)
        <3>1. JournalMoves(i)
            BY DEF JournalMove
        <3>2. journal[i].state = "committed"
            BY <1>2, <2>2, <3>1 DEF JournalMoves, SameWrite, Begun, Judged
        <3> QED BY <2>2, <3>2, CommittedKept DEF WriteInv
    <2> QED BY <2>1, <2>2
<1>3. CommittedAlone' /\ CommittedStays'
    BY <1>2 DEF CommittedAlone, CommittedStays
<1> QED BY <1>1, <1>3 DEF WriteInv

-----------------------------------------------------------------------------
(* The invariant.                                                          *)

IInv == Typed /\ RunInv /\ LeaseInv /\ WriteInv

LEMMA InitIInv == Init => IInv
<1> SUFFICES ASSUME Init PROVE IInv
    OBVIOUS
<1>1. /\ given = [i \in Items |-> 0] /\ item = [i \in Items |-> Leased("pending", Unset)]
      /\ journal = [i \in Items |->
             [state |-> "none", op |-> Unset, object |-> "unknown", index |-> "unknown",
              path |-> FALSE, file |-> FALSE, leased |-> FALSE]]
      /\ objects = {} /\ files = {} /\ stage = NoRefs /\ gone = [t \in Tokens |-> {}]
      /\ claim = [i \in Items |-> Idle] /\ phase = "wait" /\ job = "running"
    BY DEF Init, Prepared
<1>2. 0 \in 0..MaxClaims /\ 0 \in 0..MaxFaults /\ 0 \in 0..MaxControls /\ Unset = 0
    BY ChannelAssumption DEF Unset
<1>3. ASSUME NEW i \in Items
      PROVE  /\ item[i] \in ItemRecord /\ item[i].status = "pending" /\ item[i].token = 0
             /\ journal[i] \in JournalRecord /\ journal[i].state = "none" /\ journal[i].op = 0
             /\ claim[i] \in ClaimRecord /\ claim[i].at = "idle" /\ claim[i].op = 0
             /\ given[i] = 0
    <2>1. item[i] = Leased("pending", Unset) /\ claim[i] = Idle /\ given[i] = 0
        BY <1>1
    <2>2. "pending" \in Statuses
        BY DEF Statuses
    <2>3. /\ journal[i] \in JournalRecord /\ journal[i].state = "none" /\ journal[i].op = 0
        BY <1>1, <1>2 DEF JournalRecord, Evidences
    <2> QED BY <1>2, <2>1, <2>2, <2>3, GivenBackType, IdleType
<1>4. Typed
    <2>1. ItemTypes /\ journal \in [Items -> JournalRecord] /\ claim \in [Items -> ClaimRecord]
        BY <1>1, <1>2, <1>3 DEF ItemTypes
    <2>2. StoreTypes /\ StageTypes
        BY <1>1 DEF StoreTypes, StageTypes, NoRefs, Stages
    <2>3. ControlTypes
        BY <1>2 DEF Init, Prepared, ControlTypes
    <2> QED BY <2>1, <2>2, <2>3 DEF Typed
<1>5. Refs = {} /\ Working = {}
    BY <1>1 DEF NoRefs, Refs, Working
<1>6. RunInv
    BY <1>1, <1>5
    DEF RunInv, RefsPhase, WorkingPhase, RunningJob, Done, RestoreVerdict, FinishVerdict,
        CompletedMeansDone
<1>7. LeaseInv
    BY <1>3, <1>5
    DEF LeaseInv, TokensGiven, WorkerLeases, RowLeases, ClaimLeases, OpenWrites, NotBegun,
        Unresolved
<1>8. WriteInv
    BY <1>3, <1>5 DEF WriteInv, OwnersStored, CommittedAlone, CommittedStays
<1> QED BY <1>4, <1>6, <1>7, <1>8 DEF IInv

LEMMA Step ==
    ASSUME IInv, [Next]_vars
    PROVE  /\ ItemsMove /\ JournalMove /\ StageMove /\ StoreMove /\ ClaimMove /\ RunMove
BY ItemsStep, JournalStep, StageStep, StoreStep, ClaimStep, RunStep DEF IInv, RunInv

LEMMA IInvStep ==
    ASSUME IInv, [Next]_vars
    PROVE  IInv'
<1>1. /\ ItemsMove /\ JournalMove /\ StageMove /\ StoreMove /\ ClaimMove /\ RunMove
    BY Step
<1>2. Typed'
    BY <1>1 DEF Typed, ItemsMove, JournalMove, StageMove, StoreMove, ClaimMove, RunMove
<1>3. RunInv'
    BY <1>1, RunInvStep DEF IInv
<1>4. LeaseInv'
    BY <1>1, WorkerLeasesStep, RowLeasesStep, ClaimLeasesStep, OpenWritesStep, NotBegunStep
    DEF IInv, RunInv, LeaseInv
<1>5. WriteInv'
    BY <1>1, WriteInvStep DEF IInv
<1> QED BY <1>2, <1>3, <1>4, <1>5 DEF IInv

(* Every behaviour keeps the invariant: the run, the leases and the        *)
(* writes, together.                                                       *)
THEOREM ChannelInvariant == Spec => []IInv
<1>1. IInv /\ [Next]_vars => IInv'
    BY IInvStep
<1> QED BY <1>1, InitIInv, PTL DEF Spec

(* Every variable of the job, its items, their journal and the recovery    *)
(* pass keeps its type, and no lease is used that was not given.           *)
THEOREM ChannelTypes == Spec => []TypeOK
<1>1. IInv => TypeOK
    BY TypesOfTypeOK DEF IInv, LeaseInv, TokensGiven
<1> QED BY <1>1, ChannelInvariant, PTL

(* Whatever is lost, delayed, paused, cancelled or crashed, the object and *)
(* the row of an item that was settled as stored are never removed.        *)
THEOREM CommittedNeverRemoved == Spec => []CommittedStays
<1>1. IInv => CommittedStays
    BY DEF IInv, WriteInv
<1> QED BY <1>1, ChannelInvariant, PTL

(* A job is only called completed when every item of it has ended, and     *)
(* without errors only when none failed.                                   *)
THEOREM CompletedIsDone == Spec => []CompletedMeansDone
<1>1. IInv => CompletedMeansDone
    BY DEF IInv, RunInv
<1> QED BY <1>1, ChannelInvariant, PTL

-----------------------------------------------------------------------------
(* Without a cooldown.                                                     *)
(*                                                                         *)
(* A cooldown takes the items of workers away while they write, and the    *)
(* journal rows with them: then objects are left behind.  Nothing else     *)
(* takes an item from a worker, so that without a cooldown each write is   *)
(* known to its journal row until it is committed or wholly undone.        *)

NoCooldown ==
    /\ ~cooling /\ ~quota /\ failure # "quota"
    /\ \A t \in Tokens : stage[t] # "refused"

HoldersOwn == \A t \in Refs : Owns(t)

LEMMA NoQuotaFault ==
    ASSUME "quota" \notin Faults
    PROVE  ~Fault("quota")
BY DEF Fault

LEMMA NoCooldownStep ==
    ASSUME Typed, "quota" \notin Faults, NoCooldown, [Next]_vars
    PROVE  NoCooldown'
<1> USE DEF NoCooldown
<1>0. ~cooling /\ ~quota /\ JobState # "unknown" /\ ~Fault("quota")
    BY NoQuotaFault DEF JobState
<1>1. CASE Run
    <2>1. CASE Await \/ OpenWindow \/ RefuseWindow \/ RunFails \/ Tally \/ Finalize
        BY <2>1
        DEF Await, OpenWindow, RefuseWindow, RunFails, Tally, Finalize, jobVars, workVars
    <2>2. CASE ClaimBatch \/ Load
        <3>1. UNCHANGED <<cooling, quota>> /\ failure' \in {failure, "error"}
            BY <2>2 DEF ClaimBatch, Load, jobVars
        <3>2. \A t \in Tokens : stage'[t] \in {stage[t], "claimed", "ready"}
            BY <2>2 DEF ClaimBatch, Load, Claim
        <3> QED BY <3>1, <3>2
    <2>3. CASE Restore \/ CloseWindow \/ LeaseLost
        BY <2>3 DEF Restore, CloseWindow, LeaseLost, NoRefs, jobVars
    <2>4. ~QuotaEnds /\ ~ApplyCooldown
        BY <1>0 DEF QuotaEnds, ApplyCooldown
    <2> QED BY <1>1, <2>1, <2>2, <2>3, <2>4 DEF Run
<1>2. ASSUME NEW t \in Tokens, Work(t) PROVE NoCooldown'
    <2>1. ~(stage[t] = "refused") /\ t \in DOMAIN stage
        BY DEF Typed, StageTypes
    <2>2. UNCHANGED <<cooling, quota>> /\ failure' # "quota"
        BY <1>2, <1>0, <2>1
        DEF Work, StartItem, Download, Begin, Save, MarkObject, InsertRow, MarkIndex, Validate,
            Commit, Undo, UndoRow, Drop, DropRow, Note, Settle, MarkFailed, First, jobVars,
            loopVars
    <2>3. \/ stage' = NoRefs
          \/ \E s \in Stages \ {"refused"} : stage' = [stage EXCEPT ![t] = s]
        <3>1. CASE StartItem(t) \/ Download(t) \/ Begin(t) \/ Save(t) \/ MarkObject(t)
            BY <1>0, <3>1 DEF StartItem, Download, Begin, Save, MarkObject, To, Stages
        <3>2. CASE \/ InsertRow(t) \/ MarkIndex(t) \/ Validate(t) \/ Commit(t) \/ Undo(t)
                   \/ UndoRow(t)
            BY <3>2 DEF InsertRow, MarkIndex, Validate, Commit, Undo, UndoRow, To, Stages
        <3>3. CASE Drop(t) \/ DropRow(t) \/ Note(t) \/ Settle(t) \/ MarkFailed(t)
            BY <2>1, <3>3 DEF Drop, DropRow, Note, Settle, MarkFailed, To, Stages
        <3> QED BY <1>2, <3>1, <3>2, <3>3 DEF Work
    <2>4. \A u \in Tokens : stage'[u] # "refused"
        BY <2>3 DEF NoRefs, Typed, StageTypes
    <2> QED BY <2>2, <2>4
<1>3. CASE Heartbeat \/ ClaimWrites \/ CooldownEnds \/ RecoverJob \/ User \/ StopRun
    <2>1. CASE Heartbeat \/ ClaimWrites \/ CooldownEnds \/ StopRun
        <3>1. /\ stage' = stage /\ failure' = failure
              /\ ~cooling' /\ ~quota'
            <4>1. CASE Heartbeat
                BY <4>1 DEF Heartbeat, jobVars, workVars
            <4>2. CASE ClaimWrites
                BY <4>2 DEF ClaimWrites, jobVars, loopVars, workVars
            <4>3. CASE CooldownEnds
                BY <4>3 DEF CooldownEnds, loopVars, workVars
            <4>4. CASE StopRun
                BY <4>4 DEF StopRun, jobVars, workVars
            <4> QED BY <2>1, <4>1, <4>2, <4>3, <4>4
        <3> QED BY <3>1
    <2>2. CASE RecoverJob
        BY <2>2
        DEF RecoverJob, WritesDone, Repair, Uncool, Release, Start, jobVars, loopVars, workVars
    <2>3. CASE User
        BY <2>3 DEF User, Pause, Resume, Cancel, Retry, loopVars, workVars
    <2> QED BY <1>3, <2>1, <2>2, <2>3
<1>4. CASE \E i \in Items : LeaseLapses(i) \/ JournalLeaseLapses(i) \/ Recover(i)
    BY <1>4
    DEF LeaseLapses, JournalLeaseLapses, Recover, Decide, DeleteObject, StillMine, DeleteRow,
        CloseWrite, jobVars, loopVars, workVars
<1>5. CASE AccountCools \/ Crash \/ UNCHANGED vars
    BY <1>0, <1>5 DEF AccountCools, Crash, NoRefs, vars, jobVars, loopVars, workVars
<1> QED BY <1>1, <1>2, <1>3, <1>4, <1>5 DEF Next

LEMMA HoldersKept ==
    ASSUME UNCHANGED item, HoldersOwn, NEW t \in Refs
    PROVE  Owns(t)'
BY DEF HoldersOwn, Owns

LEMMA HoldersOwnStep ==
    ASSUME Typed, NoCooldown, HoldersOwn, RefsPhase, WorkerLeases, ItemsMove, StageMove,
           [Next]_vars
    PROVE  HoldersOwn'
<1> SUFFICES ASSUME NEW t \in Tokens, stage'[t] # "none" PROVE Owns(t)'
    BY DEF HoldersOwn, Refs
<1>1. CASE StartsWork(t)
    <2>1. ItemMoves(t[1])
        BY TokenParts DEF ItemsMove
    <2> QED BY <1>1 DEF StartsWork, Taken, Owns
<1>2. CASE t \in Refs
    <2>1. /\ item[t[1]].status = "downloading" /\ item[t[1]].token = t[2] /\ Owns(t)
          /\ t[1] \in Items /\ ~item[t[1]].lapsed
        BY <1>2, TokenParts DEF HoldersOwn, Owns, WorkerLeases
    <2>2. CASE Run
        <3>1. CASE \/ Await \/ OpenWindow \/ RefuseWindow \/ CloseWindow \/ LeaseLost
                   \/ RunFails \/ Tally \/ Finalize
            BY <1>2, <3>1, HoldersKept
            DEF Await, OpenWindow, RefuseWindow, CloseWindow, LeaseLost, RunFails, Tally,
                Finalize, itemVars
        <3>2. CASE ClaimBatch \/ Load
            <4>1. CASE UNCHANGED item
                BY <1>2, <4>1, HoldersKept
            <4>2. ASSUME NEW n, NEW as, Claim(n, as) PROVE Owns(t)'
                <5>1. PICK S \in SUBSET Claimable :
                          item' = [i \in Items |-> IF i \in S THEN Leased("downloading", given'[i])
                                                   ELSE item[i]]
                    BY <4>2 DEF Claim
                <5>2. t[1] \notin S
                    BY <2>1 DEF Claimable
                <5> QED BY <2>1, <5>1, <5>2 DEF Owns
            <4> QED BY <3>2, <4>1, <4>2 DEF ClaimBatch, Load, itemVars
        <3>3. ~Restore /\ ~QuotaEnds /\ ~ApplyCooldown
            BY DEF Restore, QuotaEnds, ApplyCooldown, NoRefs, NoCooldown, JobState
        <3> QED BY <2>2, <3>1, <3>2, <3>3 DEF Run
    <2>3. ASSUME NEW u \in Tokens, Work(u) PROVE Owns(t)'
        <3>1. CASE UNCHANGED item
            BY <1>2, <3>1, HoldersKept
        <3>2. ASSUME NEW r, Owns(u), To(u, "none"), item' = [item EXCEPT ![u[1]] = r]
              PROVE  Owns(t)'
            <4>1. u # t
                BY <3>2 DEF To, Typed, StageTypes
            <4>2. u[1] # t[1]
                BY <2>1, <3>2, <4>1, OneOwner
            <4>3. item'[t[1]] = item[t[1]]
                BY <3>2, <4>2 DEF Typed, ItemTypes
            <4> QED BY <2>1, <4>3 DEF Owns
        <3>3. CASE Commit(u) \/ Settle(u) \/ MarkFailed(u)
            BY <3>1, <3>2, <3>3 DEF Commit, Settle, MarkFailed, Settles
        <3> QED BY <2>3, <3>1, <3>3
            DEF Work, StartItem, Download, Begin, Save, MarkObject, InsertRow, MarkIndex, Validate,
                Undo, UndoRow, Drop, DropRow, Note, itemVars
    <2>4. CASE Heartbeat \/ Repair \/ Release \/ StopRun \/ Retry
        <3>1. item'[t[1]].status = "downloading" /\ item'[t[1]].token = t[2]
            <4>1. item[t[1]] \in ItemRecord
                BY <2>1, ItemFields
            <4>2. CASE UNCHANGED item
                BY <2>1, <4>2
            <4>3. CASE Heartbeat
                <5>1. \/ item'[t[1]] = item[t[1]] \/ UNCHANGED item
                      \/ item'[t[1]] = [item[t[1]] EXCEPT !.lapsed = FALSE]
                    BY <2>1, <4>3 DEF Heartbeat
                <5> QED BY ONLY <2>1, <4>1, <4>2, <5>1 DEF ItemRecord
            <4>4. CASE Repair
                BY <2>1, <4>1, <4>2, <4>4 DEF Repair
            <4>5. CASE Release \/ StopRun \/ Retry
                BY <2>1, <4>1, <4>5 DEF Release, StopRun, Retry
            <4> QED BY <2>4, <4>3, <4>4, <4>5
        <3> QED BY <3>1 DEF Owns
    <2>5. ASSUME NEW i \in Items, LeaseLapses(i) PROVE Owns(t)'
        <3>1. item'[t[1]].status = "downloading" /\ item'[t[1]].token = t[2]
            BY <2>1, <2>5, ItemFields DEF LeaseLapses, Typed, ItemTypes, ItemRecord
        <3> QED BY <3>1 DEF Owns
    <2>6. CASE \/ ClaimWrites \/ AccountCools \/ CooldownEnds \/ Crash \/ WritesDone \/ Uncool
               \/ Start \/ Pause \/ Resume \/ Cancel \/ UNCHANGED vars
        BY <1>2, <2>6, HoldersKept
        DEF ClaimWrites, AccountCools, CooldownEnds, Crash, WritesDone, Uncool, Start, Pause,
            Resume, Cancel, vars, itemVars
    <2>7. CASE \E i \in Items : JournalLeaseLapses(i) \/ Recover(i)
        BY <1>2, <2>7, HoldersKept
        DEF JournalLeaseLapses, Recover, Decide, DeleteObject, StillMine, DeleteRow, CloseWrite,
            itemVars
    <2> QED BY <2>2, <2>3, <2>4, <2>5, <2>6, <2>7 DEF Next, RecoverJob, User
<1>3. StageMoves(t)
    BY DEF StageMove
<1> QED BY <1>1, <1>2, <1>3 DEF StageMoves, GoesOn, Refs

-----------------------------------------------------------------------------
(* What the journal, a claim and a worker come to believe of an object and *)
(* of its row in files, and on what ground.                                *)

Writes == {"begun", "saved", "marked", "indexed", "written", "valid", "undo", "unrow", "drop",
           "unindex", "note"}

(* The worker of the write, or the pass that has claimed it, says so.      *)
Confirms(i, what) ==
    \/ \E t \in Tokens :
          /\ t[1] = i /\ t[2] = journal[i].op /\ what \in gone[t]
          /\ stage[t] \in {"note", "refused"} /\ stage'[t] \notin Writes
    \/ /\ claim[i].at = "close" /\ claim[i].op = journal[i].op
       /\ \/ what = "object" /\ claim[i].object = "deleted"
          \/ what = "index" /\ claim[i].index = "deleted"

NewRow(i) ==
    Begun(i) /\ journal'[i].object = "unknown" /\ journal'[i].index = "unknown"

OldRow(i) ==
    /\ journal'[i].op = journal[i].op
    /\ journal'[i].object = "deleted" => journal[i].object = "deleted" \/ Confirms(i, "object")
    /\ journal'[i].index = "deleted" => journal[i].index = "deleted" \/ Confirms(i, "index")
    /\ journal'[i].state = "undone" =>
          \/ journal[i].state = "undone"
          \/ journal'[i].object = "deleted" /\ journal'[i].index = "deleted"
    /\ journal'[i].state = "operator" =>
          journal[i].state = "operator" \/ (claim[i].at # "idle" /\ claim[i].op = journal[i].op)

Evid(i) == NewRow(i) \/ OldRow(i)

LEMMA EvidKept ==
    ASSUME NEW i \in Items, journal'[i] = journal[i]
    PROVE  Evid(i)
BY DEF Evid, OldRow

(* The row of one item changes.                                            *)
LEMMA EvidRow ==
    ASSUME Typed, NEW k \in Items, NEW r \in JournalRecord, journal' = [journal EXCEPT ![k] = r],
           journal'[k] = r => Evid(k)
    PROVE  \A i \in Items : Evid(i)
<1>1. journal'[k] = r /\ \A i \in Items \ {k} : journal'[i] = journal[i]
    BY DEF Typed
<1> QED BY <1>1, EvidKept

LEMMA EvidCompensated ==
    ASSUME Typed, NEW k \in Items, NEW confirmed, Compensated(k, confirmed),
           \A what \in confirmed \cap {"object", "index"} : Confirms(k, what)
    PROVE  \A i \in Items : Evid(i)
<1> DEFINE s == IF confirmed = {"object", "index"} THEN "undone" ELSE journal[k].state
           o == Evidence("object", confirmed)
           x == Evidence("index", confirmed)
           r == [journal[k] EXCEPT !.object = o, !.index = x, !.state = s, !.leased = FALSE]
<1>1. journal' = [journal EXCEPT ![k] = r]
    BY DEF Compensated
<1>2. /\ o \in Evidences /\ x \in Evidences
      /\ o = "deleted" => Confirms(k, "object")
      /\ x = "deleted" => Confirms(k, "index")
      /\ s = "undone" => journal[k].state = "undone" \/ (o = "deleted" /\ x = "deleted")
      /\ s = "operator" => journal[k].state = "operator"
      /\ s \in {"undone", journal[k].state}
    BY DEF Evidence, Evidences
<1> HIDE DEF o, x, s
<1>3. /\ r \in JournalRecord /\ r.state = s /\ r.op = journal[k].op /\ r.object = o
      /\ r.index = x
    BY <1>2, JournalFields DEF JournalRecord
<1> HIDE DEF r
<1>4. journal'[k] = r => Evid(k)
    BY <1>2, <1>3 DEF Evid, OldRow
<1> QED BY <1>1, <1>3, <1>4, EvidRow

LEMMA EvidWork ==
    ASSUME Typed, NEW t \in Tokens, Work(t)
    PROVE  \A i \in Items : Evid(i)
<1>0. t[1] \in Items /\ t[2] \in 0..MaxClaims
    BY TokenParts
<1>1. CASE UNCHANGED journal
    BY <1>1, EvidKept
<1>2. CASE Begin(t)
    <2>1. ASSUME NEW known \in Prepares, Owns(t), ~Unresolved(t[1]), To(t, "begun"),
                 journal' = [journal EXCEPT ![t[1]] =
                     [state |-> "pending", op |-> t[2], object |-> "unknown",
                      index |-> "unknown", path |-> known, file |-> FALSE, leased |-> FALSE]]
          PROVE  \A i \in Items : Evid(i)
        <3> DEFINE r == [state |-> "pending", op |-> t[2], object |-> "unknown",
                         index |-> "unknown", path |-> known, file |-> FALSE, leased |-> FALSE]
        <3>1. /\ r \in JournalRecord /\ r.state = "pending" /\ r.op = t[2]
              /\ r.object = "unknown" /\ r.index = "unknown"
            BY <1>0, ChannelAssumption DEF JournalRecord, Evidences
        <3>2. journal' = [journal EXCEPT ![t[1]] = r]
            BY <2>1
        <3> HIDE DEF r
        <3>3. stage[t] = "permitted" /\ stage'[t] = "begun"
            BY <1>2, <2>1 DEF Begin, To, Typed, StageTypes
        <3>4. journal'[t[1]] = r => Evid(t[1])
            BY <2>1, <3>1, <3>3 DEF Evid, NewRow, Begun
        <3> QED BY <1>0, <3>1, <3>2, <3>4, EvidRow
    <2> QED BY <1>1, <1>2, <2>1 DEF Begin
<1>3. CASE MarkObject(t)
    <2> DEFINE r == [journal[t[1]] EXCEPT !.object = "present", !.path = TRUE]
    <2>1. CASE journal' = [journal EXCEPT ![t[1]] = r]
        <3>1. /\ r \in JournalRecord /\ r.state = journal[t[1]].state /\ r.op = journal[t[1]].op
              /\ r.object = "present" /\ r.index = journal[t[1]].index
            BY <1>0, JournalFields DEF JournalRecord, Evidences
        <3> HIDE DEF r
        <3>2. journal'[t[1]] = r => Evid(t[1])
            BY <3>1 DEF Evid, OldRow
        <3> QED BY <1>0, <2>1, <3>1, <3>2, EvidRow
    <2> QED BY <1>1, <1>3, <2>1 DEF MarkObject
<1>4. CASE MarkIndex(t)
    <2> DEFINE r == [journal[t[1]] EXCEPT !.index = "present", !.file = TRUE]
    <2>1. CASE journal' = [journal EXCEPT ![t[1]] = r]
        <3>1. /\ r \in JournalRecord /\ r.state = journal[t[1]].state /\ r.op = journal[t[1]].op
              /\ r.index = "present" /\ r.object = journal[t[1]].object
            BY <1>0, JournalFields DEF JournalRecord, Evidences
        <3> HIDE DEF r
        <3>2. journal'[t[1]] = r => Evid(t[1])
            BY <3>1 DEF Evid, OldRow
        <3> QED BY <1>0, <2>1, <3>1, <3>2, EvidRow
    <2> QED BY <1>1, <1>4, <2>1 DEF MarkIndex
<1>5. CASE Commit(t)
    <2> DEFINE r == [journal[t[1]] EXCEPT !.state = "committed", !.leased = FALSE]
    <2>1. CASE Resolve(t[1], "committed")
        <3>1. /\ r \in JournalRecord /\ r.state = "committed" /\ r.op = journal[t[1]].op
              /\ r.object = journal[t[1]].object /\ r.index = journal[t[1]].index
            BY <1>0, JournalFields DEF JournalRecord
        <3>2. journal' = [journal EXCEPT ![t[1]] = r]
            BY <2>1 DEF Resolve
        <3> HIDE DEF r
        <3>3. journal'[t[1]] = r => Evid(t[1])
            BY <3>1 DEF Evid, OldRow
        <3> QED BY <1>0, <3>1, <3>2, <3>3, EvidRow
    <2> QED BY <1>1, <1>5, <2>1 DEF Commit
<1>6. CASE Note(t)
    <2>1. CASE Operation(t) /\ Compensated(t[1], gone[t])
        <3>1. stage[t] \in {"note", "refused"} /\ stage'[t] \notin Writes
            BY <1>6 DEF Note, To, Writes, Typed, StageTypes
        <3>2. \A what \in gone[t] \cap {"object", "index"} : Confirms(t[1], what)
            BY <2>1, <3>1 DEF Confirms, Operation
        <3> QED BY <1>0, <2>1, <3>2, EvidCompensated
    <2> QED BY <1>1, <1>6, <2>1 DEF Note
<1> QED BY <1>1, <1>2, <1>3, <1>4, <1>5, <1>6
    DEF Work, StartItem, Download, Save, InsertRow, Validate, Undo, UndoRow, Drop, DropRow,
        Settle, MarkFailed

LEMMA EvidRecover ==
    ASSUME Typed, NEW i \in Items, Recover(i)
    PROVE  \A k \in Items : Evid(k)
<1>1. CASE UNCHANGED journal
    BY <1>1, EvidKept
<1>2. ASSUME NEW s \in {"committed", "operator"}, Mine(i), Resolve(i, s), claim[i].at = "claimed"
      PROVE  \A k \in Items : Evid(k)
    <2> DEFINE r == [journal[i] EXCEPT !.state = s, !.leased = FALSE]
    <2>1. /\ r \in JournalRecord /\ r.state = s /\ r.op = journal[i].op
          /\ r.object = journal[i].object /\ r.index = journal[i].index
        BY JournalFields DEF JournalRecord
    <2>2. journal' = [journal EXCEPT ![i] = r]
        BY <1>2 DEF Resolve
    <2> HIDE DEF r
    <2>3. claim[i].at # "idle" /\ claim[i].op = journal[i].op
        BY <1>2 DEF Mine
    <2>4. journal'[i] = r => Evid(i)
        BY <2>1, <2>3 DEF Evid, OldRow
    <2> QED BY <2>1, <2>2, <2>4, EvidRow
<1>3. CASE Decide(i)
    BY <1>1, <1>2, <1>3 DEF Decide
<1>4. CASE CloseWrite(i)
    <2> DEFINE confirmed == (IF claim[i].object = "deleted" THEN {"object"} ELSE {})
                               \cup (IF claim[i].index = "deleted" THEN {"index"} ELSE {})
    <2>1. CASE Mine(i) /\ Compensated(i, confirmed)
        <3>1. claim[i].at = "close" /\ claim[i].op = journal[i].op
            BY <1>4, <2>1 DEF CloseWrite, Mine
        <3>2. \A what \in confirmed : Confirms(i, what)
            BY <3>1 DEF Confirms
        <3> HIDE DEF confirmed
        <3> QED BY <2>1, <3>2, EvidCompensated
    <2> QED BY <1>1, <1>4, <2>1 DEF CloseWrite
<1> QED BY <1>1, <1>3, <1>4 DEF Recover, DeleteObject, StillMine, DeleteRow

LEMMA EvidStep ==
    ASSUME Typed, [Next]_vars
    PROVE  \A i \in Items : Evid(i)
<1>1. CASE UNCHANGED journal
    BY <1>1, EvidKept
<1>2. ASSUME NEW k \in Items, ClaimWrites \/ JournalLeaseLapses(k) PROVE \A i \in Items : Evid(i)
    <2>1. ASSUME NEW i \in Items
          PROVE  journal'[i] = journal[i] \/ \E b \in BOOLEAN :
                     journal'[i] = [journal[i] EXCEPT !.leased = b]
        <3>1. CASE ClaimWrites
            <4> DEFINE S == {j \in Items : /\ journal[j].state = "pending"
                                           /\ ~journal[j].leased /\ ~InProgress(j)}
            <4>1. journal' = [j \in Items |-> IF j \in S THEN [journal[j] EXCEPT !.leased = TRUE]
                                              ELSE journal[j]]
                BY <3>1 DEF ClaimWrites
            <4> HIDE DEF S
            <4> QED BY <4>1
        <3>2. CASE JournalLeaseLapses(k)
            BY <3>2 DEF JournalLeaseLapses, Typed
        <3> QED BY <1>2, <3>1, <3>2
    <2>2. ASSUME NEW i \in Items PROVE Evid(i)
        <3>1. /\ journal'[i].state = journal[i].state /\ journal'[i].op = journal[i].op
              /\ journal'[i].object = journal[i].object /\ journal'[i].index = journal[i].index
            BY <2>1, JournalFields DEF JournalRecord
        <3> QED BY <3>1 DEF Evid, OldRow
    <2> QED BY <2>2
<1>3. CASE Run \/ Heartbeat
    BY <1>1, <1>3
    DEF Run, Await, ClaimBatch, OpenWindow, RefuseWindow, Restore, Load, CloseWindow, LeaseLost,
        QuotaEnds, ApplyCooldown, RunFails, Tally, Finalize, Heartbeat
<1>4. CASE (\E i \in Items : LeaseLapses(i)) \/ AccountCools \/ CooldownEnds \/ RecoverJob
    BY <1>1, <1>4
    DEF LeaseLapses, AccountCools, CooldownEnds, RecoverJob, WritesDone, Repair, Uncool, Release,
        Start
<1>5. CASE User \/ StopRun \/ Crash \/ UNCHANGED vars
    BY <1>1, <1>5 DEF User, Pause, Resume, Cancel, Retry, StopRun, Crash, vars
<1> QED BY <1>2, <1>3, <1>4, <1>5, EvidWork, EvidRecover DEF Next

(* What a claim takes for removed was removed according to the journal row *)
(* it was read from, or was removed by the pass.                           *)
Believes(i) ==
    claim'[i].at # "idle" =>
        /\ claim'[i].object = "deleted" =>
              \/ claim'[i].op = journal[i].op /\ journal[i].object = "deleted"
              \/ /\ claim[i].at # "idle" /\ claim'[i].op = claim[i].op
                 /\ claim[i].object = "deleted"
              \/ <<i, claim'[i].op>> \notin objects'
        /\ claim'[i].index = "deleted" =>
              \/ claim'[i].op = journal[i].op /\ journal[i].index = "deleted"
              \/ /\ claim[i].at # "idle" /\ claim'[i].op = claim[i].op
                 /\ claim[i].index = "deleted"
              \/ <<i, claim'[i].op>> \notin files'

LEMMA BelievesKept ==
    ASSUME NEW i \in Items, claim'[i] = claim[i] \/ claim'[i].at = "idle"
    PROVE  Believes(i)
BY DEF Believes

LEMMA BelievesOne ==
    ASSUME Typed, NEW k \in Items, NEW r, claim' = [claim EXCEPT ![k] = r],
           claim'[k] = r => Believes(k)
    PROVE  \A i \in Items : Believes(i)
<1>1. claim'[k] = r /\ \A i \in Items \ {k} : claim'[i] = claim[i]
    BY DEF Typed
<1> QED BY <1>1, BelievesKept

LEMMA BelievesStep ==
    ASSUME Typed, [Next]_vars
    PROVE  \A i \in Items : Believes(i)
<1>1. CASE UNCHANGED claim
    BY <1>1, BelievesKept
<1>2. CASE ClaimWrites
    <2> DEFINE S == {i \in Items : /\ journal[i].state = "pending"
                                   /\ ~journal[i].leased /\ ~InProgress(i)}
               new(i) == [at |-> "claimed", object |-> journal[i].object,
                          index |-> journal[i].index, path |-> journal[i].path,
                          file |-> journal[i].file, op |-> journal[i].op,
                          success |-> item[i].status = "success"]
    <2>1. claim' = [i \in Items |-> IF i \in S THEN new(i) ELSE Idle]
        BY <1>2 DEF ClaimWrites
    <2>2. \A i \in S : /\ claim'[i].op = journal[i].op /\ claim'[i].object = journal[i].object
                       /\ claim'[i].index = journal[i].index
        BY <2>1
    <2>3. \A i \in Items \ S : claim'[i].at = "idle"
        BY <2>1, IdleType
    <2> HIDE DEF S, new
    <2> QED BY <2>2, <2>3 DEF Believes
<1>3. ASSUME NEW k \in Items, Recover(k) PROVE \A i \in Items : Believes(i)
    <2>0. claim[k] \in ClaimRecord /\ claim[k].at # "idle"
        BY <1>3, ClaimFields
        DEF Recover, Decide, DeleteObject, StillMine, DeleteRow, CloseWrite
    <2>1. ASSUME Leave(k) PROVE \A i \in Items : Believes(i)
        BY <2>1, IdleType, BelievesOne DEF Leave, Believes
    <2>2. ASSUME NEW s, Go(k, s) PROVE \A i \in Items : Believes(i)
        <3> DEFINE r == [claim[k] EXCEPT !.at = s]
        <3>1. r.op = claim[k].op /\ r.object = claim[k].object /\ r.index = claim[k].index
            BY <2>0 DEF ClaimRecord
        <3>2. claim' = [claim EXCEPT ![k] = r]
            BY <2>2 DEF Go
        <3> HIDE DEF r
        <3> QED BY <2>0, <3>1, <3>2, BelievesOne DEF Believes
    <2>3. ASSUME NEW s, Found(k, "object", s), s = "deleted" => <<k, claim[k].op>> \notin objects'
          PROVE  \A i \in Items : Believes(i)
        <3> DEFINE r == [claim[k] EXCEPT !.object = s, !.at = "check"]
        <3>1. r.op = claim[k].op /\ r.object = s /\ r.index = claim[k].index
            BY <2>0 DEF ClaimRecord
        <3>2. claim' = [claim EXCEPT ![k] = r]
            BY <2>3 DEF Found
        <3> HIDE DEF r
        <3> QED BY <2>0, <2>3, <3>1, <3>2, BelievesOne DEF Believes
    <2>4. ASSUME NEW s, Found(k, "index", s), s = "deleted" => <<k, claim[k].op>> \notin files'
          PROVE  \A i \in Items : Believes(i)
        <3> DEFINE r == [claim[k] EXCEPT !.index = s, !.at = "close"]
        <3>1. r.op = claim[k].op /\ r.object = claim[k].object /\ r.index = s
            BY <2>0 DEF ClaimRecord
        <3>2. claim' = [claim EXCEPT ![k] = r]
            BY <2>4 DEF Found
        <3> HIDE DEF r
        <3> QED BY <2>0, <2>4, <3>1, <3>2, BelievesOne DEF Believes
    <2>5. CASE Decide(k) \/ CloseWrite(k) \/ StillMine(k)
        BY <2>1, <2>2, <2>5 DEF Decide, CloseWrite, StillMine
    <2>6. CASE DeleteObject(k)
        BY <2>2, <2>3, <2>6 DEF DeleteObject
    <2>7. CASE DeleteRow(k)
        BY <2>2, <2>4, <2>7 DEF DeleteRow
    <2> QED BY <1>3, <2>5, <2>6, <2>7 DEF Recover
<1>4. CASE Crash
    BY <1>4, IdleType, BelievesKept DEF Crash
<1>5. CASE Run \/ Heartbeat
    BY <1>1, <1>5
    DEF Run, Await, ClaimBatch, OpenWindow, RefuseWindow, Restore, Load, CloseWindow, LeaseLost,
        QuotaEnds, ApplyCooldown, RunFails, Tally, Finalize, Heartbeat, passVars
<1>6. ASSUME NEW t \in Tokens, Work(t) PROVE UNCHANGED claim
    BY <1>6
    DEF Work, StartItem, Download, Begin, Save, MarkObject, InsertRow, MarkIndex, Validate,
        Commit, Undo, UndoRow, Drop, DropRow, Note, Settle, MarkFailed, passVars
<1>7. CASE AccountCools \/ CooldownEnds \/ RecoverJob \/ User \/ StopRun \/ UNCHANGED vars
    BY <1>1, <1>7
    DEF AccountCools, CooldownEnds, RecoverJob, WritesDone, Repair, Uncool, Release, Start, User,
        Pause, Resume, Cancel, Retry, StopRun, passVars, vars
<1>8. CASE \E i \in Items : LeaseLapses(i) \/ JournalLeaseLapses(i)
    BY <1>1, <1>8 DEF LeaseLapses, JournalLeaseLapses, passVars
<1> QED BY <1>1, <1>2, <1>3, <1>4, <1>5, <1>6, <1>7, <1>8 DEF Next

(* What a worker takes for removed it never stored, or has removed.        *)
Fresh == {"begun", "saved", "marked"}

GoneMoves(t) ==
    \/ gone'[t] = {}
    \/ gone'[t] = gone[t] /\ stage'[t] = stage[t]
    \/ gone'[t] = gone[t] /\ stage[t] \notin {"undo", "unrow", "note", "refused"}
    \/ /\ gone'[t] = {"index"} /\ stage[t] \in Fresh
       /\ stage'[t] \in {"undo", "note", "refused"} /\ (t \in files' => t \in files)
    \/ /\ stage[t] = "undo" /\ stage'[t] = (IF "index" \in gone[t] THEN "note" ELSE "unrow")
       /\ \/ gone'[t] = gone[t]
          \/ gone'[t] = gone[t] \cup {"object"} /\ t \notin objects'
    \/ /\ stage[t] = "unrow" /\ stage'[t] = "note"
       /\ \/ gone'[t] = gone[t]
          \/ gone'[t] = gone[t] \cup {"index"} /\ t \notin files'
    \/ /\ stage[t] = "unindex" /\ stage'[t] = "note"
       /\ (t \in objects' => t \in objects) /\ t \notin files'

(* How a worker comes to write.                                            *)
WriteMoves(t) ==
    /\ stage'[t] \in Writes => \/ stage[t] \in Writes
                               \/ /\ stage[t] = "permitted" /\ stage'[t] = "begun"
                                  /\ NewRow(t[1]) /\ journal'[t[1]].op = t[2]
    /\ stage'[t] \in Fresh => stage[t] \in Fresh \cup {"permitted"}
    /\ stage'[t] = "unindex" => stage[t] = "unindex" \/ t \notin objects'

WorkerMoves(t) == GoneMoves(t) /\ WriteMoves(t)

LEMMA WorkerKept ==
    ASSUME UNCHANGED workVars, NEW t \in Tokens
    PROVE  WorkerMoves(t)
BY DEF workVars, WorkerMoves, GoneMoves, WriteMoves

LEMMA WorkerOne ==
    ASSUME NEW t \in Tokens, WorkerMoves(t),
           \A u \in Tokens \ {t} : stage'[u] = stage[u] /\ gone'[u] = gone[u]
    PROVE  \A u \in Tokens : WorkerMoves(u)
<1>1. \A u \in Tokens \ {t} : WorkerMoves(u)
    BY DEF WorkerMoves, GoneMoves, WriteMoves
<1> QED BY <1>1

LEMMA WorkerStays ==
    ASSUME Typed, NEW t \in Tokens, NEW s \in Stages, To(t, s), UNCHANGED gone,
           stage'[t] = s /\ gone'[t] = gone[t] => WorkerMoves(t)
    PROVE  \A u \in Tokens : WorkerMoves(u)
<1>1. stage'[t] = s /\ \A u \in Tokens \ {t} : stage'[u] = stage[u] /\ gone'[u] = gone[u]
    BY DEF To, Typed, StageTypes
<1>2. WorkerMoves(t)
    BY <1>1
<1> QED BY <1>1, <1>2, WorkerOne

LEMMA WorkerNotes ==
    ASSUME Typed, NEW t \in Tokens, NEW s \in Stages, To(t, s), NEW w, Removed(t, w),
           stage'[t] = s /\ gone'[t] = w => WorkerMoves(t)
    PROVE  \A u \in Tokens : WorkerMoves(u)
<1>1. /\ stage'[t] = s /\ gone'[t] = w
      /\ \A u \in Tokens \ {t} : stage'[u] = stage[u] /\ gone'[u] = gone[u]
    BY DEF To, Removed, Typed, StageTypes
<1>2. WorkerMoves(t)
    BY <1>1
<1> QED BY <1>1, <1>2, WorkerOne

LEMMA WorkerRests ==
    ASSUME Typed, stage' = NoRefs, gone' = [t \in Tokens |-> {}] \/ (gone' = gone /\ Working = {})
    PROVE  \A t \in Tokens : WorkerMoves(t)
<1> SUFFICES ASSUME NEW t \in Tokens PROVE WorkerMoves(t)
    OBVIOUS
<1>1. stage'[t] = "none"
    BY DEF NoRefs
<1>2. WriteMoves(t)
    BY <1>1 DEF WriteMoves, Writes, Fresh
<1>3. Working = {} => stage[t] \in {"none", "claimed", "left"}
    BY DEF Working
<1>4. GoneMoves(t)
    BY <1>3 DEF GoneMoves
<1> QED BY <1>2, <1>4 DEF WorkerMoves

LEMMA WorkerWork ==
    ASSUME Typed, WorkingPhase, NEW t \in Tokens, Work(t)
    PROVE  \A u \in Tokens : WorkerMoves(u)
<1>0. gone[t] \in SUBSET {"object", "index"} /\ t[1] \in Items /\ t[2] \in 0..MaxClaims
    BY GoneFields, TokenParts
<1>1. CASE StartItem(t) \/ Download(t) \/ Settle(t)
    <2>1. PICK s \in {"download", "skip", "left", "permitted", "duplicate", "fail", "none", "again"} :
              /\ To(t, s) /\ UNCHANGED gone
              /\ stage[t] \in {"ready", "download", "skip", "duplicate", "fail", "again"}
        BY <1>1 DEF StartItem, Download, Settle
    <2>2. s \in Stages /\ (stage'[t] = s /\ gone'[t] = gone[t] => WorkerMoves(t))
        BY <2>1 DEF Stages, WorkerMoves, GoneMoves, WriteMoves, Writes, Fresh
    <2> QED BY <1>0, <2>1, <2>2, WorkerStays
<1>2. CASE Begin(t)
    <2>1. CASE To(t, "fail")
        <3>1. stage[t] = "permitted" /\ UNCHANGED gone
            BY <1>2 DEF Begin
        <3>2. "fail" \in Stages /\ (stage'[t] = "fail" /\ gone'[t] = gone[t] => WorkerMoves(t))
            BY <3>1 DEF Stages, WorkerMoves, GoneMoves, WriteMoves, Writes, Fresh
        <3> QED BY <1>0, <2>1, <3>1, <3>2, WorkerStays
    <2>2. ASSUME NEW known \in Prepares, Owns(t), ~Unresolved(t[1]), To(t, "begun"),
                 journal' = [journal EXCEPT ![t[1]] =
                     [state |-> "pending", op |-> t[2], object |-> "unknown",
                      index |-> "unknown", path |-> known, file |-> FALSE, leased |-> FALSE]]
          PROVE  \A u \in Tokens : WorkerMoves(u)
        <3>1. /\ journal'[t[1]].state = "pending" /\ journal'[t[1]].op = t[2]
              /\ journal'[t[1]].object = "unknown" /\ journal'[t[1]].index = "unknown"
            BY <1>0, <2>2 DEF Typed
        <3>2. stage[t] = "permitted" /\ UNCHANGED gone
            BY <1>2 DEF Begin
        <3>3. stage'[t] = "begun" => NewRow(t[1])
            BY <2>2, <3>1, <3>2 DEF NewRow, Begun
        <3>4. "begun" \in Stages /\ (stage'[t] = "begun" /\ gone'[t] = gone[t] => WorkerMoves(t))
            BY <3>1, <3>2, <3>3 DEF Stages, WorkerMoves, GoneMoves, WriteMoves, Writes, Fresh
        <3> QED BY <1>0, <2>2, <3>2, <3>4, WorkerStays
    <2> QED BY <1>2, <2>1, <2>2 DEF Begin
<1>3. CASE Save(t) \/ MarkObject(t) \/ InsertRow(t)
    <2>1. \/ /\ UNCHANGED gone
             /\ \/ stage[t] = "begun" /\ To(t, "saved")
                \/ stage[t] = "saved" /\ To(t, "marked")
                \/ stage[t] = "marked" /\ To(t, "indexed")
          \/ /\ Removed(t, {"index"}) /\ stage[t] \in Fresh /\ files' = files
             /\ To(t, "note") \/ To(t, "refused") \/ To(t, "undo")
        BY <1>3 DEF Save, MarkObject, InsertRow, Fresh, storeVars
    <2>2. ASSUME NEW s \in {"saved", "marked", "indexed"}, To(t, s), UNCHANGED gone,
                 stage[t] \in Fresh
          PROVE  \A u \in Tokens : WorkerMoves(u)
        <3>1. s \in Stages /\ (stage'[t] = s /\ gone'[t] = gone[t] => WorkerMoves(t))
            BY <2>2 DEF Stages, WorkerMoves, GoneMoves, WriteMoves, Writes, Fresh
        <3> QED BY <1>0, <2>2, <3>1, WorkerStays
    <2>3. ASSUME NEW s \in {"note", "refused", "undo"}, To(t, s), Removed(t, {"index"}),
                 stage[t] \in Fresh, files' = files
          PROVE  \A u \in Tokens : WorkerMoves(u)
        <3>1. s \in Stages /\ (stage'[t] = s /\ gone'[t] = {"index"} => WorkerMoves(t))
            BY <2>3 DEF Stages, WorkerMoves, GoneMoves, WriteMoves, Writes, Fresh
        <3> QED BY <2>3, <3>1, WorkerNotes
    <2> QED BY <2>1, <2>2, <2>3 DEF Fresh
<1>4. CASE MarkIndex(t) \/ Validate(t) \/ Commit(t)
    <2>1. PICK s \in {"written", "undo", "valid", "drop", "none"} :
              /\ To(t, s) /\ (UNCHANGED gone \/ Removed(t, {}))
              /\ stage[t] \in {"indexed", "written", "valid"}
        BY <1>4 DEF MarkIndex, Validate, Commit
    <2>2. /\ s \in Stages
          /\ stage'[t] = s /\ gone'[t] = gone[t] => WorkerMoves(t)
          /\ stage'[t] = s /\ gone'[t] = {} => WorkerMoves(t)
        BY <2>1 DEF Stages, WorkerMoves, GoneMoves, WriteMoves, Writes, Fresh
    <2>3. CASE UNCHANGED gone
        BY <2>1, <2>2, <2>3, WorkerStays
    <2>4. CASE Removed(t, {})
        BY <2>1, <2>2, <2>4, WorkerNotes
    <2> QED BY <2>1, <2>3, <2>4
<1>5. CASE Undo(t)
    <2> DEFINE s == IF "index" \in gone[t] THEN "note" ELSE "unrow"
               w == gone[t] \cup {"object"}
    <2>1. /\ To(t, s) /\ stage[t] = "undo" /\ s \in Stages
          /\ UNCHANGED gone \/ (Removed(t, w) /\ t \notin objects')
        BY <1>0, <1>5 DEF Undo, Stages
    <2>2. stage'[t] = s => WriteMoves(t)
        BY <2>1 DEF WriteMoves, Writes, Fresh
    <2>3. CASE UNCHANGED gone
        <3>1. stage'[t] = s /\ gone'[t] = gone[t] => GoneMoves(t)
            BY <2>1 DEF GoneMoves
        <3> QED BY <2>1, <2>2, <2>3, <3>1, WorkerStays DEF WorkerMoves
    <2>4. CASE Removed(t, w) /\ t \notin objects'
        <3>1. stage'[t] = s /\ gone'[t] = w => GoneMoves(t)
            BY <2>1, <2>4 DEF GoneMoves
        <3> HIDE DEF s, w
        <3> QED BY <2>1, <2>2, <2>4, <3>1, WorkerNotes DEF WorkerMoves
    <2> QED BY <2>1, <2>3, <2>4
<1>6. CASE UndoRow(t)
    <2> DEFINE w == gone[t] \cup {"index"}
    <2>1. /\ To(t, "note") /\ stage[t] = "unrow" /\ "note" \in Stages
          /\ UNCHANGED gone \/ (Removed(t, w) /\ t \notin files')
        BY <1>0, <1>6 DEF UndoRow, Stages
    <2>2. stage'[t] = "note" => WriteMoves(t)
        BY <2>1 DEF WriteMoves, Writes, Fresh
    <2>3. CASE UNCHANGED gone
        <3>1. stage'[t] = "note" /\ gone'[t] = gone[t] => GoneMoves(t)
            BY <2>1 DEF GoneMoves
        <3> QED BY <2>1, <2>2, <2>3, <3>1, WorkerStays DEF WorkerMoves
    <2>4. CASE Removed(t, w) /\ t \notin files'
        <3>1. stage'[t] = "note" /\ gone'[t] = w => GoneMoves(t)
            BY <2>1, <2>4 DEF GoneMoves
        <3> HIDE DEF w
        <3> QED BY <2>1, <2>2, <2>4, <3>1, WorkerNotes DEF WorkerMoves
    <2> QED BY <2>1, <2>3, <2>4
<1>7. CASE Drop(t)
    <2>1. PICK s \in {"unindex", "note"} :
              /\ To(t, s) /\ stage[t] = "drop" /\ (s = "unindex" => t \notin objects')
              /\ UNCHANGED gone \/ Removed(t, {})
        BY <1>7 DEF Drop
    <2>2. /\ s \in Stages
          /\ stage'[t] = s /\ gone'[t] = gone[t] => WorkerMoves(t)
          /\ stage'[t] = s /\ gone'[t] = {} => WorkerMoves(t)
        BY <2>1 DEF Stages, WorkerMoves, GoneMoves, WriteMoves, Writes, Fresh
    <2>3. CASE UNCHANGED gone
        BY <2>1, <2>2, <2>3, WorkerStays
    <2>4. CASE Removed(t, {})
        BY <2>1, <2>2, <2>4, WorkerNotes
    <2> QED BY <2>1, <2>3, <2>4
<1>8. CASE DropRow(t)
    <2>1. /\ To(t, "note") /\ stage[t] = "unindex" /\ "note" \in Stages /\ objects' = objects
          /\ Removed(t, {}) \/ (Removed(t, {"object", "index"}) /\ t \notin files')
        BY <1>8 DEF DropRow, Stages
    <2>2. stage'[t] = "note" => WriteMoves(t)
        BY <2>1 DEF WriteMoves, Writes, Fresh
    <2>3. CASE Removed(t, {})
        <3>1. gone'[t] = {} => GoneMoves(t)
            BY DEF GoneMoves
        <3> QED BY <2>1, <2>2, <2>3, <3>1, WorkerNotes DEF WorkerMoves
    <2>4. CASE Removed(t, {"object", "index"}) /\ t \notin files'
        <3>1. stage'[t] = "note" => GoneMoves(t)
            BY <2>1, <2>4 DEF GoneMoves
        <3> QED BY <2>1, <2>2, <2>4, <3>1, WorkerNotes DEF WorkerMoves
    <2> QED BY <2>1, <2>3, <2>4
<1>9. CASE Note(t)
    <2>1. PICK s \in {"left", "fail"} : To(t, s) /\ Removed(t, {})
        BY <1>9 DEF Note
    <2>2. s \in Stages /\ (stage'[t] = s /\ gone'[t] = {} => WorkerMoves(t))
        BY <2>1 DEF Stages, WorkerMoves, GoneMoves, WriteMoves, Writes, Fresh
    <2> QED BY <2>1, <2>2, WorkerNotes
<1>10. CASE MarkFailed(t)
    <2>1. Working = {} /\ UNCHANGED gone /\ stage[t] \in {"claimed", "left"}
        BY <1>10 DEF MarkFailed, WindowEnds, Working
    <2>2. CASE To(t, "none")
        <3>1. "none" \in Stages /\ (stage'[t] = "none" /\ gone'[t] = gone[t] => WorkerMoves(t))
            BY <2>1 DEF Stages, WorkerMoves, GoneMoves, WriteMoves, Writes, Fresh
        <3> QED BY <1>0, <2>1, <2>2, <3>1, WorkerStays
    <2> QED BY <1>10, <2>1, <2>2, WorkerRests DEF MarkFailed
<1> QED BY <1>1, <1>2, <1>3, <1>4, <1>5, <1>6, <1>7, <1>8, <1>9, <1>10 DEF Work

LEMMA WorkerStep ==
    ASSUME Typed, WorkingPhase, WorkerLeases, StageMove, [Next]_vars
    PROVE  \A t \in Tokens : WorkerMoves(t)
<1>1. CASE Run
    <2>1. CASE \/ Await \/ OpenWindow \/ RefuseWindow \/ ApplyCooldown \/ RunFails \/ Tally
               \/ Finalize
        BY <2>1, WorkerKept
        DEF Await, OpenWindow, RefuseWindow, ApplyCooldown, RunFails, Tally, Finalize
    <2>2. CASE ClaimBatch \/ Load
        <3>1. UNCHANGED gone /\ \A t \in Tokens : stage'[t] \in {stage[t], "claimed", "ready"}
            BY <2>2 DEF ClaimBatch, Load, Claim
        <3>2. ASSUME NEW t \in Tokens, stage'[t] \in {"claimed", "ready"}, stage'[t] # stage[t]
              PROVE  stage[t] \notin {"undo", "unrow", "note", "refused"}
            <4>1. StageMoves(t)
                BY DEF StageMove
            <4>2. CASE StartsWork(t)
                <5>1. t[2] = given[t[1]] + 1 /\ t[2] \in Nat /\ given[t[1]] \in Nat
                    BY <4>2, TokenFields DEF StartsWork
                <5>2. t \notin Refs
                    BY <5>1 DEF WorkerLeases
                <5> QED BY <5>2 DEF Refs
            <4> QED BY <3>2, <4>1, <4>2 DEF StageMoves, GoesOn, Early
        <3>3. ASSUME NEW t \in Tokens PROVE WorkerMoves(t)
            <4>1. stage'[t] \in {stage[t], "claimed", "ready"} /\ gone'[t] = gone[t]
                BY <3>1
            <4>2. GoneMoves(t)
                BY <3>2, <4>1 DEF GoneMoves
            <4>3. WriteMoves(t)
                BY <4>1 DEF WriteMoves, Writes, Fresh
            <4> QED BY <4>2, <4>3 DEF WorkerMoves
        <3> QED BY <3>3
    <2>3. CASE Restore \/ CloseWindow \/ LeaseLost \/ QuotaEnds
        <3>1. gone' = gone /\ Working = {}
            BY <2>3
            DEF Restore, CloseWindow, LeaseLost, QuotaEnds, WindowEnds, WorkingPhase
        <3>2. stage' = NoRefs \/ UNCHANGED workVars
            BY <2>3 DEF Restore, CloseWindow, LeaseLost, QuotaEnds, workVars
        <3> QED BY <3>1, <3>2, WorkerRests, WorkerKept
    <2> QED BY <1>1, <2>1, <2>2, <2>3 DEF Run
<1>2. CASE Crash
    BY <1>2, WorkerRests DEF Crash
<1>3. CASE \/ Heartbeat \/ AccountCools \/ CooldownEnds \/ ClaimWrites
           \/ \E i \in Items : LeaseLapses(i) \/ JournalLeaseLapses(i) \/ Recover(i)
    BY <1>3, WorkerKept
    DEF Heartbeat, AccountCools, CooldownEnds, ClaimWrites, LeaseLapses, JournalLeaseLapses,
        Recover, Decide, DeleteObject, StillMine, DeleteRow, CloseWrite
<1>4. CASE RecoverJob \/ User \/ StopRun \/ UNCHANGED vars
    BY <1>4, WorkerKept
    DEF RecoverJob, WritesDone, Repair, Uncool, Release, Start, User, Pause, Resume, Cancel,
        Retry, StopRun, vars
<1> QED BY <1>1, <1>2, <1>3, <1>4, WorkerWork DEF Next

(* Whatever is stored belongs to the write its journal row is about.       *)
StoredKnown ==
    \A t \in objects \cup files :
        journal[t[1]].op = t[2] /\ journal[t[1]].state \notin {"none", "undone"}

(* The row of a write stays open while a worker is busy with it, and takes *)
(* nothing of it for removed.                                              *)
Busy(t) ==
    /\ journal[t[1]].op = t[2] /\ Unresolved(t[1])
    /\ journal[t[1]].object # "deleted" /\ journal[t[1]].index # "deleted"

NotClaimed(t) == claim[t[1]].at = "idle" \/ claim[t[1]].op # t[2]

WritesBusy == \A t \in Tokens : stage[t] \in Writes => Busy(t)

(* A row of files comes after the object; what is taken for removed is not *)
(* there, by the worker, by the journal and by the recovery pass.          *)
NotIndexed == \A t \in Tokens : stage[t] \in Fresh => t \notin files
Unindexing == \A t \in Tokens : stage[t] = "unindex" => t \notin objects

GoneTrue ==
    \A t \in Tokens :
        /\ "object" \in gone[t] => t \notin objects /\ stage[t] \in {"unrow", "note"}
        /\ "index" \in gone[t] => t \notin files /\ stage[t] \in {"undo", "note"}

RowsTrue ==
    \A t \in Tokens : journal[t[1]].op = t[2] =>
        /\ journal[t[1]].object = "deleted" => t \notin objects
        /\ journal[t[1]].index = "deleted" => t \notin files

ClaimsTrue ==
    \A t \in Tokens : claim[t[1]].at # "idle" /\ claim[t[1]].op = t[2] =>
        /\ claim[t[1]].object = "deleted" => t \notin objects
        /\ claim[t[1]].index = "deleted" => t \notin files

KnownInv ==
    /\ NoCooldown /\ HoldersOwn /\ StoredKnown /\ WritesBusy /\ NotIndexed /\ Unindexing
    /\ GoneTrue /\ RowsTrue /\ ClaimsTrue

(* All that the proofs below use of a step, for one token.                 *)
Stepped(t) ==
    /\ t[1] \in Items /\ t[2] \in 1..MaxClaims /\ t = <<t[1], t[2]>>
    /\ JournalMoves(t[1]) /\ Evid(t[1]) /\ Believes(t[1])
    /\ StageMoves(t) /\ StoreMoves(t) /\ GoneMoves(t) /\ WriteMoves(t)

LEMMA SteppedAll ==
    ASSUME IInv, [Next]_vars
    PROVE  \A t \in Tokens : Stepped(t)
<1>1. /\ ItemsMove /\ JournalMove /\ StageMove /\ StoreMove /\ ClaimMove
      /\ \A i \in Items : Evid(i) /\ Believes(i)
    BY Step, EvidStep, BelievesStep DEF IInv
<1>2. \A t \in Tokens : WorkerMoves(t)
    BY <1>1, WorkerStep DEF IInv, RunInv, LeaseInv
<1> QED BY <1>1, <1>2, TokenParts
    DEF Stepped, JournalMove, StageMove, StoreMove, WorkerMoves

(* A pass works on no write whose worker holds its item.                   *)
LEMMA NoPass ==
    ASSUME LeaseInv, HoldersOwn, NEW t \in Refs, t[1] \in Items
    PROVE  NotClaimed(t)
BY DEF NotClaimed, LeaseInv, HoldersOwn, ClaimLeases, WorkerLeases, Owns

(* The row of a write changes only through its worker, while it is busy.   *)
LEMMA BusyStays ==
    ASSUME LeaseInv, KnownInv, NEW t \in Tokens, Stepped(t), stage[t] \in Writes,
           stage'[t] \in Writes
    PROVE  Busy(t)'
<1>1. /\ t \in Refs /\ journal[t[1]].op = t[2] /\ Unresolved(t[1])
      /\ journal[t[1]].object # "deleted" /\ journal[t[1]].index # "deleted"
      /\ claim[t[1]].at = "idle" \/ claim[t[1]].op # t[2]
    BY NoPass DEF KnownInv, WritesBusy, Busy, Refs, Writes, Stepped, NotClaimed
<1>2. ~Confirms(t[1], "object") /\ ~Confirms(t[1], "index")
    <2>1. ASSUME NEW u \in Tokens, u[1] = t[1], u[2] = t[2], stage'[u] \notin Writes PROVE FALSE
        BY <2>1, TokenParts
    <2> QED BY <1>1, <2>1 DEF Confirms
<1>3. ~Begun(t[1])
    BY <1>1 DEF Begun
<1>4. OldRow(t[1])
    BY <1>3 DEF Stepped, Evid, NewRow
<1>5. ~Committed(t[1])
    <2>1. ASSUME NEW u \in Tokens, u[1] = t[1], Committing(u), stage'[u] = "none" PROVE FALSE
        <3>1. u[2] = t[2]
            BY <1>1, <2>1 DEF Committing, Settles, Operation
        <3> QED BY <2>1, <3>1, TokenParts DEF Writes
    <2>2. claim[t[1]].at = "idle" \/ ~claim[t[1]].success
        BY DEF LeaseInv, ClaimLeases, Stepped
    <2> QED BY <2>1, <2>2 DEF Committed
<1>6. /\ journal'[t[1]].op = t[2]
      /\ journal'[t[1]].object # "deleted" /\ journal'[t[1]].index # "deleted"
    BY <1>1, <1>2, <1>4 DEF OldRow
<1>7. journal'[t[1]].state # "undone"
    BY <1>1, <1>4, <1>6 DEF OldRow, Unresolved
<1>8. Unresolved(t[1])'
    BY <1>1, <1>3, <1>5, <1>7
    DEF Stepped, JournalMoves, SameWrite, Judged, Unresolved
<1> QED BY <1>6, <1>8 DEF Busy

LEMMA WritesBusyStep ==
    ASSUME LeaseInv, KnownInv, \A t \in Tokens : Stepped(t)
    PROVE  WritesBusy'
<1> SUFFICES ASSUME NEW t \in Tokens, stage'[t] \in Writes PROVE Busy(t)'
    BY DEF WritesBusy
<1>1. CASE stage[t] \in Writes
    BY <1>1, BusyStays
<1>2. CASE stage[t] \notin Writes
    <2>1. NewRow(t[1]) /\ journal'[t[1]].op = t[2]
        BY <1>2 DEF Stepped, WriteMoves
    <2> QED BY <2>1 DEF NewRow, Begun, Busy, Unresolved
<1> QED BY <1>1, <1>2

(* Something is stored only by its worker, whose write the row is about.   *)
LEMMA Grows ==
    ASSUME LeaseInv, KnownInv, NEW t \in Tokens, Stepped(t),
           (t \in objects' /\ t \notin objects) \/ (t \in files' /\ t \notin files)
    PROVE  /\ stage[t] \in Fresh /\ Busy(t)
           /\ NotClaimed(t)
           /\ t \in objects' /\ t \notin objects => stage[t] = "begun"
           /\ t \in files' /\ t \notin files => stage[t] = "marked" /\ stage'[t] = "indexed"
<1>1. /\ t \in objects' /\ t \notin objects => stage[t] = "begun"
      /\ t \in files' /\ t \notin files => stage[t] = "marked" /\ stage'[t] = "indexed"
    BY DEF Stepped, StoreMoves
<1>2. stage[t] \in {"begun", "marked"}
    BY <1>1
<1>3. stage[t] \in Fresh /\ t \in Refs /\ Busy(t)
    BY <1>2 DEF Fresh, Refs, KnownInv, WritesBusy, Writes
<1>4. NotClaimed(t)
    BY <1>3, NoPass DEF KnownInv, Stepped
<1> QED BY <1>1, <1>3, <1>4

(* What the journal takes for removed is not there.                        *)
LEMMA RowsTrueStep ==
    ASSUME LeaseInv, KnownInv, \A t \in Tokens : Stepped(t)
    PROVE  RowsTrue'
<1> SUFFICES ASSUME NEW t \in Tokens, journal'[t[1]].op = t[2]
             PROVE  /\ journal'[t[1]].object = "deleted" => t \notin objects'
                    /\ journal'[t[1]].index = "deleted" => t \notin files'
    BY DEF RowsTrue
<1>1. Stepped(t) /\ Evid(t[1])
    BY DEF Stepped
<1>2. CASE NewRow(t[1])
    BY <1>2 DEF NewRow
<1>3. CASE OldRow(t[1])
    <2>1. journal[t[1]].op = t[2]
        BY <1>3 DEF OldRow
    <2>2. ASSUME NEW u \in Tokens, u[1] = t[1], u[2] = journal[t[1]].op PROVE u = t
        BY <2>1, <2>2, TokenParts
    <2>3. ASSUME Confirms(t[1], "object")
          PROVE  t \notin objects /\ ~(stage[t] \in Fresh /\ NotClaimed(t))
        <3>1. CASE "object" \in gone[t] /\ stage[t] \in {"note", "refused"}
            BY <3>1 DEF KnownInv, GoneTrue, Fresh
        <3>2. CASE claim[t[1]].at = "close" /\ claim[t[1]].op = t[2] /\ claim[t[1]].object = "deleted"
            BY <3>2 DEF KnownInv, ClaimsTrue, NotClaimed
        <3> QED BY <2>1, <2>2, <2>3, <3>1, <3>2 DEF Confirms
    <2>4. ASSUME Confirms(t[1], "index")
          PROVE  t \notin files /\ ~(stage[t] \in Fresh /\ NotClaimed(t))
        <3>1. CASE "index" \in gone[t] /\ stage[t] \in {"note", "refused"}
            BY <3>1 DEF KnownInv, GoneTrue, Fresh
        <3>2. CASE claim[t[1]].at = "close" /\ claim[t[1]].op = t[2] /\ claim[t[1]].index = "deleted"
            BY <3>2 DEF KnownInv, ClaimsTrue, NotClaimed
        <3> QED BY <2>1, <2>2, <2>4, <3>1, <3>2 DEF Confirms
    <2>5. ASSUME journal'[t[1]].object = "deleted" PROVE t \notin objects'
        <3>1. journal[t[1]].object = "deleted" \/ Confirms(t[1], "object")
            BY <1>3, <2>5 DEF OldRow
        <3>2. t \notin objects
            BY <2>1, <2>3, <3>1 DEF KnownInv, RowsTrue
        <3>3. ASSUME t \in objects' PROVE stage[t] \in Fresh /\ Busy(t) /\ NotClaimed(t)
            BY <1>1, <3>2, <3>3, Grows
        <3> QED BY <2>3, <3>1, <3>3 DEF Busy
    <2>6. ASSUME journal'[t[1]].index = "deleted" PROVE t \notin files'
        <3>1. journal[t[1]].index = "deleted" \/ Confirms(t[1], "index")
            BY <1>3, <2>6 DEF OldRow
        <3>2. t \notin files
            BY <2>1, <2>4, <3>1 DEF KnownInv, RowsTrue
        <3>3. ASSUME t \in files' PROVE stage[t] \in Fresh /\ Busy(t) /\ NotClaimed(t)
            BY <1>1, <3>2, <3>3, Grows
        <3> QED BY <2>4, <3>1, <3>3 DEF Busy
    <2> QED BY <2>5, <2>6
<1> QED BY <1>1, <1>2, <1>3 DEF Evid

(* A row that knows of something stored is kept.                           *)
LEMMA StoredKnownStep ==
    ASSUME Typed, LeaseInv, KnownInv, CommittedStays, StoreTypes', \A t \in Tokens : Stepped(t)
    PROVE  StoredKnown'
<1> SUFFICES ASSUME NEW t \in Tokens, t \in objects' \cup files'
             PROVE  journal'[t[1]].op = t[2] /\ journal'[t[1]].state \notin {"none", "undone"}
    BY DEF StoredKnown, StoreTypes
<1>1. /\ Stepped(t) /\ t[1] \in Items /\ JournalMoves(t[1]) /\ Evid(t[1])
    BY DEF Stepped
<1>2. journal[t[1]].op = t[2] /\ journal[t[1]].state \notin {"none", "undone"}
    <2>1. CASE t \in objects \cup files
        BY <2>1 DEF KnownInv, StoredKnown
    <2>2. CASE t \notin objects \cup files
        BY <1>1, <2>2, Grows DEF Busy, Unresolved
    <2> QED BY <2>1, <2>2
<1>3. CASE SameWrite(t[1])
    BY <1>2, <1>3 DEF SameWrite
<1>4. ~Begun(t[1])
    <2>1. SUFFICES ASSUME Begun(t[1]) PROVE FALSE
        OBVIOUS
    <2>2. item[t[1]].status = "downloading"
        BY <2>1 DEF Begun, Owns
    <2>3. journal[t[1]].state = "committed"
        BY <1>1, <1>2, <2>1, JournalFields DEF Begun, Unresolved, JournalRecord
    <2> QED BY <1>1, <2>2, <2>3 DEF CommittedStays
<1>5. CASE Judged(t[1])
    <2>1. journal'[t[1]].op = t[2] /\ journal'[t[1]].state \in {"operator", "undone"}
        BY <1>2, <1>5 DEF Judged
    <2>2. OldRow(t[1])
        BY <1>1, <1>4 DEF Evid, NewRow
    <2>3. ASSUME journal'[t[1]].state = "undone" PROVE FALSE
        <3>1. journal'[t[1]].object = "deleted" /\ journal'[t[1]].index = "deleted"
            BY <1>2, <2>2, <2>3 DEF OldRow
        <3> QED BY <2>1, <3>1, RowsTrueStep DEF RowsTrue
    <2> QED BY <2>1, <2>3
<1>6. CASE Committed(t[1])
    BY <1>2, <1>6 DEF Committed
<1> QED BY <1>1, <1>3, <1>4, <1>5, <1>6 DEF JournalMoves

LEMMA NotIndexedStep ==
    ASSUME LeaseInv, KnownInv, \A t \in Tokens : Stepped(t)
    PROVE  NotIndexed'
<1> SUFFICES ASSUME NEW t \in Tokens, stage'[t] \in Fresh PROVE t \notin files'
    BY DEF NotIndexed
<1>1. stage[t] \in Fresh \cup {"permitted"} /\ (t \in files' \ files => stage'[t] = "indexed")
    BY DEF Stepped, WriteMoves, StoreMoves
<1>2. CASE stage[t] \in Fresh
    BY <1>1, <1>2 DEF KnownInv, NotIndexed, Fresh
<1>3. CASE stage[t] = "permitted"
    <2>1. journal[t[1]].op # t[2]
        BY <1>3 DEF LeaseInv, NotBegun, Refs, Early
    <2>2. t \notin files
        BY <2>1 DEF KnownInv, StoredKnown
    <2> QED BY <1>1, <2>2 DEF Fresh
<1> QED BY <1>1, <1>2, <1>3

LEMMA UnindexingStep ==
    ASSUME KnownInv, \A t \in Tokens : Stepped(t)
    PROVE  Unindexing'
BY DEF KnownInv, Unindexing, Stepped, WriteMoves, StoreMoves

(* What a worker takes for removed is not there.                           *)
LEMMA GoneTrueStep ==
    ASSUME KnownInv, NoCooldown', \A t \in Tokens : Stepped(t)
    PROVE  GoneTrue'
<1> SUFFICES ASSUME NEW t \in Tokens
             PROVE  /\ "object" \in gone'[t] =>
                          t \notin objects' /\ stage'[t] \in {"unrow", "note"}
                    /\ "index" \in gone'[t] =>
                          t \notin files' /\ stage'[t] \in {"undo", "note"}
    BY DEF GoneTrue
<1>1. /\ GoneMoves(t) /\ stage'[t] # "refused"
      /\ t \in objects' /\ t \notin objects => stage[t] = "begun"
      /\ t \in files' /\ t \notin files => stage[t] = "marked"
    BY DEF Stepped, StoreMoves, NoCooldown
<1>2. /\ "object" \in gone[t] => t \notin objects /\ stage[t] \in {"unrow", "note"}
      /\ "index" \in gone[t] => t \notin files /\ stage[t] \in {"undo", "note"}
      /\ stage[t] \in Fresh => t \notin files
      /\ stage[t] = "unindex" => t \notin objects
    BY DEF KnownInv, GoneTrue, NotIndexed, Unindexing
<1> QED BY <1>1, <1>2 DEF GoneMoves

(* What the recovery pass takes for removed is not there.                  *)
LEMMA ClaimsTrueStep ==
    ASSUME LeaseInv, KnownInv, \A t \in Tokens : Stepped(t)
    PROVE  ClaimsTrue'
<1> SUFFICES ASSUME NEW t \in Tokens, claim'[t[1]].at # "idle", claim'[t[1]].op = t[2]
             PROVE  /\ claim'[t[1]].object = "deleted" => t \notin objects'
                    /\ claim'[t[1]].index = "deleted" => t \notin files'
    BY DEF ClaimsTrue
<1>1. Stepped(t) /\ Believes(t[1]) /\ t = <<t[1], t[2]>>
    BY DEF Stepped
<1>2. ASSUME (t \in objects' /\ t \notin objects) \/ (t \in files' /\ t \notin files)
      PROVE  /\ Busy(t) /\ NotClaimed(t)
    BY <1>1, <1>2, Grows
<1>3. ASSUME claim'[t[1]].object = "deleted" PROVE t \notin objects'
    <2>1. CASE t[2] = journal[t[1]].op /\ journal[t[1]].object = "deleted"
        BY <1>2, <2>1 DEF KnownInv, RowsTrue, Busy
    <2>2. CASE claim[t[1]].at # "idle" /\ t[2] = claim[t[1]].op /\ claim[t[1]].object = "deleted"
        BY <1>2, <2>2 DEF KnownInv, ClaimsTrue, NotClaimed
    <2> QED BY <1>1, <1>3, <2>1, <2>2 DEF Believes
<1>4. ASSUME claim'[t[1]].index = "deleted" PROVE t \notin files'
    <2>1. CASE t[2] = journal[t[1]].op /\ journal[t[1]].index = "deleted"
        BY <1>2, <2>1 DEF KnownInv, RowsTrue, Busy
    <2>2. CASE claim[t[1]].at # "idle" /\ t[2] = claim[t[1]].op /\ claim[t[1]].index = "deleted"
        BY <1>2, <2>2 DEF KnownInv, ClaimsTrue, NotClaimed
    <2> QED BY <1>1, <1>4, <2>1, <2>2 DEF Believes
<1> QED BY <1>3, <1>4

LEMMA KnownInvStep ==
    ASSUME "quota" \notin Faults, IInv, KnownInv, [Next]_vars
    PROVE  KnownInv'
<1>1. /\ ItemsMove /\ JournalMove /\ StageMove /\ StoreMove /\ ClaimMove
      /\ \A t \in Tokens : Stepped(t)
    BY Step, SteppedAll
<1>2. NoCooldown'
    BY NoCooldownStep DEF IInv, KnownInv
<1>3. HoldersOwn'
    BY <1>1, HoldersOwnStep DEF IInv, RunInv, LeaseInv, KnownInv
<1>4. StoredKnown'
    BY <1>1, StoredKnownStep DEF IInv, WriteInv, StoreMove
<1>5. WritesBusy' /\ NotIndexed' /\ Unindexing' /\ RowsTrue' /\ ClaimsTrue'
    BY <1>1, WritesBusyStep, NotIndexedStep, UnindexingStep, RowsTrueStep, ClaimsTrueStep
    DEF IInv
<1>6. GoneTrue'
    BY <1>1, <1>2, GoneTrueStep
<1> QED BY <1>2, <1>3, <1>4, <1>5, <1>6 DEF KnownInv

LEMMA InitKnownInv == Init => KnownInv
<1> SUFFICES ASSUME Init PROVE KnownInv
    OBVIOUS
<1>1. /\ objects = {} /\ files = {} /\ stage = NoRefs /\ gone = [t \in Tokens |-> {}]
      /\ claim = [i \in Items |-> Idle] /\ ~cooling /\ ~quota /\ failure = "none"
    BY DEF Init, Prepared
<1>2. \A t \in Tokens : /\ stage[t] = "none" /\ gone[t] = {} /\ claim[t[1]].at = "idle"
    BY <1>1, TokenParts, IdleType DEF NoRefs
<1>3. NoCooldown /\ HoldersOwn
    BY <1>1, <1>2 DEF NoCooldown, HoldersOwn, Refs
<1>4. StoredKnown /\ GoneTrue /\ RowsTrue /\ ClaimsTrue
    BY <1>1, <1>2 DEF StoredKnown, GoneTrue, RowsTrue, ClaimsTrue
<1>5. WritesBusy /\ NotIndexed /\ Unindexing
    BY <1>2 DEF WritesBusy, NotIndexed, Unindexing, Writes, Fresh
<1> QED BY <1>3, <1>4, <1>5 DEF KnownInv

(* Where no quota runs out, nothing is left behind: whatever lies in the   *)
(* storage or in files is known to an open or a committed journal row,     *)
(* through every failed statement, lost lease, cancellation and crash.     *)
THEOREM NothingStaysBehind == "quota" \notin Faults => (Spec => []NothingLeftBehind)
<1> SUFFICES ASSUME "quota" \notin Faults PROVE Spec => []NothingLeftBehind
    OBVIOUS
<1>1. Init => IInv /\ KnownInv
    BY InitIInv, InitKnownInv
<1>2. (IInv /\ KnownInv) /\ [Next]_vars => (IInv /\ KnownInv)'
    BY IInvStep, KnownInvStep
<1>3. IInv /\ KnownInv => NothingLeftBehind
    <2> SUFFICES ASSUME IInv, KnownInv, NEW t \in objects \cup files
                 PROVE  /\ journal[t[1]].op = t[2]
                        /\ journal[t[1]].state \in {"pending", "operator", "committed"}
        BY DEF NothingLeftBehind
    <2>1. journal[t[1]].op = t[2] /\ journal[t[1]].state \notin {"none", "undone"}
        BY DEF KnownInv, StoredKnown
    <2>2. t \in Tokens
        BY DEF IInv, Typed, StoreTypes
    <2>3. journal[t[1]] \in JournalRecord
        BY <2>2, TokenParts DEF IInv, Typed
    <2> QED BY <2>1, <2>3 DEF JournalRecord
<1> QED BY <1>1, <1>2, <1>3, PTL DEF Spec

(* Where no quota runs out, no worker ever loses its item: whoever works   *)
(* on an item holds its lease until the run lets the item go.              *)
THEOREM HoldersKeepTheirItems == "quota" \notin Faults => (Spec => []HoldersOwn)
<1> SUFFICES ASSUME "quota" \notin Faults PROVE Spec => []HoldersOwn
    OBVIOUS
<1>1. Init => IInv /\ KnownInv
    BY InitIInv, InitKnownInv
<1>2. (IInv /\ KnownInv) /\ [Next]_vars => (IInv /\ KnownInv)'
    BY IInvStep, KnownInvStep
<1>3. KnownInv => HoldersOwn
    BY DEF KnownInv
<1> QED BY <1>1, <1>2, <1>3, PTL DEF Spec
-----------------------------------------------------------------------------
(* The promise of ItemOutcome.                                             *)

(* A cancelled job stays cancelled.                                        *)
LEMMA CancelledStays ==
    ASSUME [Next]_vars, job = "cancelled"
    PROVE  job' = "cancelled"
<1>1. CASE Run
    <2>1. CASE LeaseLost \/ RunFails \/ QuotaEnds \/ ApplyCooldown \/ Finalize
        BY <2>1
        DEF LeaseLost, RunFails, FailJob, QuotaEnds, ApplyCooldown, CoolDown, Finished, Finalize
    <2>2. CASE \/ Await \/ ClaimBatch \/ OpenWindow \/ RefuseWindow \/ Restore \/ Load
               \/ CloseWindow \/ Tally
        BY <2>2
        DEF Await, ClaimBatch, OpenWindow, RefuseWindow, Restore, Load, CloseWindow, Tally, jobVars
    <2> QED BY <1>1, <2>1, <2>2 DEF Run
<1>2. ASSUME NEW t \in Tokens, Work(t) PROVE job' = "cancelled"
    <2>1. CASE MarkFailed(t)
        BY <2>1 DEF MarkFailed, FailJob
    <2>2. CASE \/ StartItem(t) \/ Download(t) \/ Begin(t) \/ Save(t) \/ MarkObject(t)
               \/ InsertRow(t) \/ MarkIndex(t) \/ Validate(t) \/ Commit(t)
               \/ Undo(t) \/ UndoRow(t) \/ Drop(t) \/ DropRow(t) \/ Note(t) \/ Settle(t)
        BY <2>2
        DEF StartItem, Download, Begin, Save, MarkObject, InsertRow, MarkIndex, Validate, Commit,
            Undo, UndoRow, Drop, DropRow, Note, Settle, jobVars
    <2> QED BY <1>2, <2>1, <2>2 DEF Work
<1>3. CASE RecoverJob \/ User
    BY <1>3
    DEF RecoverJob, WritesDone, Repair, Inconsistent, Uncool, Release, Start, User, Pause,
        Finished, Resume, Cancel, Retry, jobVars
<1>4. CASE \/ Heartbeat \/ \E i \in Items : LeaseLapses(i) \/ JournalLeaseLapses(i)
           \/ AccountCools \/ CooldownEnds \/ ClaimWrites \/ StopRun \/ Crash
    BY <1>4
    DEF Heartbeat, LeaseLapses, JournalLeaseLapses, AccountCools, CooldownEnds, ClaimWrites,
        StopRun, Crash, jobVars
<1>5. ASSUME NEW i \in Items, Recover(i) PROVE job' = "cancelled"
    BY <1>5 DEF Recover, Decide, DeleteObject, StillMine, DeleteRow, CloseWrite, jobVars
<1>6. CASE UNCHANGED vars
    BY <1>6 DEF vars, jobVars
<1> QED BY <1>1, <1>2, <1>3, <1>4, <1>5, <1>6 DEF Next

(* Who may skip items: a run that found the job cancelled, a worker that   *)
(* did, and a cancellation that reaches the run.                           *)
Skipper == stopping \/ verdict = "skipped" \/ \E t \in Tokens : stage[t] = "skip"

SkipReasons == Skipper => job = "cancelled"

LEMMA InitSkipReasons == Init => SkipReasons
BY DEF Init, Prepared, NoRefs, SkipReasons, Skipper

(* Nobody else turns into one.                                             *)
LEMMA NewSkipper ==
    ASSUME IInv, [Next]_vars, Skipper'
    PROVE  Skipper \/ job = "cancelled" \/ job' = "cancelled"
<1>0. Typed
    BY DEF IInv
<1> DEFINE Told == UNCHANGED <<stopping, verdict>>
           NoneMore == \A t \in Tokens : stage'[t] = "skip" => stage[t] = "skip"
<1>1. ASSUME Told, NoneMore PROVE Skipper
    BY <1>1 DEF Skipper
<1>2. ASSUME NEW t \in Tokens, NEW s \in Stages, To(t, s), s # "skip" PROVE NoneMore
    BY <1>0, <1>2 DEF To, Typed, StageTypes
<1>3. ASSUME stage' = NoRefs PROVE NoneMore
    BY <1>3 DEF NoRefs
<1>4. ASSUME UNCHANGED stage PROVE NoneMore
    BY <1>4
<1>5. ASSUME NEW n, NEW as, Claim(n, as), as # "skip" PROVE NoneMore
    BY <1>5 DEF Claim
<1> HIDE DEF Told, NoneMore
<1>6. CASE Run
    <2>1. CASE RefuseWindow \/ CloseWindow
        <3>1. verdict' = "skipped" => verdict = "skipped" \/ job = "cancelled"
            BY <2>1 DEF RefuseWindow, CloseWindow, GivesBack, JobState
        <3>2. UNCHANGED stopping
            BY <2>1 DEF RefuseWindow, CloseWindow
        <3>3. NoneMore
            BY <2>1, <1>3, <1>4 DEF RefuseWindow, CloseWindow, workVars
        <3> QED BY <3>1, <3>2, <3>3 DEF Skipper, NoneMore
    <2>2. CASE Tally \/ Finalize \/ Restore
        <3>1. verdict' # "skipped" /\ UNCHANGED stopping
            BY <2>2 DEF Tally, Finalize, Restore
        <3>2. NoneMore
            BY <2>2, <1>3, <1>4 DEF Tally, Finalize, Restore, workVars
        <3> QED BY <3>1, <3>2 DEF Skipper, NoneMore
    <2>3. CASE Await \/ OpenWindow \/ ApplyCooldown \/ RunFails
        <3>1. Told /\ UNCHANGED stage
            BY <2>3 DEF Await, OpenWindow, ApplyCooldown, RunFails, Told, workVars, loopVars
        <3> QED BY <3>1, <1>1, <1>4
    <2>4. CASE LeaseLost \/ QuotaEnds
        <3>1. Told /\ stage' = NoRefs
            BY <2>4 DEF LeaseLost, QuotaEnds, Told
        <3> QED BY <3>1, <1>1, <1>3
    <2>5. CASE ClaimBatch
        <3>1. Told
            BY <2>5 DEF ClaimBatch, Told
        <3>2. NoneMore
            BY <2>5, <1>4, <1>5 DEF ClaimBatch
        <3> QED BY <3>1, <3>2, <1>1
    <2>6. CASE Load
        <3>1. Told
            BY <2>6 DEF Load, Told
        <3>2. ASSUME stage' = [t \in Tokens |->
                         IF stage[t] = "claimed" THEN "ready" ELSE stage[t]]
              PROVE  NoneMore
            BY <3>2 DEF NoneMore
        <3>3. NoneMore
            BY <2>6, <3>2, <1>4, <1>5 DEF Load
        <3> QED BY <3>1, <3>3, <1>1
    <2> QED BY <1>6, <2>1, <2>2, <2>3, <2>4, <2>5, <2>6 DEF Run
<1>7. ASSUME NEW t \in Tokens, Work(t)
      PROVE  Skipper \/ job = "cancelled" \/ job' = "cancelled"
    <2>1. CASE StartItem(t)
        <3>1. Told
            BY <2>1 DEF StartItem, Told, loopVars
        <3>2. CASE To(t, "skip") /\ JobState = "cancelled"
            BY <3>2 DEF JobState
        <3>3. CASE To(t, "download") \/ To(t, "left")
            BY <3>1, <3>3, <1>1, <1>2 DEF Stages
        <3> QED BY <2>1, <3>2, <3>3 DEF StartItem
    <2>2. CASE ~StartItem(t)
        <3>1. Told
            BY <1>7, <2>2
            DEF Work, Download, Begin, Save, MarkObject, InsertRow, MarkIndex, Validate, Commit,
                Undo, UndoRow, Drop, DropRow, Note, Settle, MarkFailed, Told, loopVars
        <3>2. (\E s \in Stages : s # "skip" /\ To(t, s)) \/ stage' = NoRefs
            <4>1. CASE Download(t) \/ Begin(t) \/ Save(t) \/ MarkObject(t) \/ InsertRow(t)
                BY <4>1 DEF Download, Begin, Save, MarkObject, InsertRow, Stages
            <4>2. CASE MarkIndex(t) \/ Validate(t) \/ Commit(t) \/ UndoRow(t) \/ Drop(t)
                BY <4>2 DEF MarkIndex, Validate, Commit, UndoRow, Drop, Stages
            <4>3. CASE DropRow(t) \/ Note(t) \/ Settle(t) \/ MarkFailed(t)
                BY <4>3 DEF DropRow, Note, Settle, MarkFailed, Stages
            <4>4. CASE Undo(t)
                <5>1. CASE "index" \in gone[t]
                    BY <4>4, <5>1 DEF Undo, Stages
                <5>2. CASE "index" \notin gone[t]
                    BY <4>4, <5>2 DEF Undo, Stages
                <5> QED BY <5>1, <5>2
            <4> QED BY <1>7, <2>2, <4>1, <4>2, <4>3, <4>4 DEF Work
        <3> QED BY <3>1, <3>2, <1>1, <1>2, <1>3
    <2> QED BY <2>1, <2>2
<1>8. CASE User
    <2>1. CASE Cancel
        BY <2>1 DEF Cancel
    <2>2. CASE Pause \/ Resume \/ Retry
        <3>1. Told /\ UNCHANGED stage
            BY <2>2 DEF Pause, Resume, Retry, Told, loopVars, workVars
        <3> QED BY <3>1, <1>1, <1>4
    <2> QED BY <1>8, <2>1, <2>2 DEF User
<1>9. CASE StopRun \/ Crash
    <2>1. stopping' = FALSE /\ (verdict' = verdict \/ verdict' = "none")
        BY <1>9 DEF StopRun, Crash
    <2>2. NoneMore
        BY <1>9, <1>3, <1>4 DEF StopRun, Crash, workVars
    <2> QED BY <2>1, <2>2 DEF Skipper, NoneMore
<1>10. CASE \/ Heartbeat \/ \E i \in Items : LeaseLapses(i) \/ JournalLeaseLapses(i)
            \/ AccountCools \/ CooldownEnds \/ ClaimWrites \/ RecoverJob \/ UNCHANGED vars
    <2>1. Told /\ UNCHANGED stage
        BY <1>10
        DEF Heartbeat, LeaseLapses, JournalLeaseLapses, AccountCools, CooldownEnds, ClaimWrites,
            RecoverJob, WritesDone, Repair, Uncool, Release, Start, Told, vars, loopVars, workVars
    <2> QED BY <2>1, <1>1, <1>4
<1>11. ASSUME NEW i \in Items, Recover(i) PROVE Skipper
    <2>1. Told /\ UNCHANGED stage
        BY <1>11
        DEF Recover, Decide, DeleteObject, StillMine, DeleteRow, CloseWrite, Told, loopVars, workVars
    <2> QED BY <2>1, <1>1, <1>4
<1> QED BY <1>6, <1>7, <1>8, <1>9, <1>10, <1>11 DEF Next

LEMMA SkipReasonsStep ==
    ASSUME IInv, SkipReasons, [Next]_vars
    PROVE  SkipReasons'
BY NewSkipper, CancelledStays DEF SkipReasons

(* Only an item of a cancelled job is skipped.                             *)
LEMMA SkippedWithdrawn ==
    ASSUME IInv, SkipReasons, [Next]_vars, NEW i \in Items, item'[i].status = "skipped"
    PROVE  item[i].status = "skipped" \/ job = "cancelled"
<1>0. Typed /\ item[i].status \in Statuses
    BY ItemFields DEF IInv
<1>1. ASSUME UNCHANGED item PROVE item[i].status = "skipped"
    BY <1>1
<1>2. ASSUME NEW n, NEW as, Claim(n, as) PROVE item[i].status = "skipped"
    <2>1. PICK S \in SUBSET Claimable :
              item' = [k \in Items |->
                  IF k \in S THEN Leased("downloading", given'[k]) ELSE item[k]]
        BY <1>2 DEF Claim
    <2> QED BY <2>1 DEF Leased
<1>3. ASSUME NEW t \in Tokens, NEW s \in Statuses,
             item' = IF Owns(t) THEN [item EXCEPT ![t[1]] = Leased(s, Unset)] ELSE item
      PROVE  item[i].status = "skipped" \/ s = "skipped"
    <2>1. item'[i] = item[i] \/ item'[i] = Leased(s, Unset)
        BY <1>0, <1>3, TokenParts DEF Typed, ItemTypes
    <2> QED BY <2>1, GivenBackType
<1>4. CASE Run
    <2>1. CASE ClaimBatch \/ Load
        BY <2>1, <1>1, <1>2 DEF ClaimBatch, Load, itemVars
    <2>2. CASE Restore
        <3>1. item'[i] = item[i] \/ item'[i] = Leased(verdict, Unset)
            BY <2>2 DEF Restore
        <3>2. item[i].status = "skipped" \/ verdict = "skipped"
            BY <3>1 DEF Leased
        <3> QED BY <3>2 DEF SkipReasons, Skipper
    <2>3. CASE QuotaEnds \/ ApplyCooldown
        <3>1. item' = [k \in Items |-> IF item[k].status = "downloading"
                                       THEN [item[k] EXCEPT !.status = "pending"] ELSE item[k]]
            BY <2>3 DEF QuotaEnds, ApplyCooldown, CoolDown
        <3> QED BY <3>1, <1>0, ItemFields DEF ItemRecord
    <2>4. CASE \/ Await \/ OpenWindow \/ RefuseWindow \/ CloseWindow \/ LeaseLost
               \/ RunFails \/ Tally \/ Finalize
        BY <2>4, <1>1
        DEF Await, OpenWindow, RefuseWindow, CloseWindow, LeaseLost, RunFails, Tally, Finalize,
            itemVars
    <2> QED BY <1>4, <2>1, <2>2, <2>3, <2>4 DEF Run
<1>5. ASSUME NEW t \in Tokens, Work(t)
      PROVE  item[i].status = "skipped" \/ job = "cancelled"
    <2>1. CASE Commit(t)
        <3>1. "success" \in Statuses
            BY DEF Statuses
        <3> QED BY <2>1, <3>1, <1>1, <1>3 DEF Commit, Settles
    <2>2. CASE Settle(t)
        <3>1. UNCHANGED item \/ item' = IF Owns(t) THEN [item EXCEPT ![t[1]] =
                                            Leased(Outcome(stage[t]), Unset)] ELSE item
            BY <2>2 DEF Settle
        <3>2. Outcome(stage[t]) \in Statuses /\ (Outcome(stage[t]) = "skipped" => Skipper)
            BY DEF Outcome, Statuses, Skipper
        <3> QED BY <3>1, <3>2, <1>1, <1>3 DEF SkipReasons
    <2>3. CASE MarkFailed(t)
        <3>1. "failed" \in Statuses
            BY DEF Statuses
        <3> QED BY <2>3, <3>1, <1>1, <1>3 DEF MarkFailed
    <2>4. CASE \/ StartItem(t) \/ Download(t) \/ Begin(t) \/ Save(t) \/ MarkObject(t)
               \/ InsertRow(t) \/ MarkIndex(t) \/ Validate(t)
               \/ Undo(t) \/ UndoRow(t) \/ Drop(t) \/ DropRow(t) \/ Note(t)
        BY <2>4, <1>1
        DEF StartItem, Download, Begin, Save, MarkObject, InsertRow, MarkIndex, Validate,
            Undo, UndoRow, Drop, DropRow, Note, itemVars
    <2> QED BY <1>5, <2>1, <2>2, <2>3, <2>4 DEF Work
<1>6. CASE Heartbeat
    <2>1. CASE item' = [k \in Items |-> IF \E t \in Refs : t[1] = k /\ Owns(t)
                                        THEN [item[k] EXCEPT !.lapsed = FALSE] ELSE item[k]]
        <3>1. item'[i] = item[i] \/ item'[i] = [item[i] EXCEPT !.lapsed = FALSE]
            BY <2>1
        <3> QED BY <3>1, <1>0, ItemFields DEF ItemRecord
    <2> QED BY <1>6, <2>1, <1>1 DEF Heartbeat
<1>7. ASSUME NEW k \in Items, LeaseLapses(k) PROVE item[i].status = "skipped"
    BY <1>7, <1>0, ItemFields DEF LeaseLapses, Typed, ItemTypes, ItemRecord
<1>8. CASE RecoverJob
    <2>1. CASE Repair
        <3>1. item'[i] = item[i] \/ item'[i] = [item[i] EXCEPT !.status = "pending"]
            BY <2>1 DEF Repair
        <3> QED BY <3>1, <1>0, ItemFields DEF ItemRecord
    <2>2. CASE Release
        <3>1. item'[i] = item[i] \/ item'[i] = Leased("pending", Unset)
            BY <2>2 DEF Release
        <3> QED BY <3>1 DEF Leased
    <2>3. CASE WritesDone \/ Uncool \/ Start
        BY <2>3, <1>1 DEF WritesDone, Uncool, Start, itemVars
    <2> QED BY <1>8, <2>1, <2>2, <2>3 DEF RecoverJob
<1>9. CASE User
    <2>1. CASE Retry
        <3>1. item'[i] = item[i] \/ item'[i] = [item[i] EXCEPT !.status = "pending"]
            BY <2>1 DEF Retry
        <3> QED BY <3>1, <1>0, ItemFields DEF ItemRecord
    <2>2. CASE Pause \/ Resume \/ Cancel
        BY <2>2, <1>1 DEF Pause, Resume, Cancel, itemVars
    <2> QED BY <1>9, <2>1, <2>2 DEF User
<1>10. CASE StopRun
    BY <1>10 DEF StopRun, SkipReasons, Skipper
<1>11. CASE \/ \E k \in Items : JournalLeaseLapses(k) \/ Recover(k)
            \/ AccountCools \/ CooldownEnds \/ ClaimWrites \/ Crash \/ UNCHANGED vars
    BY <1>11, <1>1
    DEF JournalLeaseLapses, Recover, Decide, DeleteObject, StillMine, DeleteRow, CloseWrite,
        AccountCools, CooldownEnds, ClaimWrites, Crash, vars, itemVars
<1> QED BY <1>4, <1>5, <1>6, <1>7, <1>8, <1>9, <1>10, <1>11 DEF Next

(* What an item is stored as: a write that its journal row commits, or     *)
(* something outside.                                                      *)
LEMMA FileStays ==
    ASSUME IInv, ItemsMove, JournalMove, StageMove, StoreMove, ClaimMove, CommittedStays',
           NEW i \in Items, item[i].status = "success", item'[i].status = "success"
    PROVE  FileOf(i)' = FileOf(i)
<1>1. JournalMoves(i)
    BY DEF JournalMove
<1>2. ~Begun(i) /\ ~Judged(i) /\ ~Committed(i)
    <2>1. ~Unresolved(i) /\ (claim[i].at = "idle" \/ ~claim[i].success)
        BY DEF IInv, LeaseInv, OpenWrites, ClaimLeases
    <2>2. \A t \in Tokens : t[1] = i => ~Owns(t)
        BY DEF Owns
    <2> QED BY <2>1, <2>2 DEF Begun, Judged, Committed, Committing, Settles
<1>3. journal'[i].state = journal[i].state /\ journal'[i].op = journal[i].op
    BY <1>1, <1>2 DEF JournalMoves, SameWrite
<1>4. journal[i].state = "committed" =>
          /\ <<i, journal[i].op>> \in objects \cap files
          /\ <<i, journal'[i].op>> \in objects' \cap files'
    BY <1>3 DEF IInv, WriteInv, CommittedStays
<1> QED BY <1>3, <1>4 DEF FileOf

LEMMA FileKind ==
    ASSUME Typed, NEW i \in Items
    PROVE  IF item[i].status = "success" THEN FileOf(i) \in Tokens \cup {Elsewhere}
           ELSE FileOf(i) = NoFile
BY DEF FileOf, Typed, StoreTypes

(* How the outcome of one item moves.                                      *)
Ends(i) ==
    \/ OutcomeOf(i)' = OutcomeOf(i) /\ FileOf(i)' = FileOf(i)
    \/ /\ OutcomeOf(i) = "open" /\ OutcomeOf(i)' = "stored"
       /\ FileOf(i)' \in Tokens \cup {Elsewhere}
    \/ /\ job = "cancelled" /\ OutcomeOf(i) = "open" /\ OutcomeOf(i)' = "skipped"
       /\ FileOf(i)' = FileOf(i)
    \/ /\ OutcomeOf(i) = "open" /\ OutcomeOf(i)' = "failed"
       /\ FileOf(i)' = FileOf(i)
    \/ /\ job' # "cancelled" /\ OutcomeOf(i) = "failed" /\ OutcomeOf(i)' = "open"
       /\ FileOf(i)' = FileOf(i)

LEMMA ItemEnds ==
    ASSUME IInv, SkipReasons, [Next]_vars, NEW i \in Items
    PROVE  Ends(i)
<1>1. ItemsMove /\ JournalMove /\ StageMove /\ StoreMove /\ ClaimMove /\ ItemMoves(i)
    BY Step DEF ItemsMove
<1>2. Typed /\ Typed' /\ CommittedStays'
    BY IInvStep DEF IInv, WriteInv
<1>3. item[i].status \in Statuses /\ item'[i].status \in Statuses
    BY <1>2, ItemFields DEF Typed, ItemTypes, ItemRecord
<1>4. /\ item[i].status # "success" => FileOf(i) = NoFile
      /\ item'[i].status # "success" => FileOf(i)' = NoFile
      /\ item'[i].status = "success" => FileOf(i)' \in Tokens \cup {Elsewhere}
    BY <1>2, FileKind DEF FileOf, Typed, StoreTypes
<1>5. CASE item[i].status = "success"
    <2>1. item'[i].status = "success"
        BY <1>1, <1>5 DEF ItemMoves, Kept, Taken, Back, Ticked, Succeeds
    <2>2. FileOf(i)' = FileOf(i)
        BY <1>1, <1>2, <1>5, <2>1, FileStays
    <2> QED BY <1>5, <2>1, <2>2 DEF Ends, OutcomeOf, Unfinished
<1>6. CASE item[i].status = "skipped"
    <2>1. item'[i].status = "skipped"
        BY <1>1, <1>6 DEF ItemMoves, Kept, Taken, Back, Ticked, Succeeds, Owns
    <2> QED BY <1>4, <1>6, <2>1 DEF Ends, OutcomeOf, Unfinished
<1>7. CASE item[i].status = "failed"
    <2>1. item'[i].status = "failed" \/ (item'[i].status = "pending" /\ job' = "running")
        BY <1>1, <1>7 DEF ItemMoves, Kept, Taken, Back, Ticked, Succeeds, Owns
    <2> QED BY <1>4, <1>7, <2>1 DEF Ends, OutcomeOf, Unfinished
<1>8. CASE item[i].status \in {"pending", "downloading"}
    <2>1. item'[i].status = "skipped" => job = "cancelled"
        BY <1>8, SkippedWithdrawn
    <2> QED BY <1>3, <1>4, <1>8, <2>1 DEF Ends, OutcomeOf, Unfinished, Statuses
<1> QED BY <1>3, <1>5, <1>6, <1>7, <1>8 DEF Statuses

LEMMA PromiseStep ==
    ASSUME IInv, SkipReasons, [Next]_vars
    PROVE  [Promise!Next]_(Promise!vars)
<1>1. ASSUME NEW i \in Items
      PROVE  \/ Promise!Stays(i) \/ Promise!Stores(i) \/ Promise!Skips(i) \/ Promise!Fails(i)
             \/ Promise!Reopens(i)
    BY ItemEnds
    DEF Ends, Promise!Stays, Promise!Stores, Promise!Skips, Promise!Fails, Promise!Reopens
<1>2. job = "cancelled" => job' = "cancelled"
    BY CancelledStays
<1> QED BY <1>1, <1>2 DEF Promise!Next

LEMMA PromiseInit == Init => Promise!Init
<1> SUFFICES ASSUME Init PROVE Promise!Init
    OBVIOUS
<1>1. job = "running" /\ \A i \in Items : item[i].status = "pending"
    BY DEF Init, Prepared, Leased
<1>2. \A i \in Items : OutcomeOf(i) = "open" /\ FileOf(i) = NoFile
    BY <1>1 DEF OutcomeOf, FileOf, Unfinished
<1> QED BY <1>1, <1>2 DEF Promise!Init

(* The items of a job keep the promise of ItemOutcome: each is open until  *)
(* it is stored as one file that stays, skipped in a cancelled job, or     *)
(* failed, and is opened again only when it failed and the job was not     *)
(* cancelled.                                                              *)
THEOREM ItemsPromiseKept == Spec => ItemsKeepPromise
<1>1. (IInv /\ SkipReasons) /\ [Next]_vars => (IInv /\ SkipReasons)'
    BY IInvStep, SkipReasonsStep
<1>2. (IInv /\ SkipReasons) /\ [Next]_vars => [Promise!Next]_(Promise!vars)
    BY PromiseStep
<1> QED BY <1>1, <1>2, InitIInv, InitSkipReasons, PromiseInit, PTL
    DEF Spec, ItemsKeepPromise, Promise!Spec

-----------------------------------------------------------------------------
(* Subscriptions, a component of their own: what is proved about           *)
(* SubscriptionSync.                                                       *)

CONSTANTS MaxId, Files, Ads, ScanLimit, MaxJobs

VARIABLES posts, sub, since, leapt, jobs, media, scan, works, decided, restoring, fromNow, slips,
          wishes

Sync == INSTANCE SubscriptionSync WITH verdict <- decided

(* Messages are numbered, those with a file are among them, and a scan     *)
(* reads at least one.                                                     *)
SyncBounds ==
    /\ MaxId \in Nat /\ MaxJobs \in Nat /\ ScanLimit \in Nat \ {0}
    /\ Files \subseteq 1..MaxId /\ Ads \subseteq Files

Messages0 == 0..MaxId
SyncItems == {"none", "pending", "lost", "success", "failed", "skipped", "scanner", "worker"}
SyncStates == {"none", "queued", "pending", "running", "paused", "barred",
               "cancelled", "completed", "partial", "failed"}
SyncJob ==
    [status : SyncStates, done : BOOLEAN, from : Messages0, last : Messages0, to : Messages0,
     ad : Messages0]
ScanRecord ==
    [pc : {"idle", "look", "read", "create", "persist", "start", "load", "finish"},
     cursor : Messages0, last : Messages0, to : Messages0, job : 0..MaxJobs,
     take : SUBSET Files, fine : SUBSET Files, bad : SUBSET Files]

PlainTyped ==
    /\ posts \in Messages0 /\ since \in Messages0 /\ since <= posts /\ leapt \in SUBSET Sync!Ids
    /\ fromNow \in SUBSET Messages0 /\ \A n \in fromNow : since <= n /\ n <= posts
JudgedTyped ==
    /\ decided \in [Ads -> {"none", "blocked", "normal"}]
    /\ restoring \in [Ads -> {"no", "claimed", "created", "stored", "started", "restored"}]
SubTyped == sub \in [on : BOOLEAN, due : BOOLEAN, cursor : Messages0]
SyncJobsTyped == jobs \in [Sync!Jobs -> SyncJob]
MediaTyped == media \in [Sync!Jobs -> [Sync!Ids -> SyncItems]]
WorksTyped == works \in [Sync!Jobs -> {"off", "begin", "load", "finish", "faulty"}]
ScanTyped == scan \in ScanRecord /\ scan.fine \subseteq scan.take /\ scan.bad \subseteq scan.take
SyncTyped ==
    /\ PlainTyped /\ JudgedTyped /\ SubTyped /\ SyncJobsTyped /\ MediaTyped /\ WorksTyped
    /\ ScanTyped

(* A job has an item of the message; the files before c are handled.       *)
HasItem(j, i) == media[j][i] # "none"
Before(c) == \A i \in Files \ leapt : since < i /\ i < c => Sync!Handled(i)
HandledIn(a, b) == \A i \in Files : a <= i /\ i <= b => Sync!Handled(i)

(* A scan has read what is behind a cursor up to which all is handled;     *)
(* what it does not take was judged.                                       *)
ScanReads ==
    scan.pc # "idle" =>
        /\ Before(scan.cursor + 1)
        /\ scan.pc # "look" => scan.cursor < scan.last
        /\ scan.pc \in {"look", "read"} => scan.take = {}
        /\ scan.pc = "finish" => scan.to <= scan.last
        /\ \A i \in scan.take : scan.cursor < i /\ i <= scan.last
        /\ scan.pc \in {"create", "persist"} =>
              \A i \in Files \ scan.take :
                  scan.cursor < i /\ i <= scan.last => i \in Ads /\ decided[i] # "none"

(* Its job has items of what it takes alone, and nobody else downloads as  *)
(* the scanner.                                                            *)
ScansJob ==
    /\ scan.pc \in {"persist", "start", "load", "finish"} =>
          /\ scan.job \in Sync!Jobs
          /\ jobs[scan.job].status # "none" /\ jobs[scan.job].ad = 0
          /\ jobs[scan.job].from = scan.cursor + 1 /\ jobs[scan.job].last = scan.last
          /\ \A i \in Sync!Ids : HasItem(scan.job, i) => i \in scan.take
          /\ scan.pc # "persist" => HandledIn(scan.cursor + 1, scan.last)
    /\ \A j \in Sync!Jobs, i \in Sync!Ids :
          media[j][i] = "scanner" => scan.pc = "load" /\ scan.job = j

(* What is before the range of a job is handled, and as soon as it has an  *)
(* item, so is what its scan has read; nobody runs one that has none.      *)
JobSound(j) ==
    /\ jobs[j].status = "none" =>
          jobs[j] = Sync!NoJob /\ works[j] = "off" /\ \A i \in Sync!Ids : ~HasItem(j, i)
    /\ Before(jobs[j].from)
    /\ jobs[j].ad = 0 =>
          \A i \in Sync!Ids : HasItem(j, i) =>
              /\ jobs[j].from <= i /\ i <= jobs[j].last
              /\ HandledIn(jobs[j].from, jobs[j].last)
    /\ works[j] # "off" => \E i \in Sync!Ids : HasItem(j, i)
JobsSound == \A j \in Sync!Jobs : JobSound(j)

(* A restored advertisement has one job, and that its item.                *)
JobMade == {"created", "stored", "started", "restored"}
ItemMade == {"stored", "started", "restored"}
Restorers ==
    /\ \A j, k \in Sync!Jobs : jobs[j].ad = jobs[k].ad /\ jobs[j].ad # 0 => j = k
    /\ \A i \in Ads :
          /\ restoring[i] \in JobMade => \E j \in Sync!Jobs : jobs[j].ad = i
          /\ restoring[i] \in ItemMade => \E j \in Sync!Jobs : jobs[j].ad = i /\ HasItem(j, i)

SyncInv ==
    /\ SyncBounds /\ SyncTyped /\ Before(sub.cursor + 1)
    /\ ScanReads /\ ScansJob /\ JobsSound /\ Restorers

(* What no step takes back.                                                *)
Keeps ==
    /\ since <= since' /\ leapt \subseteq leapt'
    /\ \A j \in Sync!Jobs, i \in Sync!Ids : HasItem(j, i) => HasItem(j, i)'
    /\ \A i \in Ads : decided[i] # "none" => decided'[i] # "none"

(* What only the creation of a job and its items changes.                  *)
JobsFixed ==
    \A j \in Sync!Jobs :
        /\ jobs'[j].from = jobs[j].from /\ jobs'[j].last = jobs[j].last /\ jobs'[j].ad = jobs[j].ad
        /\ jobs'[j].status = "none" <=> jobs[j].status = "none"
        /\ jobs[j].status = "none" => jobs'[j] = jobs[j]
ItemsFixed == \A j \in Sync!Jobs, i \in Sync!Ids : HasItem(j, i)' <=> HasItem(j, i)
WorksFit == \A j \in Sync!Jobs : works'[j] # "off" => \E i \in Sync!Ids : HasItem(j, i)
RestoringFits ==
    \A i \in Ads : /\ restoring'[i] \in JobMade => restoring[i] \in JobMade
                   /\ restoring'[i] \in ItemMade => restoring[i] \in ItemMade
ScannersFit ==
    \A j \in Sync!Jobs, i \in Sync!Ids :
        media'[j][i] = "scanner" => scan' = scan /\ scan.pc = "load" /\ scan.job = j

(* The larger and the smaller of two numbers.                              *)
LEMMA LargerOne ==
  ASSUME NEW a \in Int, NEW b \in Int
  PROVE  /\ Sync!Max({a, b}) \in {a, b}
         /\ Sync!Max({a, b}) >= a /\ Sync!Max({a, b}) >= b
<1>1. \E x \in {a, b} : \A y \in {a, b} : x >= y
  OBVIOUS
<1>2. Sync!Max({a, b}) \in {a, b} /\ \A y \in {a, b} : Sync!Max({a, b}) >= y
  BY <1>1, Zenon DEF Sync!Max
<1> QED BY <1>2

LEMMA SmallerOne ==
  ASSUME NEW a \in Int, NEW b \in Int
  PROVE  /\ Sync!Min({a, b}) \in {a, b}
         /\ Sync!Min({a, b}) <= a /\ Sync!Min({a, b}) <= b
<1>1. \E x \in {a, b} : \A y \in {a, b} : x <= y
  OBVIOUS
<1>2. Sync!Min({a, b}) \in {a, b} /\ \A y \in {a, b} : Sync!Min({a, b}) <= y
  BY <1>1, Zenon DEF Sync!Min
<1> QED BY <1>2

(* Handled is handled for good.                                            *)
LEMMA HandledStays ==
  ASSUME SyncBounds, Keeps, NEW i \in Files, Sync!Handled(i)
  PROVE  Sync!Handled(i)'
    BY DEF SyncBounds, Sync!Ids, Sync!Handled, Keeps, HasItem, Sync!Jobs

LEMMA BeforeStays ==
  ASSUME SyncBounds, PlainTyped, PlainTyped', Keeps, NEW c \in Int, Before(c)
  PROVE  Before(c)'
    BY HandledStays DEF Before, Keeps, SyncBounds, PlainTyped, Messages0

LEMMA HandledInStays ==
  ASSUME SyncBounds, Keeps, NEW a \in Int, NEW b \in Int, HandledIn(a, b)
  PROVE  HandledIn(a, b)'
BY HandledStays DEF HandledIn

LEMMA CursorStays ==
  ASSUME SyncInv, PlainTyped', Keeps, sub'.cursor = sub.cursor
  PROVE  Before(sub.cursor + 1)'
    BY BeforeStays DEF SyncInv, SyncTyped, SubTyped, Messages0, Before

LEMMA SoundStays ==
  ASSUME SyncInv, SyncTyped', Keeps, NEW j \in Sync!Jobs,
         jobs'[j].from = jobs[j].from, jobs'[j].last = jobs[j].last, jobs'[j].ad = jobs[j].ad,
         jobs'[j].status = "none" => jobs'[j] = jobs[j],
         \A i \in Sync!Ids : HasItem(j, i)' <=> HasItem(j, i),
         works'[j] # "off" => jobs[j].status # "none" /\ \E i \in Sync!Ids : HasItem(j, i)
  PROVE  JobSound(j)'
    BY BeforeStays, HandledInStays DEF SyncInv, SyncTyped, SyncJobsTyped, SyncJob, Messages0,
        JobsSound, JobSound, Before, HandledIn, Sync!NoJob, Sync!Ids

LEMMA AllSoundStay ==
  ASSUME SyncInv, SyncTyped', Keeps, JobsFixed, ItemsFixed, WorksFit
  PROVE  JobsSound'
<1> SUFFICES ASSUME NEW j \in Sync!Jobs PROVE JobSound(j)'
  BY DEF JobsSound, Sync!Jobs
<1>1. works'[j] # "off" => jobs[j].status # "none" /\ \E i \in Sync!Ids : HasItem(j, i)
  BY DEF WorksFit, SyncInv, JobsSound, JobSound
<1> QED BY <1>1, SoundStays DEF JobsFixed, ItemsFixed

LEMMA RestorersStay ==
  ASSUME SyncInv, JobsFixed, ItemsFixed, RestoringFits
  PROVE  Restorers'
<1>1. /\ \A j, k \in Sync!Jobs : jobs[j].ad = jobs[k].ad /\ jobs[j].ad # 0 => j = k
      /\ \A i \in Ads :
            /\ restoring[i] \in JobMade => \E j \in Sync!Jobs : jobs[j].ad = i
            /\ restoring[i] \in ItemMade => \E j \in Sync!Jobs : jobs[j].ad = i /\ HasItem(j, i)
  BY DEF SyncInv, Restorers
<1>2. \A j \in Sync!Jobs : jobs'[j].ad = jobs[j].ad
  BY DEF JobsFixed
<1>3. \A i \in Ads : i \in Sync!Ids
  BY DEF SyncInv, SyncBounds, Sync!Ids
<1>4. \A i \in Ads, j \in Sync!Jobs : HasItem(j, i)' <=> HasItem(j, i)
  BY <1>3 DEF ItemsFixed
<1>5. Sync!Jobs' = Sync!Jobs /\ JobMade' = JobMade /\ ItemMade' = ItemMade
  BY DEF Sync!Jobs, JobMade, ItemMade
<1>6. \A j, k \in Sync!Jobs : jobs'[j].ad = jobs'[k].ad /\ jobs'[j].ad # 0 => j = k
  BY <1>1, <1>2
<1>7. ASSUME NEW i \in Ads, restoring'[i] \in JobMade PROVE \E j \in Sync!Jobs : jobs'[j].ad = i
  BY <1>1, <1>2, <1>7 DEF RestoringFits
<1>8. ASSUME NEW i \in Ads, restoring'[i] \in ItemMade
      PROVE  \E j \in Sync!Jobs : jobs'[j].ad = i /\ HasItem(j, i)'
  BY <1>1, <1>2, <1>4, <1>8 DEF RestoringFits
<1> QED BY <1>5, <1>6, <1>7, <1>8 DEF Restorers

LEMMA ScanKept ==
  ASSUME SyncInv, SyncTyped', Keeps, scan' = scan, ScannersFit,
         scan.job \in Sync!Jobs /\ jobs[scan.job].status # "none" /\ jobs[scan.job].ad = 0 =>
             /\ jobs'[scan.job].status # "none" /\ jobs'[scan.job].ad = 0
             /\ jobs'[scan.job].from = jobs[scan.job].from
             /\ jobs'[scan.job].last = jobs[scan.job].last
             /\ \A i \in Sync!Ids : HasItem(scan.job, i)' <=> HasItem(scan.job, i)
  PROVE  ScanReads' /\ ScansJob'
    BY BeforeStays, HandledInStays DEF SyncInv, SyncTyped, ScanTyped, ScanRecord, Messages0,
        ScanReads, Before, Keeps, HandledIn, Sync!Jobs, Sync!Ids, ScansJob, ScannersFit

LEMMA ScanStays ==
  ASSUME SyncInv, SyncTyped', Keeps, JobsFixed, ItemsFixed, scan' = scan, ScannersFit
  PROVE  ScanReads' /\ ScansJob'
    BY ScanKept DEF JobsFixed, ItemsFixed

LEMMA ScanRests ==
  ASSUME scan' = Sync!Idle,
         \A j \in Sync!Jobs, i \in Sync!Ids : media'[j][i] # "scanner"
  PROVE  ScanReads' /\ ScansJob'
BY DEF Sync!Idle, ScanReads, ScansJob, Sync!Jobs, Sync!Ids

(* A step that moves no cursor, makes no job and no item, and at most ends *)
(* the scan.                                                               *)
LEMMA SyncQuiet ==
  ASSUME SyncInv, SyncTyped', Keeps, JobsFixed, ItemsFixed, WorksFit, RestoringFits,
         sub'.cursor = sub.cursor, scan' \in {scan, Sync!Idle}, ScannersFit
  PROVE  SyncInv'
    BY CursorStays, ScanStays, ScanRests, AllSoundStay, RestorersStay DEF SyncInv, SyncBounds,
        SyncTyped, ScannersFit

(* The same, when the scan goes on or the cursor moves.                    *)
LEMMA SyncMoves ==
  ASSUME SyncInv, SyncTyped', Keeps, JobsFixed, ItemsFixed, WorksFit, RestoringFits,
         Before(sub.cursor + 1)', ScanReads', ScansJob'
  PROVE  SyncInv'
BY AllSoundStay, RestorersStay DEF SyncInv, SyncBounds

(* What a step leaves alone.                                               *)
LEMMA SyncSame ==
  ASSUME SyncInv
  PROVE  /\ UNCHANGED <<posts, since, leapt, fromNow>> => PlainTyped'
         /\ UNCHANGED <<decided, restoring>> => JudgedTyped'
         /\ sub' = sub => SubTyped'
         /\ jobs' = jobs => SyncJobsTyped' /\ JobsFixed
         /\ media' = media => MediaTyped' /\ ItemsFixed
         /\ works' = works => WorksTyped' /\ WorksFit
         /\ scan' \in {scan, Sync!Idle} => ScanTyped'
         /\ media' = media /\ scan' = scan => ScannersFit
         /\ restoring' = restoring => RestoringFits
         /\ ItemsFixed /\ UNCHANGED <<since, leapt, decided>> => Keeps
<1>1. UNCHANGED <<posts, since, leapt, fromNow>> => PlainTyped'
  BY DEF SyncInv, SyncTyped, PlainTyped, Messages0, Sync!Ids
<1>2. UNCHANGED <<decided, restoring>> => JudgedTyped'
  BY DEF SyncInv, SyncTyped, JudgedTyped
<1>3. sub' = sub => SubTyped'
  BY DEF SyncInv, SyncTyped, SubTyped, Messages0
<1>4. jobs' = jobs => SyncJobsTyped' /\ JobsFixed
  BY DEF SyncInv, SyncTyped, SyncJobsTyped, JobsFixed, SyncJob, SyncStates, Messages0, Sync!Jobs
<1>5. media' = media => MediaTyped' /\ ItemsFixed
  BY DEF SyncInv, SyncTyped, MediaTyped, ItemsFixed, HasItem, SyncItems, Sync!Jobs, Sync!Ids
<1>6. works' = works => WorksTyped' /\ WorksFit
  BY DEF SyncInv, SyncTyped, WorksTyped, WorksFit, JobsSound, JobSound, Sync!Jobs
<1>7. scan' \in {scan, Sync!Idle} => ScanTyped'
  BY DEF SyncInv, SyncTyped, ScanTyped, ScanRecord, Messages0, SyncBounds, Sync!Idle
<1>8. media' = media /\ scan' = scan => ScannersFit
  BY DEF SyncInv, ScansJob, ScannersFit
<1>9. restoring' = restoring => RestoringFits
  BY DEF RestoringFits
<1>10. ItemsFixed /\ UNCHANGED <<since, leapt, decided>> => Keeps
  BY DEF SyncInv, SyncTyped, PlainTyped, Messages0, Keeps, ItemsFixed
<1> QED BY <1>1, <1>2, <1>3, <1>4, <1>5, <1>6, <1>7, <1>8, <1>9, <1>10

(* The status of a job and its end.                                        *)
LEMMA StatusIsSet ==
  ASSUME SyncInv, NEW j \in Sync!Jobs, jobs[j].status # "none",
         NEW s \in SyncStates \ {"none"}, NEW d \in BOOLEAN,
         \/ jobs' = jobs \/ jobs' = Sync!WithStatus(j, s)
         \/ jobs' = [jobs EXCEPT ![j].status = s, ![j].done = d]
  PROVE  SyncJobsTyped' /\ JobsFixed
<1> PICK r : r = jobs[j]
  OBVIOUS
<1>1. jobs \in [Sync!Jobs -> SyncJob] /\ r \in SyncJob
  BY DEF SyncInv, SyncTyped, SyncJobsTyped
<1>2. ASSUME NEW q \in SyncJob, q.from = r.from, q.last = r.last, q.ad = r.ad, q.status # "none",
             jobs' = [jobs EXCEPT ![j] = q]
      PROVE  SyncJobsTyped' /\ JobsFixed
  BY <1>1, <1>2 DEF SyncJobsTyped, JobsFixed, SyncJob, SyncStates, Messages0, Sync!Jobs
<1>3. CASE jobs' = Sync!WithStatus(j, s)
  BY <1>1, <1>3, <1>2 DEF Sync!WithStatus, SyncJob
<1>4. CASE jobs' = [jobs EXCEPT ![j].status = s, ![j].done = d]
  BY <1>1, <1>4, <1>2 DEF SyncJob
<1> QED BY <1>3, <1>4, SyncSame

(* The items of one job.                                                   *)
LEMMA ItemsAreSet ==
  ASSUME SyncInv, NEW j \in Sync!Jobs, NEW f \in [Sync!Ids -> SyncItems],
         media' = [media EXCEPT ![j] = f],
         \A i \in Sync!Ids : f[i] # "none" <=> media[j][i] # "none"
  PROVE  /\ MediaTyped' /\ ItemsFixed
         /\ (\A i \in Sync!Ids : f[i] = "scanner" => media[j][i] = "scanner") /\ scan' = scan
               => ScannersFit
    BY DEF SyncInv, SyncTyped, MediaTyped, Sync!Jobs, Sync!Ids, ItemsFixed, HasItem, ScannersFit,
        ScansJob, SyncItems

(* The run of a pass.                                                      *)
LEMMA WorkIsSet ==
  ASSUME SyncInv, NEW j \in Sync!Jobs, NEW w \in {"off", "begin", "load", "finish", "faulty"},
         works' = [works EXCEPT ![j] = w],
         w = "off" \/ works[j] # "off" \/ \E i \in Sync!Ids : HasItem(j, i)
  PROVE  WorksTyped' /\ WorksFit
    BY DEF SyncInv, SyncTyped, WorksTyped, JobsSound, JobSound, WorksFit, Sync!Jobs

(* A job that anything happened to was made.                               *)
LEMMA JobWasMade ==
  ASSUME SyncInv, NEW j \in Sync!Jobs,
         \/ jobs[j].done \/ works[j] # "off" \/ jobs[j].ad # 0
         \/ \E i \in Sync!Ids : HasItem(j, i)
  PROVE  jobs[j].status # "none"
    BY DEF SyncInv, JobsSound, JobSound, Sync!NoJob

(* The steps of passes, and the controls of jobs.                          *)
LEMMA SyncRelease ==
  ASSUME SyncInv, NEW j \in Sync!Jobs, NEW i \in Sync!Ids, Sync!Release(j, i)
  PROVE  SyncInv'
<1> PICK f : f = [media[j] EXCEPT ![i] = "pending"]
  OBVIOUS
<1>1. /\ media' = [media EXCEPT ![j] = f] /\ media[j] \in [Sync!Ids -> SyncItems]
      /\ media[j][i] = "lost"
  BY DEF Sync!Release, SyncInv, SyncTyped, MediaTyped
<1>2. f \in [Sync!Ids -> SyncItems] /\ \A k \in Sync!Ids : f[k] = IF k = i THEN "pending" ELSE media[j][k]
  BY <1>1 DEF SyncItems
<1>3. /\ \A k \in Sync!Ids : f[k] # "none" <=> media[j][k] # "none"
      /\ \A k \in Sync!Ids : f[k] = "scanner" => media[j][k] = "scanner"
      /\ scan' = scan
  BY <1>1, <1>2 DEF Sync!Release
<1>4. MediaTyped' /\ ItemsFixed /\ ScannersFit
  <2>1. MediaTyped' /\ ItemsFixed
    BY <1>1, <1>2, <1>3, ItemsAreSet
  <2>2. \A k \in Sync!Jobs, h \in Sync!Ids : media'[k][h] = "scanner" => media[k][h] = "scanner"
    BY <1>1, <1>2
  <2> QED BY <1>3, <2>1, <2>2 DEF ScannersFit, SyncInv, ScansJob
<1> QED BY <1>4, SyncSame, SyncQuiet DEF Sync!Release, SyncTyped

LEMMA SyncRepair ==
  ASSUME SyncInv, NEW j \in Sync!Jobs,
         Sync!Repair(j) \/ Sync!Resume(j)
  PROVE  SyncInv'
    BY JobWasMade, StatusIsSet, SyncSame, SyncQuiet DEF Sync!Repair, Sync!Resume, SyncStates,
        SyncTyped

LEMMA SyncPick ==
  ASSUME SyncInv, NEW j \in Sync!Jobs, Sync!Pick(j)
  PROVE  SyncInv'
    BY WorkIsSet, SyncSame, SyncQuiet DEF Sync!Pick, HasItem, SyncTyped

LEMMA SyncBegin ==
  ASSUME SyncInv, NEW j \in Sync!Jobs, Sync!Begin(j)
  PROVE  SyncInv'
    BY JobWasMade, StatusIsSet, WorkIsSet, SyncSame, SyncQuiet DEF Sync!Begin, SyncStates, SyncTyped

LEMMA SyncLoaded ==
  ASSUME SyncInv, NEW j \in Sync!Jobs, Sync!Loaded(j)
  PROVE  SyncInv'
<1>1. \E w \in {"off", "finish", "faulty"} : works' = [works EXCEPT ![j] = w]
  <2>1. CASE Sync!Held(j) \/ Sync!Remaining(j)
    <3>1. (CASE Sync!Held(j) \/ Sync!Remaining(j) -> "off"
             [] Sync!Failed(j) # {} -> "faulty" [] OTHER -> "finish") \in {"off", "finish", "faulty"}
      BY <2>1
    <3> QED BY <3>1 DEF Sync!Loaded
  <2>2. CASE ~(Sync!Held(j) \/ Sync!Remaining(j)) /\ Sync!Failed(j) # {}
    BY <2>2 DEF Sync!Loaded
  <2>3. CASE ~(Sync!Held(j) \/ Sync!Remaining(j)) /\ Sync!Failed(j) = {}
    BY <2>3 DEF Sync!Loaded
  <2> QED BY <2>1, <2>2, <2>3
<1>2. WorksTyped' /\ WorksFit
  BY <1>1, WorkIsSet DEF Sync!Loaded
<1> QED BY <1>2, SyncSame, SyncQuiet DEF Sync!Loaded, SyncTyped

LEMMA SyncPause ==
  ASSUME SyncInv, NEW j \in Sync!Jobs, Sync!Pause(j)
  PROVE  SyncInv'
    BY StatusIsSet, SyncSame, SyncQuiet DEF SyncStates, Sync!Pause, Sync!Wish, SyncTyped

(* Items of one state are put into another.                                *)
LEMMA ItemsChange ==
  ASSUME SyncInv, NEW j \in Sync!Jobs, NEW s \in SyncItems \ {"none"},
         NEW t \in SyncItems \ {"none", "scanner"}, scan' = scan,
         media' = [media EXCEPT ![j] = [i \in Sync!Ids |-> IF @[i] = s THEN t ELSE @[i]]]
  PROVE  MediaTyped' /\ ItemsFixed /\ ScannersFit
    BY ItemsAreSet DEF SyncInv, SyncTyped, MediaTyped

LEMMA SyncCancel ==
  ASSUME SyncInv, NEW j \in Sync!Jobs, Sync!Cancel(j)
  PROVE  SyncInv'
    BY StatusIsSet, ItemsChange, SyncSame, SyncQuiet DEF SyncStates, SyncItems, Sync!Cancel,
        Sync!Closed, Sync!Wish, SyncTyped

LEMMA SyncRetry ==
  ASSUME SyncInv, NEW j \in Sync!Jobs, Sync!Retry(j)
  PROVE  SyncInv'
    BY StatusIsSet, ItemsChange, SyncSame, SyncQuiet DEF SyncStates, SyncItems, Sync!Retry,
        Sync!Wish, SyncTyped

LEMMA SyncWorkBreaks ==
  ASSUME SyncInv, NEW j \in Sync!Jobs, Sync!WorkBreaks(j)
  PROVE  SyncInv'
    BY JobWasMade, StatusIsSet, ItemsChange, WorkIsSet, SyncSame, SyncQuiet DEF SyncStates,
        SyncItems, Sync!WorkBreaks, Sync!Closed, Sync!Slip, Sync!GivenBack, SyncTyped

(* Downloads.                                                              *)
LEMMA SyncClaim ==
  ASSUME SyncInv, NEW w \in Sync!Runners, NEW j \in Sync!Jobs, NEW i \in Sync!Ids,
         Sync!Claim(w, j, i)
  PROVE  SyncInv'
<1> PICK f : f = [media[j] EXCEPT ![i] = w]
  OBVIOUS
<1>1. /\ media' = [media EXCEPT ![j] = f] /\ media \in [Sync!Jobs -> [Sync!Ids -> SyncItems]]
      /\ media[j][i] = "pending"
  BY DEF Sync!Claim, Sync!Claimable, SyncInv, SyncTyped, MediaTyped
<1>2. f \in [Sync!Ids -> SyncItems] /\ \A k \in Sync!Ids : f[k] = IF k = i THEN w ELSE media[j][k]
  BY <1>1 DEF SyncItems, Sync!Runners
<1>3. MediaTyped' /\ ItemsFixed
  BY <1>1, <1>2, ItemsAreSet DEF Sync!Runners
<1>4. w = "scanner" => scan.pc = "load" /\ scan.job = j
  BY DEF Sync!Claim, Sync!Loads
<1>5. \A k \in Sync!Jobs, h \in Sync!Ids :
          media'[k][h] = IF k = j /\ h = i THEN w ELSE media[k][h]
  BY <1>1, <1>2
<1>6. \A k \in Sync!Jobs, h \in Sync!Ids :
          media[k][h] = "scanner" => scan.pc = "load" /\ scan.job = k
  BY DEF SyncInv, ScansJob
<1>7. ScannersFit
  BY <1>4, <1>5, <1>6 DEF ScannersFit, Sync!Claim
<1> QED BY <1>3, <1>7, SyncSame, SyncQuiet DEF Sync!Claim, SyncTyped

LEMMA SyncSettle ==
  ASSUME SyncInv, NEW w \in Sync!Runners, NEW j \in Sync!Jobs, NEW i \in Sync!Ids,
         Sync!Settle(w, j, i)
  PROVE  SyncInv'
<1> PICK s \in Sync!Ended :
      /\ media' = [media EXCEPT ![j][i] = s]
      /\ scan' = IF w = "worker" THEN scan
                 ELSE IF s = "failed" THEN [scan EXCEPT !.bad = @ \cup {i}]
                 ELSE [scan EXCEPT !.fine = @ \cup {i}]
  BY DEF Sync!Settle
<1> PICK f : f = [media[j] EXCEPT ![i] = s]
  OBVIOUS
<1>1. /\ media' = [media EXCEPT ![j] = f] /\ media \in [Sync!Jobs -> [Sync!Ids -> SyncItems]]
      /\ media[j][i] = w /\ s \in {"success", "failed", "skipped"}
  BY DEF Sync!Settle, Sync!Ended, SyncInv, SyncTyped, MediaTyped
<1>2. f \in [Sync!Ids -> SyncItems] /\ \A k \in Sync!Ids : f[k] = IF k = i THEN s ELSE media[j][k]
  BY <1>1 DEF SyncItems
<1>3. MediaTyped' /\ ItemsFixed /\ (scan' = scan => ScannersFit)
  <2>1. /\ \A k \in Sync!Ids : f[k] # "none" <=> media[j][k] # "none"
        /\ \A k \in Sync!Ids : f[k] = "scanner" => media[j][k] = "scanner"
    BY <1>1, <1>2 DEF Sync!Runners
  <2>2. MediaTyped' /\ ItemsFixed
    <3>1. \A k \in Sync!Ids : f[k] # "none" <=> media[j][k] # "none"
      BY <2>1
    <3>2. f \in [Sync!Ids -> SyncItems] /\ media' = [media EXCEPT ![j] = f]
      BY <1>1, <1>2
    <3> QED BY ONLY SyncInv, j \in Sync!Jobs, <3>1, <3>2, ItemsAreSet
  <2>3. \A k \in Sync!Jobs, h \in Sync!Ids : media'[k][h] = "scanner" => media[k][h] = "scanner"
    BY <1>1, <1>2
  <2> QED BY <2>2, <2>3 DEF ScannersFit, SyncInv, ScansJob
<1>4. UNCHANGED <<posts, sub, since, leapt, jobs, works, decided, restoring, fromNow>>
  BY DEF Sync!Settle
<1>5. CASE w = "worker"
  BY <1>3, <1>4, <1>5, SyncSame, SyncQuiet DEF SyncTyped
<1>6. CASE w = "scanner"
  <2>1. scan.pc = "load" /\ scan.job = j /\ HasItem(j, i)
    BY <1>1, <1>6 DEF SyncInv, ScansJob, HasItem
  <2>2. i \in scan.take
    BY <2>1 DEF SyncInv, ScansJob
  <2>3. scan \in ScanRecord /\ scan.fine \subseteq scan.take /\ scan.bad \subseteq scan.take
    BY DEF SyncInv, SyncTyped, ScanTyped
  <2>4. /\ scan' \in ScanRecord /\ scan'.fine \subseteq scan'.take /\ scan'.bad \subseteq scan'.take
        /\ scan'.pc = scan.pc /\ scan'.cursor = scan.cursor /\ scan'.last = scan.last
        /\ scan'.to = scan.to /\ scan'.job = scan.job /\ scan'.take = scan.take
    BY <2>2, <2>3, <1>6 DEF ScanRecord
  <2>5. ScanTyped'
    BY <2>4 DEF ScanTyped, ScanRecord, Messages0
  <2>6. SyncTyped' /\ Keeps /\ JobsFixed /\ WorksFit /\ RestoringFits
    BY <1>3, <1>4, <2>5, SyncSame DEF SyncTyped
  <2>7. Before(sub.cursor + 1)'
    BY <1>4, <2>6, CursorStays DEF SyncTyped
  <2> PICK a, b : a = scan.cursor + 1 /\ b = scan.last
    OBVIOUS
  <2>8. /\ a \in Int /\ b \in Int /\ Before(a) /\ HandledIn(a, b)
    BY <2>1, <2>3 DEF ScanRecord, Messages0, SyncInv, ScanReads, ScansJob, Before, HandledIn
  <2>9. Before(a)' /\ HandledIn(a, b)'
    BY <2>6, <2>8, BeforeStays, HandledInStays DEF SyncInv, SyncTyped
  <2>10. Before(scan.cursor + 1)' /\ HandledIn(scan.cursor + 1, scan.last)'
    BY <2>4, <2>9 DEF Before, HandledIn
  <2>11. ScanReads'
    BY <2>1, <2>4, <2>10 DEF ScanReads, SyncInv
  <2>12. ScansJob'
    BY <2>1, <1>3, <2>4, <1>1, <1>2, <1>4, <2>10 DEF Sync!Jobs, Sync!Ids, SyncInv, ScansJob,
        ItemsFixed, HasItem
  <2> QED BY <1>3, <2>6, <2>7, <2>11, <2>12, SyncMoves
<1> QED BY <1>5, <1>6 DEF Sync!Runners

(* The channel, the clock, and controls of the subscription.               *)
LEMMA SyncUser ==
  ASSUME SyncInv,
         Sync!Post \/ Sync!Due \/ Sync!SwitchOff \/ Sync!SwitchOn \/ Sync!AskFromNow
  PROVE  SyncInv'
<1>1. /\ UNCHANGED <<since, leapt, jobs, media, scan, works, decided, restoring>>
      /\ sub'.cursor = sub.cursor
  BY DEF Sync!Post, Sync!Due, Sync!SwitchOff, Sync!SwitchOn, Sync!AskFromNow, Sync!Wish,
         SyncInv, SyncTyped, SubTyped
<1>2. SubTyped'
  BY DEF Sync!Post, Sync!Due, Sync!SwitchOff, Sync!SwitchOn, Sync!AskFromNow, Sync!Wish,
         SyncInv, SyncTyped, SubTyped, Messages0
<1>3. PlainTyped'
  <2>1. CASE Sync!Post
    BY <2>1 DEF Sync!Post, SyncInv, SyncTyped, SyncBounds, PlainTyped, Messages0, Sync!Ids
  <2>2. CASE Sync!AskFromNow
    BY <2>2 DEF Sync!AskFromNow, Sync!Wish, SyncInv, SyncTyped, PlainTyped, Messages0, Sync!Ids
  <2>3. CASE Sync!Due \/ Sync!SwitchOff \/ Sync!SwitchOn
    BY <2>3, SyncSame DEF Sync!Due, Sync!SwitchOff, Sync!SwitchOn, Sync!Wish
  <2> QED BY <2>1, <2>2, <2>3
<1> QED BY <1>1, <1>2, <1>3, SyncSame, SyncQuiet DEF SyncTyped

LEMMA SyncFromNow ==
  ASSUME SyncInv, Sync!FromNow
  PROVE  SyncInv'
    BY SyncSame, ScanStays, SyncMoves DEF Sync!FromNow, SyncInv, SyncTyped, PlainTyped, SubTyped,
        Messages0, Sync!Ids, Keeps, HasItem, SyncBounds, Before

LEMMA SyncCrash ==
  ASSUME SyncInv, Sync!Crash
  PROVE  SyncInv'
<1>1. /\ UNCHANGED <<posts, since, leapt, decided, fromNow, sub, jobs>> /\ scan' = Sync!Idle
      /\ works' = [j \in Sync!Jobs |-> "off"]
  BY DEF Sync!Crash, Sync!Slip
<1>2. WorksTyped' /\ WorksFit
  BY <1>1 DEF WorksTyped, WorksFit, Sync!Jobs
<1>3. media \in [Sync!Jobs -> [Sync!Ids -> SyncItems]]
  BY DEF SyncInv, SyncTyped, MediaTyped
<1>4. \A j \in Sync!Jobs, i \in Sync!Ids :
          media'[j][i] = IF media[j][i] \in Sync!Runners THEN "lost" ELSE media[j][i]
  BY DEF Sync!Crash
<1>5. MediaTyped'
  BY <1>3 DEF Sync!Crash, SyncItems, MediaTyped, Sync!Jobs, Sync!Ids
<1>6. ItemsFixed /\ ScannersFit
  BY <1>4 DEF ItemsFixed, HasItem, ScannersFit, Sync!Runners
<1>7. JudgedTyped' /\ RestoringFits
  BY <1>1 DEF Sync!Crash, SyncInv, SyncTyped, JudgedTyped, RestoringFits, JobMade, ItemMade
<1> QED BY <1>1, <1>2, <1>5, <1>6, <1>7, SyncSame, SyncQuiet DEF SyncTyped

(* Restoring.                                                              *)
LEMMA SyncRestores ==
  ASSUME SyncInv, NEW i \in Ads,
         \/ Sync!RestoreClaim(i) \/ Sync!RestoreBreaks(i)
  PROVE  SyncInv'
    BY SyncSame, SyncQuiet DEF Sync!RestoreClaim, Sync!RestoreBreaks, Sync!Slip, SyncInv, SyncTyped,
        JudgedTyped, RestoringFits, JobMade, ItemMade

LEMMA SyncRestoreDone ==
  ASSUME SyncInv, NEW i \in Ads, Sync!RestoreDone(i)
  PROVE  SyncInv'
    BY SyncSame, SyncQuiet DEF Sync!RestoreDone, SyncInv, SyncTyped, JudgedTyped, RestoringFits,
        JobMade, ItemMade, PlainTyped, Messages0, Keeps, HasItem

LEMMA SyncRestoreStart ==
  ASSUME SyncInv, NEW i \in Ads, Sync!RestoreStart(i)
  PROVE  SyncInv'
<1> PICK j \in Sync!Jobs :
      /\ jobs[j].ad = i
      /\ jobs' = [jobs EXCEPT ![j].status = IF Sync!Held(j) THEN "barred" ELSE "pending",
                             ![j].done = FALSE]
  BY DEF Sync!RestoreStart, Sync!JobOf
<1> PICK s : s = IF Sync!Held(j) THEN "barred" ELSE "pending"
  OBVIOUS
<1>1. UNCHANGED <<posts, sub, since, leapt, media, scan, works, decided, fromNow>>
  BY DEF Sync!RestoreStart
<1>2. i # 0
  BY DEF SyncInv, SyncBounds
<1>3. jobs[j].status # "none" /\ s \in SyncStates \ {"none"}
  BY <1>2, JobWasMade DEF SyncStates
<1>4. SyncJobsTyped' /\ JobsFixed
  BY <1>3, StatusIsSet
<1>5. JudgedTyped' /\ RestoringFits
  BY <1>1 DEF Sync!RestoreStart, SyncInv, SyncTyped, JudgedTyped, RestoringFits, JobMade, ItemMade
<1> QED BY <1>1, <1>4, <1>5, SyncSame, SyncQuiet DEF SyncTyped

(* The scan.  A scan that goes on with the same job, or that begins.       *)
LEMMA SyncScanRow ==
  ASSUME SyncInv, Sync!ScanRow
  PROVE  SyncInv'
<1>1. /\ scan.pc = "idle" /\ scan' = [Sync!Idle EXCEPT !.pc = "look", !.cursor = sub.cursor]
      /\ UNCHANGED <<posts, sub, since, leapt, jobs, media, works, decided, restoring, fromNow>>
  BY DEF Sync!ScanRow
<1>2. /\ scan'.pc = "look" /\ scan'.cursor = sub.cursor /\ scan'.take = {}
      /\ scan'.fine = {} /\ scan'.bad = {} /\ scan' \in ScanRecord
  <2>1. sub.cursor \in Messages0 /\ 0 \in Messages0 /\ 0 \in 0..MaxJobs
    BY DEF SyncInv, SyncTyped, SubTyped, SyncBounds, Messages0
  <2> QED BY <1>1, <2>1 DEF Sync!Idle, ScanRecord
<1>3. SyncTyped' /\ Keeps
  BY <1>1, <1>2, SyncSame DEF SyncTyped, ScanTyped, ScanRecord, Messages0
<1>4. Before(sub.cursor + 1)'
  BY <1>1, <1>3, CursorStays DEF SyncTyped
<1>5. Before(scan.cursor + 1)'
  BY <1>1, <1>2, <1>4 DEF Before
<1>6. ScanReads'
  BY <1>2, <1>5 DEF ScanReads
<1>7. \A j \in Sync!Jobs, i \in Sync!Ids : media[j][i] # "scanner"
  BY <1>1 DEF SyncInv, ScansJob
<1>8. ScansJob'
  BY <1>1, <1>2, <1>7 DEF ScansJob, Sync!Jobs, Sync!Ids
<1> QED BY <1>1, <1>3, <1>4, <1>6, <1>8, SyncSame, SyncMoves

LEMMA SyncScanLook ==
  ASSUME SyncInv, Sync!ScanLook
  PROVE  SyncInv'
<1>1. /\ scan.pc = "look" /\ sub' = [sub EXCEPT !.due = FALSE]
      /\ UNCHANGED <<posts, since, leapt, jobs, media, works, decided, restoring, fromNow>>
  BY DEF Sync!ScanLook
<1>2. SubTyped' /\ sub'.cursor = sub.cursor
  BY <1>1 DEF SyncInv, SyncTyped, SubTyped, Messages0
<1>3. \A j \in Sync!Jobs, i \in Sync!Ids : media[j][i] # "scanner"
  BY <1>1 DEF SyncInv, ScansJob
<1>4. CASE posts <= scan.cursor
  BY <1>1, <1>3, <1>4, <1>2, SyncSame, SyncQuiet DEF Sync!ScanLook, ScannersFit, SyncTyped
<1>5. CASE ~(posts <= scan.cursor)
  <2> PICK m : m = Sync!Min({scan.cursor + ScanLimit, posts})
    OBVIOUS
  <2>1. scan' = [scan EXCEPT !.pc = "read", !.to = posts, !.last = m]
    BY <1>5 DEF Sync!ScanLook
  <2>2. scan \in ScanRecord /\ scan.take = {} /\ scan.fine = {} /\ scan.bad = {}
    BY <1>1 DEF SyncInv, SyncTyped, ScanTyped, ScanReads
  <2>3. scan.cursor \in Nat /\ posts \in Messages0 /\ posts \in Nat /\ ScanLimit \in Nat \ {0}
    BY <2>2 DEF ScanRecord, Messages0, SyncInv, SyncTyped, PlainTyped, SyncBounds
  <2> PICK c : c = scan.cursor + ScanLimit
    OBVIOUS
  <2>4. m \in {c, posts} /\ m <= posts /\ c \in Nat /\ scan.cursor < c
    <3>1. c \in Int /\ posts \in Int /\ c \in Nat /\ scan.cursor < c
      BY <2>3
    <3>2. Sync!Min({c, posts}) \in {c, posts} /\ Sync!Min({c, posts}) <= posts
      BY <3>1, SmallerOne
    <3> QED BY <3>1, <3>2
  <2>5. m \in Messages0 /\ scan.cursor < m
    BY <1>5, <2>3, <2>4 DEF SyncInv, SyncBounds, Messages0
  <2>6. /\ scan' \in ScanRecord /\ scan'.pc = "read" /\ scan'.cursor = scan.cursor
        /\ scan'.last = m /\ scan'.take = {} /\ scan'.fine = {} /\ scan'.bad = {}
    BY <2>1, <2>2, <2>3, <2>5 DEF ScanRecord
  <2>7. SyncTyped' /\ Keeps
    BY <1>1, <1>2, <2>6, SyncSame DEF SyncTyped, ScanTyped, ScanRecord, Messages0
  <2>8. Before(sub.cursor + 1)'
    BY <1>2, <2>7, CursorStays DEF SyncTyped
  <2> PICK a : a = scan.cursor + 1
    OBVIOUS
  <2>9. a \in Int /\ Before(a)
    BY <1>1, <2>3 DEF SyncInv, ScanReads, Before
  <2>10. Before(a)'
    BY <2>7, <2>9, BeforeStays DEF SyncInv, SyncTyped
  <2>11. Before(scan.cursor + 1)'
    BY <2>6, <2>10 DEF Before
  <2>12. ScanReads'
    BY <2>5, <2>6, <2>11 DEF ScanReads
  <2>13. ScansJob'
    BY <1>1, <1>3, <2>6 DEF ScansJob, Sync!Jobs, Sync!Ids
  <2> QED BY <1>1, <2>7, <2>8, <2>12, <2>13, SyncSame, SyncMoves
<1> QED BY <1>4, <1>5

LEMMA SyncScanRead ==
  ASSUME SyncInv, Sync!ScanRead
  PROVE  SyncInv'
<1> PICK found, blocked : found = Files \cap Sync!Scanned /\ blocked = Sync!Blocked(found)
  OBVIOUS
<1>1. /\ scan.pc = "read" /\ decided' = Sync!Judged(blocked)
      /\ UNCHANGED <<posts, since, leapt, jobs, media, works, restoring, fromNow>>
      /\ \/ found = {} /\ sub' = [sub EXCEPT !.cursor = Sync!Max({@, scan.last})] /\ scan' = Sync!Idle
         \/ /\ found # {} /\ scan' = [scan EXCEPT !.pc = "create", !.take = found \ blocked]
            /\ sub' = sub
  BY DEF Sync!ScanRead
<1>2. /\ scan \in ScanRecord /\ scan.cursor < scan.last /\ scan.take = {}
      /\ scan.fine = {} /\ scan.bad = {} /\ Before(scan.cursor + 1)
  BY <1>1 DEF SyncInv, SyncTyped, ScanTyped, ScanReads
<1>3. /\ scan.cursor \in Messages0 /\ scan.last \in Messages0 /\ sub.cursor \in Messages0
      /\ MaxId \in Nat /\ \A i \in Files : i \in Int
  BY <1>2 DEF ScanRecord, SyncInv, SyncTyped, SubTyped, SyncBounds
<1>4. \A i \in Files : i \in found <=> scan.cursor < i /\ i <= scan.last
  BY <1>3 DEF Sync!Scanned, Messages0
<1>5. \A j \in Sync!Jobs, i \in Sync!Ids : media[j][i] # "scanner"
  BY <1>1 DEF SyncInv, ScansJob
<1>6. decided' = [i \in Ads |-> IF i \in blocked THEN "blocked" ELSE decided[i]]
  BY <1>1 DEF Sync!Judged
<1>7. JudgedTyped' /\ RestoringFits
  BY <1>1, <1>6 DEF SyncInv, SyncTyped, JudgedTyped, RestoringFits
<1>8. ItemsFixed
  BY <1>1, SyncSame
<1>9. Keeps
  <2>1. since <= since' /\ leapt \subseteq leapt'
    BY <1>1 DEF SyncInv, SyncTyped, PlainTyped, Messages0
  <2>2. \A i \in Ads : decided[i] # "none" => decided'[i] # "none"
    BY <1>6
  <2> QED BY <1>8, <2>1, <2>2 DEF Keeps, ItemsFixed
<1>10. ASSUME found = {}, sub' = [sub EXCEPT !.cursor = Sync!Max({@, scan.last})], scan' = Sync!Idle
       PROVE  SyncInv'
  <2> PICK m : m = Sync!Max({sub.cursor, scan.last})
    OBVIOUS
  <2>1. m \in {sub.cursor, scan.last} /\ m \in Messages0
    <3>1. sub.cursor \in Int /\ scan.last \in Int
      BY <1>3 DEF Messages0
    <3>2. Sync!Max({sub.cursor, scan.last}) \in {sub.cursor, scan.last}
      BY <3>1, LargerOne
    <3> QED BY <1>3, <3>2
  <2>2. sub' = [sub EXCEPT !.cursor = m]
    BY <1>10
  <2>3. SubTyped' /\ sub'.cursor = m
    BY <2>1, <2>2 DEF SyncInv, SyncTyped, SubTyped, Messages0
  <2>4. SyncTyped'
    BY <1>1, <1>7, <1>10, <2>3, SyncSame DEF SyncTyped
  <2>5. ASSUME NEW i \in Files \ leapt', since' < i, i < m + 1
        PROVE  Sync!Handled(i)'
    BY <1>1, <1>3, <2>5, <1>4, <1>10, <2>1, <1>2, <1>9, HandledStays DEF Messages0, SyncInv, Before
  <2>6. Before(sub.cursor + 1)'
    BY <2>3, <2>5 DEF Before
  <2>7. ScanReads' /\ ScansJob'
    BY <1>1, <1>5, <1>10, ScanRests
  <2> QED BY <1>1, <1>7, <1>8, <1>9, <2>4, <2>6, <2>7, SyncSame, SyncMoves
<1>11. ASSUME scan' = [scan EXCEPT !.pc = "create", !.take = found \ blocked], sub' = sub
       PROVE  SyncInv'
  <2>1. /\ scan' \in ScanRecord /\ scan'.pc = "create" /\ scan'.cursor = scan.cursor
        /\ scan'.last = scan.last /\ scan'.take = found \ blocked /\ scan'.fine = {} /\ scan'.bad = {}
    BY <1>2, <1>11 DEF ScanRecord
  <2>2. SyncTyped'
    BY <1>1, <1>7, <1>11, <2>1, SyncSame DEF SyncTyped, ScanTyped, ScanRecord, Messages0
  <2>3. Before(sub.cursor + 1)'
    BY <1>9, <1>11, <2>2, CursorStays DEF SyncTyped
  <2> PICK a : a = scan.cursor + 1
    OBVIOUS
  <2>4. a \in Int /\ Before(a)
    BY <1>2, <1>3 DEF Before, Messages0
  <2>5. Before(a)'
    BY <1>9, <2>2, <2>4, BeforeStays DEF SyncInv, SyncTyped
  <2>6. Before(scan.cursor + 1)'
    BY <2>1, <2>5 DEF Before
  <2>7. ASSUME NEW i \in Files \ scan'.take, scan'.cursor < i, i <= scan'.last
        PROVE  i \in Ads /\ decided'[i] # "none"
    BY <1>4, <2>1, <2>7, <1>6 DEF Sync!Blocked
  <2>8. ScanReads'
    BY <1>2, <1>4, <2>1, <2>6, <2>7 DEF ScanReads
  <2>9. ScansJob'
    BY <1>1, <1>5, <2>1 DEF ScansJob, Sync!Jobs, Sync!Ids
  <2> QED BY <1>1, <1>7, <1>8, <1>9, <2>2, <2>3, <2>8, <2>9, SyncSame, SyncMoves
<1> QED BY <1>1, <1>10, <1>11

(* A job is made: the others stay as they are.                             *)
LEMMA SyncScanCreate ==
  ASSUME SyncInv, Sync!ScanCreate
  PROVE  SyncInv'
<1> PICK j \in Sync!Jobs :
      /\ jobs[j].status = "none"
      /\ jobs' = [jobs EXCEPT ![j] = [Sync!NoJob EXCEPT !.status = "queued",
                    !.from = scan.cursor + 1, !.last = scan.last, !.to = scan.to]]
      /\ scan' = [scan EXCEPT !.pc = "persist", !.job = j]
  BY DEF Sync!ScanCreate, Sync!IsNew
<1> PICK r : r = [Sync!NoJob EXCEPT !.status = "queued",
                    !.from = scan.cursor + 1, !.last = scan.last, !.to = scan.to]
  OBVIOUS
<1>1. /\ scan.pc = "create" /\ jobs' = [jobs EXCEPT ![j] = r]
      /\ UNCHANGED <<posts, sub, since, leapt, media, works, decided, restoring, fromNow>>
  BY DEF Sync!ScanCreate
<1>2. /\ scan \in ScanRecord /\ scan.cursor < scan.last /\ Before(scan.cursor + 1)
      /\ \A i \in scan.take : scan.cursor < i /\ i <= scan.last
      /\ scan.fine \subseteq scan.take /\ scan.bad \subseteq scan.take
  BY <1>1 DEF SyncInv, SyncTyped, ScanTyped, ScanReads
<1> PICK a, b : a = scan.cursor + 1 /\ b = scan.last
  OBVIOUS
<1>3. /\ scan.cursor \in Messages0 /\ scan.to \in Messages0 /\ b \in Messages0 /\ MaxId \in Nat
      /\ a \in Messages0 /\ a \in Int /\ b \in Int /\ j \in 0..MaxJobs
  BY <1>2 DEF ScanRecord, SyncInv, SyncBounds, Messages0, Sync!Jobs
<1>4. /\ r.status = "queued" /\ r.from = a /\ r.last = b /\ r.ad = 0 /\ r \in SyncJob
  <2>1. r = [status |-> "queued", done |-> FALSE, from |-> a, last |-> b, to |-> scan.to, ad |-> 0]
    BY DEF Sync!NoJob
  <2>2. 0 \in Messages0 /\ "queued" \in SyncStates /\ FALSE \in BOOLEAN
    BY <1>3 DEF Messages0, SyncStates
  <2>3. r \in SyncJob
    BY ONLY <1>3, <2>1, <2>2 DEF SyncJob
  <2>4. r.status = "queued" /\ r.from = a /\ r.last = b /\ r.ad = 0
    BY ONLY <2>1
  <2> QED BY <2>3, <2>4
<1>5. jobs \in [Sync!Jobs -> SyncJob] /\ \A k \in Sync!Jobs : jobs'[k] = IF k = j THEN r ELSE jobs[k]
  BY <1>1 DEF SyncInv, SyncTyped, SyncJobsTyped
<1>6. /\ scan' \in ScanRecord /\ scan'.pc = "persist" /\ scan'.cursor = scan.cursor
      /\ scan'.last = scan.last /\ scan'.job = j /\ scan'.take = scan.take
      /\ scan'.fine = scan.fine /\ scan'.bad = scan.bad
  BY <1>2, <1>3 DEF ScanRecord
<1>7. SyncTyped' /\ Keeps
  <2>1. jobs' \in [Sync!Jobs -> SyncJob]
    BY <1>1, <1>4, <1>5
  <2>2. SyncJobsTyped'
    BY <2>1 DEF SyncJobsTyped, SyncJob, SyncStates, Messages0, Sync!Jobs
  <2> QED BY <1>1, <1>2, <1>6, <2>2, SyncSame DEF SyncTyped, ScanTyped, ScanRecord, Messages0
<1>8. JobSound(j) /\ jobs[j] = Sync!NoJob /\ works[j] = "off" /\ \A i \in Sync!Ids : ~HasItem(j, i)
  BY DEF SyncInv, JobsSound, JobSound
<1>9. Before(sub.cursor + 1)'
  BY <1>1, <1>7, CursorStays DEF SyncTyped
<1>10. Before(a)'
  BY <1>2, <1>3, <1>7, BeforeStays DEF SyncInv, SyncTyped
<1>11. ScanReads'
  BY <1>1, <1>2, <1>6, <1>10 DEF ScanReads, SyncInv, Before
<1>12. \A i \in Sync!Ids : ~HasItem(j, i)'
  BY <1>1, <1>8 DEF HasItem
<1>13. ScansJob'
  BY <1>1, <1>4, <1>5, <1>6, <1>12 DEF ScansJob, SyncInv, Sync!Jobs, Sync!Ids, HasItem
<1>14. JobsSound'
  BY <1>1, <1>4, <1>5, <1>8, <1>10, <1>12, <1>7, SoundStays DEF JobsSound, Sync!Jobs, JobSound,
      Before, Sync!Ids, HasItem, SyncInv
<1>15. Restorers'
  BY <1>4, <1>5, <1>8, <1>1 DEF Sync!NoJob, SyncInv, Restorers, HasItem, JobMade, ItemMade,
      Sync!Jobs
<1> QED BY <1>7, <1>9, <1>11, <1>13, <1>14, <1>15 DEF SyncInv, SyncBounds

(* Items are made: those of a set that the job has not yet.                *)
LEMMA ItemsAreMade ==
  ASSUME SyncInv, NEW j \in Sync!Jobs, NEW ids, media' = Sync!Persisted(j, ids)
  PROVE  /\ MediaTyped'
         /\ \A k \in Sync!Jobs, i \in Sync!Ids :
               /\ HasItem(k, i)' <=> HasItem(k, i) \/ (k = j /\ i \in ids)
               /\ media'[k][i] = "scanner" => media[k][i] = "scanner"
    BY DEF SyncInv, SyncTyped, MediaTyped, Sync!Persisted, SyncItems, Sync!Jobs, Sync!Ids, HasItem

LEMMA SyncScanPersist ==
  ASSUME SyncInv, Sync!ScanPersist
  PROVE  SyncInv'
<1> PICK j : j = scan.job
  OBVIOUS
<1>1. /\ scan.pc = "persist" /\ media' = Sync!Persisted(j, scan.take)
      /\ scan' = [scan EXCEPT !.pc = "start"]
      /\ UNCHANGED <<posts, sub, since, leapt, jobs, works, decided, restoring, fromNow>>
  BY DEF Sync!ScanPersist
<1>2. /\ j \in Sync!Jobs /\ jobs[j].status # "none" /\ jobs[j].ad = 0
      /\ jobs[j].from = scan.cursor + 1 /\ jobs[j].last = scan.last
      /\ \A i \in Sync!Ids : HasItem(j, i) => i \in scan.take
  BY <1>1 DEF SyncInv, ScansJob
<1>3. /\ scan \in ScanRecord /\ scan.cursor < scan.last /\ Before(scan.cursor + 1)
      /\ \A i \in scan.take : scan.cursor < i /\ i <= scan.last
      /\ scan.fine \subseteq scan.take /\ scan.bad \subseteq scan.take
      /\ \A i \in Files \ scan.take :
              scan.cursor < i /\ i <= scan.last => i \in Ads /\ decided[i] # "none"
  BY <1>1 DEF SyncInv, SyncTyped, ScanTyped, ScanReads
<1> PICK a, b : a = scan.cursor + 1 /\ b = scan.last
  OBVIOUS
<1>4. a \in Int /\ b \in Int /\ scan.cursor \in Int /\ \A i \in Files : i \in Int /\ i \in Sync!Ids
  BY <1>3 DEF ScanRecord, Messages0, SyncInv, SyncBounds, Sync!Ids
<1>5. /\ MediaTyped'
      /\ \A k \in Sync!Jobs, i \in Sync!Ids :
            /\ HasItem(k, i)' <=> HasItem(k, i) \/ (k = j /\ i \in scan.take)
            /\ media'[k][i] = "scanner" => media[k][i] = "scanner"
  BY <1>1, <1>2, ItemsAreMade
<1>6. /\ scan' \in ScanRecord /\ scan'.pc = "start" /\ scan'.cursor = scan.cursor
      /\ scan'.last = scan.last /\ scan'.job = j /\ scan'.take = scan.take
      /\ scan'.fine = scan.fine /\ scan'.bad = scan.bad
  BY <1>1, <1>3 DEF ScanRecord
<1>7. Keeps
  BY <1>1, <1>5 DEF Keeps, SyncInv, SyncTyped, PlainTyped, Messages0
<1>8. SyncTyped'
  BY <1>1, <1>3, <1>5, <1>6, SyncSame DEF SyncTyped, ScanTyped, ScanRecord, Messages0
<1>9. Before(sub.cursor + 1)'
  BY <1>1, <1>7, <1>8, CursorStays DEF SyncTyped
<1>10. Before(a)'
  BY <1>3, <1>4, <1>7, <1>8, BeforeStays DEF SyncInv, SyncTyped
<1>11. ScanReads'
  BY <1>3, <1>6, <1>10 DEF ScanReads, Before
<1>12. HandledIn(a, b)'
  BY <1>2, <1>4, <1>5, <1>3, <1>1 DEF HandledIn, Sync!Handled, HasItem, Sync!Jobs
<1>13. ScansJob'
  BY <1>2, <1>5, <1>1, <1>6, <1>12 DEF SyncInv, ScansJob, HandledIn, HasItem, Sync!Jobs, Sync!Ids
<1>14. JobsSound'
  BY <1>2, <1>5, <1>3, <1>4, <1>1, <1>10, <1>12, <1>7, <1>8, SoundStays DEF JobsSound, Sync!Jobs,
      SyncInv, JobSound, SyncBounds, Sync!Ids, Before, HandledIn
<1>15. Restorers'
  BY <1>4, <1>5, <1>1 DEF SyncInv, SyncBounds, Restorers, JobMade, ItemMade, Sync!Jobs
<1> QED BY <1>8, <1>9, <1>11, <1>13, <1>14, <1>15 DEF SyncInv, SyncBounds

LEMMA SyncScanStart ==
  ASSUME SyncInv, Sync!ScanStart
  PROVE  SyncInv'
<1> PICK j : j = scan.job
  OBVIOUS
<1>1. /\ scan.pc = "start" /\ scan' = [scan EXCEPT !.pc = "load"]
      /\ jobs' = jobs \/ jobs' = Sync!WithStatus(j, "running")
      /\ UNCHANGED <<posts, sub, since, leapt, media, works, decided, restoring, fromNow>>
  BY DEF Sync!ScanStart
<1>2. /\ j \in Sync!Jobs /\ jobs[j].status # "none" /\ jobs[j].ad = 0
      /\ jobs[j].from = scan.cursor + 1 /\ jobs[j].last = scan.last
      /\ \A i \in Sync!Ids : HasItem(j, i) => i \in scan.take
      /\ HandledIn(scan.cursor + 1, scan.last)
  BY <1>1 DEF SyncInv, ScansJob
<1>3. /\ scan \in ScanRecord /\ scan.cursor < scan.last /\ Before(scan.cursor + 1)
      /\ \A i \in scan.take : scan.cursor < i /\ i <= scan.last
      /\ scan.fine \subseteq scan.take /\ scan.bad \subseteq scan.take
  BY <1>1 DEF SyncInv, SyncTyped, ScanTyped, ScanReads
<1>4. "running" \in SyncStates \ {"none"}
  BY DEF SyncStates
<1>5. SyncJobsTyped' /\ JobsFixed
  BY <1>1, <1>2, <1>4, StatusIsSet
<1>6. /\ scan' \in ScanRecord /\ scan'.pc = "load" /\ scan'.cursor = scan.cursor
      /\ scan'.last = scan.last /\ scan'.job = j /\ scan'.take = scan.take
      /\ scan'.fine = scan.fine /\ scan'.bad = scan.bad
  BY <1>1, <1>3 DEF ScanRecord
<1>7. SyncTyped' /\ Keeps
  BY <1>1, <1>3, <1>5, <1>6, SyncSame DEF SyncTyped, ScanTyped, ScanRecord, Messages0
<1>8. Before(sub.cursor + 1)'
  BY <1>1, <1>7, CursorStays DEF SyncTyped
<1> PICK a, b : a = scan.cursor + 1 /\ b = scan.last
  OBVIOUS
<1>9. a \in Int /\ b \in Int /\ Before(a) /\ HandledIn(a, b)
  BY <1>2, <1>3 DEF ScanRecord, Messages0
<1>10. Before(a)' /\ HandledIn(a, b)'
  BY <1>7, <1>9, BeforeStays, HandledInStays DEF SyncInv, SyncTyped
<1>11. ScanReads'
  BY <1>3, <1>6, <1>10 DEF ScanReads, Before
<1>12. ScansJob'
  BY <1>2, <1>5, <1>1, <1>6, <1>10 DEF JobsFixed, SyncInv, ScansJob, HandledIn, HasItem, Sync!Jobs,
      Sync!Ids
<1> QED BY <1>1, <1>5, <1>7, <1>8, <1>11, <1>12, SyncSame, SyncMoves

LEMMA SyncScanTally ==
  ASSUME SyncInv, Sync!ScanTally
  PROVE  SyncInv'
<1> PICK j : j = scan.job
  OBVIOUS
<1>1. /\ scan.pc = "load" /\ \A i \in Sync!Ids : media[j][i] # "scanner"
      /\ UNCHANGED <<posts, sub, since, leapt, jobs, media, works, decided, restoring, fromNow>>
  BY DEF Sync!ScanTally, Sync!Drained
<1>2. \A k \in Sync!Jobs, i \in Sync!Ids : media[k][i] # "scanner"
  BY <1>1 DEF SyncInv, ScansJob
<1>3. CASE scan' = Sync!Idle
  BY <1>1, <1>2, <1>3, SyncSame, SyncQuiet DEF ScannersFit, SyncTyped
<1>4. CASE scan' # Sync!Idle
  <2>1. scan \in ScanRecord /\ scan.fine \subseteq scan.take /\ scan.bad \subseteq scan.take
    BY DEF SyncInv, SyncTyped, ScanTyped
  <2>2. scan.cursor \in Messages0 /\ scan.last \in Messages0
    BY <2>1 DEF ScanRecord
  <2> PICK n \in Messages0 : n <= scan.last /\ scan' = [scan EXCEPT !.pc = "finish", !.to = n]
    <3>1. PICK n \in IF scan.bad # {} THEN Sync!Contiguous ELSE {scan.last} :
              scan' = [scan EXCEPT !.pc = "finish", !.to = n]
      BY <1>4 DEF Sync!ScanTally
    <3>2. n \in scan.cursor .. scan.last \/ n = scan.last
      BY <3>1 DEF Sync!Contiguous
    <3>3. n \in Messages0 /\ n <= scan.last
      BY ONLY <2>2, <3>2, SyncInv DEF Messages0, SyncInv, SyncBounds
    <3> QED BY <3>1, <3>3
  <2>3. /\ scan' \in ScanRecord /\ scan'.pc = "finish" /\ scan'.cursor = scan.cursor
        /\ scan'.last = scan.last /\ scan'.to = n /\ scan'.job = j /\ scan'.take = scan.take
        /\ scan'.fine = scan.fine /\ scan'.bad = scan.bad
    BY <2>1 DEF ScanRecord
  <2>4. SyncTyped' /\ Keeps
    BY <1>1, <2>1, <2>3, SyncSame DEF SyncTyped, ScanTyped, ScanRecord, Messages0
  <2>5. Before(sub.cursor + 1)'
    BY <1>1, <2>4, CursorStays DEF SyncTyped
  <2> PICK a, b : a = scan.cursor + 1 /\ b = scan.last
    OBVIOUS
  <2>6. a \in Int /\ b \in Int /\ Before(a) /\ HandledIn(a, b)
    BY <1>1, <2>2 DEF Messages0, SyncInv, ScanReads, ScansJob, Before, HandledIn
  <2>7. Before(a)' /\ HandledIn(a, b)'
    BY <2>4, <2>6, BeforeStays, HandledInStays DEF SyncInv, SyncTyped
  <2>8. ScanReads'
    BY <1>1, <2>3, <2>7 DEF ScanReads, Before, SyncInv
  <2>9. ScansJob'
    BY <1>1, <1>2, <2>3, <2>7 DEF ScansJob, SyncInv, HandledIn, HasItem, Sync!Jobs, Sync!Ids
  <2> QED BY <1>1, <2>4, <2>5, <2>8, <2>9, SyncSame, SyncMoves
<1> QED BY <1>3, <1>4

(* The job and the cursor.                                                 *)
LEMMA Finalized ==
  ASSUME SyncInv, NEW j \in Sync!Jobs, NEW n \in Int, n <= MaxId,
         sub' = [sub EXCEPT !.cursor = Sync!Max({@, n})]
  PROVE  /\ SubTyped' /\ sub'.cursor \in {sub.cursor, n}
         /\ sub.cursor <= sub'.cursor /\ n <= sub'.cursor
    BY LargerOne DEF SyncInv, SyncTyped, SubTyped, Messages0, SyncBounds

LEMMA SyncScanFinish ==
  ASSUME SyncInv, Sync!ScanFinish
  PROVE  SyncInv'
<1> PICK j : j = scan.job
  OBVIOUS
<1>1. /\ scan.pc = "finish" /\ scan' = Sync!Idle
      /\ UNCHANGED <<posts, since, leapt, media, works, decided, restoring, fromNow>>
  BY DEF Sync!ScanFinish
<1>2. /\ j \in Sync!Jobs /\ jobs[j].status # "none" /\ HandledIn(scan.cursor + 1, scan.last)
      /\ \A k \in Sync!Jobs, i \in Sync!Ids : media[k][i] # "scanner"
  BY <1>1 DEF SyncInv, ScansJob
<1>3. ScannersFit /\ ScanReads' /\ ScansJob'
  BY <1>1, <1>2, ScanRests DEF ScannersFit
<1>4. CASE UNCHANGED <<jobs, sub>>
  BY <1>1, <1>3, <1>4, SyncSame, SyncQuiet DEF SyncTyped
<1>5. CASE ~UNCHANGED <<jobs, sub>>
  <2>1. PICK s \in {"completed", "partial"} : Sync!Finalizes(j, s, scan.to)
    BY <1>5 DEF Sync!ScanFinish
  <2>2. s \in SyncStates \ {"none"}
    BY DEF SyncStates
  <2>3. SyncJobsTyped' /\ JobsFixed
    BY <1>2, <2>1, <2>2, StatusIsSet DEF Sync!Finalizes, Sync!Closed
  <2>4. /\ scan.to \in Messages0 /\ scan.cursor \in Messages0 /\ scan.last \in Messages0
        /\ scan.to <= scan.last /\ Before(scan.cursor + 1)
    BY <1>1 DEF SyncInv, SyncTyped, ScanTyped, ScanRecord, ScanReads
  <2>5. scan.to \in Int /\ scan.to <= MaxId
    BY <2>4 DEF Messages0
  <2>6. SubTyped' /\ sub'.cursor \in {sub.cursor, scan.to}
    BY <1>2, <2>1, <2>5, Finalized DEF Sync!Finalizes
  <2>7. SyncTyped' /\ Keeps
    BY <1>1, <2>3, <2>6, SyncSame DEF SyncTyped
  <2>8. Before(sub.cursor + 1)'
    BY <1>1, <2>4, <2>6, <1>2, <2>7, HandledStays DEF Before, SyncInv, SyncBounds, Messages0,
        HandledIn
  <2> QED BY <1>1, <1>3, <2>3, <2>7, <2>8, SyncSame, SyncMoves
<1> QED BY <1>4, <1>5

LEMMA SyncScanBreaks ==
  ASSUME SyncInv, Sync!ScanBreaks
  PROVE  SyncInv'
<1> PICK j : j = scan.job
  OBVIOUS
<1>1. /\ scan.pc # "idle" /\ scan' = Sync!Idle
      /\ sub' = [sub EXCEPT !.on = FALSE] \/ sub' = sub
      /\ media' = IF scan.pc = "load" THEN Sync!GivenBack(j, "scanner") ELSE media
      /\ UNCHANGED <<posts, since, leapt, jobs, works, decided, restoring, fromNow>>
  BY DEF Sync!ScanBreaks, Sync!Slip
<1>2. SubTyped' /\ sub'.cursor = sub.cursor
  BY <1>1 DEF SyncInv, SyncTyped, SubTyped, Messages0
<1>3. \A k \in Sync!Jobs, i \in Sync!Ids :
          media[k][i] = "scanner" => scan.pc = "load" /\ j \in Sync!Jobs /\ k = j
  BY DEF SyncInv, ScansJob
<1>4. CASE scan.pc # "load"
  BY <1>1, <1>3, <1>4, <1>2, SyncSame, SyncQuiet DEF ScannersFit, SyncTyped
<1>5. CASE scan.pc = "load"
  <2>1. j \in Sync!Jobs /\ media \in [Sync!Jobs -> [Sync!Ids -> SyncItems]]
    BY <1>5 DEF SyncInv, ScansJob, SyncTyped, MediaTyped
  <2> PICK f : f = [i \in Sync!Ids |-> IF media[j][i] = "scanner" THEN "pending" ELSE media[j][i]]
    OBVIOUS
  <2>2. media' = [media EXCEPT ![j] = f] /\ f \in [Sync!Ids -> SyncItems]
    BY <1>1, <1>5, <2>1 DEF Sync!GivenBack, SyncItems
  <2>3. \A i \in Sync!Ids : f[i] # "none" <=> media[j][i] # "none"
    BY <2>1
  <2>4. MediaTyped' /\ ItemsFixed
    BY ONLY SyncInv, <2>1, <2>2, <2>3, ItemsAreSet
  <2>5. \A k \in Sync!Jobs, i \in Sync!Ids : media'[k][i] # "scanner"
    BY <1>3, <2>1, <2>2
  <2>6. ScannersFit
    BY <2>5 DEF ScannersFit
  <2> QED BY <1>1, <1>2, <2>4, <2>6, SyncSame, SyncQuiet DEF SyncTyped
<1> QED BY <1>4, <1>5

LEMMA SyncRestoreCreate ==
  ASSUME SyncInv, NEW i \in Ads, Sync!RestoreCreate(i)
  PROVE  SyncInv'
<1>1. /\ restoring' = [restoring EXCEPT ![i] = "created"] /\ restoring[i] = "claimed"
      /\ UNCHANGED <<posts, sub, since, leapt, media, scan, works, decided, fromNow>>
  BY DEF Sync!RestoreCreate
<1>2. /\ JudgedTyped' /\ i \in Messages0 /\ i # 0 /\ MaxId \in Nat
      /\ \A k \in Ads : restoring'[k] = IF k = i THEN "created" ELSE restoring[k]
  BY <1>1 DEF SyncInv, SyncTyped, JudgedTyped, SyncBounds, Messages0
<1>3. /\ MediaTyped' /\ ItemsFixed /\ WorksTyped' /\ WorksFit /\ ScannersFit /\ Keeps
      /\ PlainTyped' /\ SubTyped' /\ ScanTyped'
  BY <1>1, SyncSame
<1>4. /\ \A j, k \in Sync!Jobs : jobs[j].ad = jobs[k].ad /\ jobs[j].ad # 0 => j = k
      /\ \A k \in Ads :
            /\ restoring[k] \in JobMade => \E j \in Sync!Jobs : jobs[j].ad = k
            /\ restoring[k] \in ItemMade => \E j \in Sync!Jobs : jobs[j].ad = k /\ HasItem(j, k)
  BY DEF SyncInv, Restorers
<1>5. CASE Sync!JobOf(i) # {} /\ jobs' = jobs
  BY <1>2, <1>3, <1>5, SyncSame, <1>4, <1>1, ScanStays, AllSoundStay, CursorStays DEF SyncTyped,
      Sync!JobOf, ItemMade, Restorers, JobMade, HasItem, Sync!Jobs, SyncInv, SyncBounds
<1>6. ASSUME Sync!JobOf(i) = {}, NEW j \in Sync!Jobs, Sync!IsNew(j),
             jobs' = [jobs EXCEPT ![j] = [Sync!NoJob EXCEPT !.status = "queued", !.ad = i]]
      PROVE  SyncInv'
  <2> PICK r : r = [Sync!NoJob EXCEPT !.status = "queued", !.ad = i]
    OBVIOUS
  <2>1. r = [status |-> "queued", done |-> FALSE, from |-> 0, last |-> 0, to |-> 0, ad |-> i]
    BY DEF Sync!NoJob
  <2>2. 0 \in Messages0 /\ "queued" \in SyncStates /\ FALSE \in BOOLEAN
    BY <1>2 DEF Messages0, SyncStates
  <2>3. r \in SyncJob
    BY ONLY <1>2, <2>1, <2>2 DEF SyncJob
  <2>4. r.status = "queued" /\ r.from = 0 /\ r.last = 0 /\ r.ad = i
    BY ONLY <2>1
  <2>5. jobs \in [Sync!Jobs -> SyncJob] /\ jobs' = [jobs EXCEPT ![j] = r]
    BY <1>6 DEF SyncInv, SyncTyped, SyncJobsTyped
  <2>6. /\ jobs' \in [Sync!Jobs -> SyncJob]
        /\ \A k \in Sync!Jobs : jobs'[k] = IF k = j THEN r ELSE jobs[k]
    BY <2>3, <2>5
  <2>7. SyncTyped'
    BY <2>6, <1>2, <1>3 DEF SyncJobsTyped, SyncJob, SyncStates, Messages0, Sync!Jobs, SyncTyped
  <2>8. jobs[j].status = "none" /\ JobSound(j)
    BY <1>6 DEF Sync!IsNew, SyncInv, JobsSound
  <2>9. jobs[j].ad = 0 /\ works[j] = "off" /\ \A k \in Sync!Ids : ~HasItem(j, k)
    BY <2>8 DEF JobSound, Sync!NoJob
  <2>10. ScanReads' /\ ScansJob'
    BY <1>3, <2>6, <2>8, <1>1, <2>7, ScanKept DEF ItemsFixed
  <2>11. Before(sub.cursor + 1)'
    BY <1>1, <1>3, CursorStays
  <2>12. Before(0)'
    BY DEF Before, SyncInv, SyncBounds, SyncTyped, PlainTyped, Messages0
  <2>13. JobsSound'
    <3> SUFFICES ASSUME NEW k \in Sync!Jobs PROVE JobSound(k)'
      BY DEF JobsSound, Sync!Jobs
    <3>1. CASE k = j
      BY <1>1, <1>2, <2>4, <2>6, <2>9, <2>12, <3>1 DEF JobSound, Before
    <3>2. CASE k # j
      BY <1>1, <1>3, <2>6, <3>2, <2>7, SoundStays DEF ItemsFixed, SyncInv, JobsSound, JobSound
    <3> QED BY <3>1, <3>2
  <2>14. Restorers'
    <3>1. \A k \in Sync!Jobs : jobs[k].ad # i
      BY <1>6 DEF Sync!JobOf
    <3>2. ASSUME NEW k \in Sync!Jobs, NEW h \in Sync!Jobs, jobs'[k].ad = jobs'[h].ad, jobs'[k].ad # 0
          PROVE  k = h
      <4>1. \A g \in Sync!Jobs : jobs'[g].ad = IF g = j THEN i ELSE jobs[g].ad
        BY <2>4, <2>6
      <4>2. jobs'[k].ad = i => k = j
        BY <3>1, <4>1
      <4>3. jobs'[h].ad = i => h = j
        BY <3>1, <4>1
      <4> QED BY <1>4, <3>2, <4>1, <4>2, <4>3
    <3>3. ASSUME NEW k \in Ads
          PROVE  /\ restoring'[k] \in JobMade => \E h \in Sync!Jobs : jobs'[h].ad = k
                 /\ restoring'[k] \in ItemMade => \E h \in Sync!Jobs : jobs'[h].ad = k /\ HasItem(h, k)
      <4>1. CASE k = i
        BY <1>2, <2>4, <2>6, <4>1 DEF ItemMade
      <4>2. CASE k # i
        BY <2>6, <2>9, <1>2, <1>4, <4>2 DEF SyncInv, SyncBounds
      <4> QED BY <4>1, <4>2
    <3> QED BY <1>1, <3>2, <3>3 DEF Restorers, JobMade, ItemMade, HasItem, Sync!Jobs
  <2> QED BY <2>7, <2>10, <2>11, <2>13, <2>14 DEF SyncInv, SyncBounds
<1> QED BY <1>5, <1>6 DEF Sync!RestoreCreate

LEMMA SyncRestorePersist ==
  ASSUME SyncInv, NEW i \in Ads, Sync!RestorePersist(i)
  PROVE  SyncInv'
<1> PICK j \in Sync!Jobs : jobs[j].ad = i /\ media' = Sync!Persisted(j, {i})
  BY DEF Sync!RestorePersist, Sync!JobOf
<1>1. /\ restoring' = [restoring EXCEPT ![i] = "stored"] /\ restoring[i] = "created"
      /\ UNCHANGED <<posts, sub, since, leapt, jobs, scan, works, decided, fromNow>>
  BY DEF Sync!RestorePersist
<1>2. /\ JudgedTyped' /\ i # 0 /\ i \in Sync!Ids
      /\ \A k \in Ads : restoring'[k] = IF k = i THEN "stored" ELSE restoring[k]
  <2>1. i # 0 /\ i \in Sync!Ids
    BY DEF SyncInv, SyncBounds, Sync!Ids
  <2>2. JudgedTyped
    BY DEF SyncInv, SyncTyped
  <2>3. \A k \in Ads : restoring'[k] = IF k = i THEN "stored" ELSE restoring[k]
    BY <1>1, <2>2 DEF JudgedTyped
  <2>4. JudgedTyped'
    BY <1>1, <2>2 DEF JudgedTyped
  <2> QED BY <2>1, <2>3, <2>4
<1>3. /\ MediaTyped'
      /\ \A k \in Sync!Jobs, h \in Sync!Ids :
            /\ HasItem(k, h)' <=> HasItem(k, h) \/ (k = j /\ h \in {i})
            /\ media'[k][h] = "scanner" => media[k][h] = "scanner"
  BY ItemsAreMade
<1>4. SyncTyped' /\ JobsFixed
  BY <1>1, <1>2, <1>3, SyncSame DEF SyncTyped
<1>5. Keeps /\ ScannersFit
  <2>1. Keeps
    BY <1>1, <1>3 DEF Keeps, SyncInv, SyncTyped, PlainTyped, Messages0
  <2>2. \A k \in Sync!Jobs, h \in Sync!Ids : media'[k][h] = "scanner" => media[k][h] = "scanner"
    BY <1>3
  <2> QED BY <1>1, <2>1, <2>2 DEF ScannersFit, SyncInv, ScansJob
<1>6. Before(sub.cursor + 1)'
  BY <1>1, <1>4, <1>5, CursorStays DEF SyncTyped
<1>7. ScanReads' /\ ScansJob'
  BY <1>1, <1>2, <1>3, <1>4, <1>5, ScanKept
<1>8. JobsSound'
  <2>1. i # 0 /\ i \in Sync!Ids
    BY DEF SyncInv, SyncBounds, Sync!Ids
  <2>2. jobs[j].status # "none" /\ jobs[j].ad # 0 /\ jobs' = jobs /\ works' = works
    BY <1>1, <1>2, <2>1, JobWasMade
  <2>3. JobSound(j)'
    <3>1. Before(jobs[j].from) /\ jobs[j].from \in Int
      BY DEF SyncInv, JobsSound, JobSound, SyncTyped, SyncJobsTyped, SyncJob, Messages0
    <3>2. Before(jobs[j].from)'
      BY <2>2, <3>1, <1>4, <1>5, BeforeStays DEF SyncInv, SyncTyped, Before
    <3>3. HasItem(j, i)'
      BY <1>3, <2>1
    <3> QED BY <2>1, <2>2, <3>2, <3>3 DEF JobSound
  <2>4. ASSUME NEW k \in Sync!Jobs, k # j
        PROVE  JobSound(k)'
    <3>1. \A h \in Sync!Ids : HasItem(k, h)' <=> HasItem(k, h)
      BY <1>3, <2>4
    <3>2. JobSound(k) /\ (works[k] # "off" => jobs[k].status # "none")
      BY JobWasMade DEF SyncInv, JobsSound
    <3>3. works[k] # "off" => \E h \in Sync!Ids : HasItem(k, h)
      BY <3>2 DEF JobSound
    <3> QED BY <1>4, <1>5, <2>2, <3>1, <3>2, <3>3, SoundStays
  <2> QED BY <2>3, <2>4 DEF JobsSound, Sync!Jobs
<1>9. Restorers'
  <2>1. /\ \A h, k \in Sync!Jobs : jobs[h].ad = jobs[k].ad /\ jobs[h].ad # 0 => h = k
        /\ \A k \in Ads :
              /\ restoring[k] \in JobMade => \E h \in Sync!Jobs : jobs[h].ad = k
              /\ restoring[k] \in ItemMade => \E h \in Sync!Jobs : jobs[h].ad = k /\ HasItem(h, k)
    BY DEF SyncInv, Restorers
  <2>2. ASSUME NEW k \in Ads
        PROVE  /\ restoring'[k] \in JobMade => \E h \in Sync!Jobs : jobs[h].ad = k
               /\ restoring'[k] \in ItemMade => \E h \in Sync!Jobs : jobs[h].ad = k /\ HasItem(h, k)'
    BY <1>2, <1>3, <2>1 DEF SyncInv, SyncBounds, Sync!Ids
  <2> QED BY <1>1, <2>1, <2>2 DEF Restorers, JobMade, ItemMade, HasItem, Sync!Jobs
<1> QED BY <1>4, <1>6, <1>7, <1>8, <1>9 DEF SyncInv, SyncBounds

(* The end of a recovered job: the cursor passes files before its range,   *)
(* those its scan has read, or that have an item, and what it leaps over.  *)
LEMMA AdvanceIsHandled ==
  ASSUME SyncInv, NEW j \in Sync!Jobs, works[j] \in {"finish", "faulty"}, jobs[j].ad = 0,
         NEW n \in Sync!Advances(j)
  PROVE  /\ n \in Int /\ n <= MaxId
         /\ \A i \in Files \ leapt :
               /\ since < i /\ i <= n
               /\ works[j] = "finish" => i \notin jobs[j].last + 1 .. jobs[j].to
               => Sync!Handled(i)
<1> PICK a, b, t : a = jobs[j].from /\ b = jobs[j].last /\ t = jobs[j].to
  OBVIOUS
<1>1. /\ a \in Messages0 /\ b \in Messages0 /\ t \in Messages0 /\ MaxId \in Nat
      /\ \A i \in Files : i \in Int /\ i \in Sync!Ids
  BY DEF SyncInv, SyncTyped, SyncJobsTyped, SyncJob, SyncBounds, Sync!Ids
<1>2. /\ Before(a) /\ \E i \in Sync!Ids : HasItem(j, i)
      /\ \A i \in Sync!Ids : HasItem(j, i) => a <= i /\ i <= b /\ HandledIn(a, b)
  BY DEF SyncInv, JobsSound, JobSound, HandledIn
<1>3. HandledIn(a, b)
  BY <1>2
<1>4. \A i \in Files \ leapt : since < i /\ i <= b => Sync!Handled(i)
  BY <1>1, <1>2, <1>3 DEF Messages0, Before, HandledIn
<1>5. CASE works[j] = "finish"
  BY <1>5, <1>1, <1>4 DEF Sync!Advances, Messages0
<1>6. CASE works[j] # "finish" /\ Sync!Failed(j) # {}
  <2> PICK k \in Sync!Failed(j) : n = Sync!Max({a, k}) - 1
    BY <1>6 DEF Sync!Advances
  <2>1. k \in Sync!Ids /\ HasItem(j, k)
    BY DEF Sync!Failed, HasItem
  <2>2. k \in Int /\ a <= k /\ k <= b
    BY <1>1, <1>2, <2>1 DEF Sync!Ids
  <2> PICK m : m = Sync!Max({a, k})
    OBVIOUS
  <2>3. m \in {a, k}
    <3>1. a \in Int /\ k \in Int
      BY <1>1, <2>2 DEF Messages0
    <3> QED BY <3>1, LargerOne
  <2>4. n \in Int /\ n <= b
    BY <1>1, <2>2, <2>3 DEF Messages0
  <2>5. \A i \in Files : i <= n => i <= b
    BY <1>1, <2>4 DEF Messages0
  <2>6. n <= MaxId
    BY <1>1, <2>4 DEF Messages0
  <2> QED BY <1>4, <2>4, <2>5, <2>6
<1>7. CASE works[j] # "finish" /\ Sync!Failed(j) = {}
  BY <1>7, <1>1, <1>2 DEF Sync!Advances, Messages0, Before, Sync!Handled
<1> QED BY <1>5, <1>6, <1>7

LEMMA SyncComplete ==
  ASSUME SyncInv, NEW j \in Sync!Jobs, Sync!Complete(j)
  PROVE  SyncInv'
<1>1. /\ works[j] \in {"finish", "faulty"} /\ works' = [works EXCEPT ![j] = "off"]
      /\ UNCHANGED <<posts, since, media, scan, decided, restoring, fromNow>>
  BY DEF Sync!Complete
<1>2. WorksTyped' /\ WorksFit
  BY <1>1, WorkIsSet
<1>3. jobs[j].status # "none"
  BY <1>1, JobWasMade
<1>4. ASSUME UNCHANGED <<sub, leapt>>, jobs' = jobs \/ jobs' = Sync!Closed(j, "failed")
      PROVE  SyncInv'
  BY <1>3, <1>4, StatusIsSet, <1>1, <1>2, SyncSame, SyncQuiet DEF SyncStates, Sync!Closed, SyncTyped
<1>5. ASSUME jobs[j].ad = 0, NEW n \in Sync!Advances(j), NEW s \in {"completed", "partial"},
             Sync!Finalizes(j, s, n),
             leapt' = IF works[j] = "finish"
                      THEN leapt \cup {i \in jobs[j].last + 1 .. jobs[j].to : i > sub.cursor}
                      ELSE leapt
      PROVE  SyncInv'
  <2>1. s \in SyncStates \ {"none"}
    BY DEF SyncStates
  <2>2. SyncJobsTyped' /\ JobsFixed
    BY <1>3, <1>5, <2>1, StatusIsSet DEF Sync!Finalizes, Sync!Closed
  <2>3. /\ n \in Int /\ n <= MaxId
        /\ \A i \in Files \ leapt :
              /\ since < i /\ i <= n
              /\ works[j] = "finish" => i \notin jobs[j].last + 1 .. jobs[j].to
              => Sync!Handled(i)
    BY <1>1, <1>5, AdvanceIsHandled
  <2>4. SubTyped' /\ sub'.cursor \in {sub.cursor, n}
    BY <1>5, <2>3, Finalized DEF Sync!Finalizes
  <2>5. jobs[j].last \in Messages0 /\ jobs[j].to \in Messages0 /\ MaxId \in Nat
    BY DEF SyncInv, SyncTyped, SyncJobsTyped, SyncJob, SyncBounds
  <2>6. leapt \subseteq leapt' /\ leapt' \subseteq Sync!Ids
    <3>1. jobs[j].last + 1 .. jobs[j].to \subseteq Sync!Ids
      BY ONLY <2>5 DEF Messages0, Sync!Ids
    <3>2. leapt \subseteq Sync!Ids
      BY DEF SyncInv, SyncTyped, PlainTyped
    <3>3. CASE works[j] = "finish"
      BY <1>5, <3>1, <3>2, <3>3
    <3>4. CASE works[j] # "finish"
      BY <1>5, <3>2, <3>4
    <3> QED BY <3>3, <3>4
  <2>7. PlainTyped'
    BY <1>1, <2>6 DEF SyncInv, SyncTyped, PlainTyped, Messages0, Sync!Ids
  <2>8. SyncTyped' /\ ItemsFixed /\ ScannersFit /\ RestoringFits
    BY <1>1, <1>2, <2>2, <2>4, <2>7, SyncSame DEF SyncTyped
  <2>9. Keeps
    BY <1>1, <2>6, <2>8 DEF Keeps, ItemsFixed, SyncInv, SyncTyped, PlainTyped, Messages0
  <2>10. ScanReads' /\ ScansJob'
    BY <1>1, <2>2, <2>8, <2>9, ScanStays
  <2>11. Before(sub.cursor + 1)'
    BY <1>1, <2>6, <2>9, HandledStays, <2>3, <2>4, <1>5 DEF Before, SyncInv, SyncBounds, SyncTyped,
        SubTyped, Messages0
  <2> QED BY <1>2, <2>2, <2>8, <2>9, <2>10, <2>11, SyncMoves
<1>6. \/ UNCHANGED <<sub, leapt>> /\ (jobs' = jobs \/ jobs' = Sync!Closed(j, "failed"))
      \/ /\ jobs[j].ad = 0
         /\ \E n \in Sync!Advances(j) :
               Sync!Finalizes(j, IF works[j] = "finish" THEN "completed" ELSE "partial", n)
         /\ leapt' = IF works[j] = "finish"
                     THEN leapt \cup {i \in jobs[j].last + 1 .. jobs[j].to : i > sub.cursor}
                     ELSE leapt
  BY DEF Sync!Complete
<1> QED BY <1>4, <1>5, <1>6

(* The whole of the module.                                                *)
LEMMA SyncStart ==
  ASSUME SyncBounds, Sync!Init
  PROVE  SyncInv
    BY DEF Sync!Init, SyncBounds, Messages0, Sync!NoJob, SyncJob, SyncStates, Sync!Idle, ScanRecord,
        MediaTyped, WorksTyped, SyncItems, SyncJobsTyped, ScanTyped, SyncTyped, PlainTyped,
        JudgedTyped, SubTyped, Before, ScanReads, ScansJob, JobsSound, JobSound, HasItem, Restorers,
        JobMade, ItemMade, SyncInv

LEMMA SyncSteps ==
  ASSUME SyncInv, [Sync!Next]_(Sync!vars)
  PROVE  SyncInv'
    BY SyncSame, SyncQuiet, SyncScanRow, SyncScanLook, SyncScanRead, SyncScanCreate,
        SyncScanPersist, SyncScanStart, SyncScanTally, SyncScanFinish, SyncScanBreaks, SyncRepair,
        SyncPick, SyncBegin, SyncLoaded, SyncComplete, SyncWorkBreaks, SyncPause, SyncCancel,
        SyncRetry, SyncRelease, SyncClaim, SyncSettle, SyncRestores, SyncRestoreCreate,
        SyncRestorePersist, SyncRestoreStart, SyncRestoreDone, SyncUser, SyncFromNow, SyncCrash DEF
        Sync!vars, SyncTyped, Sync!Scans, Sync!Works, Sync!Restores, Sync!Next

(* An advertisement has at most one job.                                   *)
LEMMA OneJob ==
  ASSUME SyncInv, NEW i \in Ads
  PROVE  Sync!Cardinality(Sync!JobOf(i)) <= 1
<1>1. i # 0
  BY DEF SyncInv, SyncBounds
<1>2. \A j, k \in Sync!JobOf(i) : j = k
  BY <1>1 DEF SyncInv, Restorers, Sync!JobOf
<1>3. Sync!Cardinality(Sync!JobOf(i)) = Cardinality(Sync!JobOf(i))
  BY Zenon DEF Sync!Cardinality, Cardinality
<1>4. CASE Sync!JobOf(i) = {}
  BY <1>3, <1>4, FS_EmptySet
<1>5. CASE Sync!JobOf(i) # {}
  <2> PICK j : j \in Sync!JobOf(i)
    BY <1>5
  <2>1. Sync!JobOf(i) = {j}
    BY <1>2
  <2>2. Cardinality({j}) = 1
    BY FS_Singleton
  <2> QED BY <1>3, <2>1, <2>2
<1> QED BY <1>4, <1>5

(* Whatever scans, recovery passes, crashes, controls and restored         *)
(* advertisements do: the cursor of a subscription passes a file only when *)
(* it was judged or has an item, unless the end of a recovered job leaps   *)
(* over it, and what is restored has one job, with its item.               *)
THEOREM SyncTheorem ==
  ASSUME SyncBounds
  PROVE  Sync!Spec => [](Sync!TypeOK /\ Sync!SyncKept)
<1>1. Sync!Init => SyncInv
  BY SyncStart
<1>2. SyncInv /\ [Sync!Next]_(Sync!vars) => SyncInv'
  BY SyncSteps
<1>3. SyncInv => Sync!TypeOK
  BY DEF SyncInv, SyncTyped, PlainTyped, SubTyped, ScanTyped, WorksTyped, Messages0, SyncJobsTyped,
      SyncJob, SyncStates, SyncItems, Sync!Ended, Sync!Runners, MediaTyped, Sync!TypeOK
<1>4. SyncInv => Sync!Recorded
  BY DEF Sync!Recorded, SyncInv, SyncBounds, SyncTyped, SubTyped, Messages0, Before
<1>5. SyncInv => Sync!RestoredOnce
  BY OneJob DEF Sync!RestoredOnce, SyncInv, Restorers, ItemMade, Sync!JobOf, HasItem
<1>6. SyncInv => Sync!TypeOK /\ Sync!SyncKept
  BY <1>3, <1>4, <1>5 DEF Sync!SyncKept
<1> QED BY <1>1, <1>2, <1>6, PTL DEF Sync!Spec
=============================================================================

--------------------------- MODULE UserClientPool ---------------------------
(* The Telegram client of one user account in the pool of                  *)
(* telegramUserClientPool.ts, with the account's row.  Operations on the   *)
(* life of a client run one after the other (initializationTail); calls of *)
(* downloads and scans (withAccount) and events of the client's worker     *)
(* process run between their steps.  Another account that takes over a     *)
(* call is not followed: the call ends here.                               *)
EXTENDS Naturals, FiniteSets

CONSTANTS
    Downloads, Scans,   \* calls, by scope
    MaxConnections,     \* of the row
    MaxClients,         \* bound: clients made
    MaxNow,             \* bound: the clock, in the shortest cooldowns
    MaxTroubles         \* bound: failures, floods and orders of the user

VARIABLES
    row,        \* of the account: state, health, cooldown_until
    refused,    \* the row of the source says the account may not read it
    refusing,   \* pendingAccessDenials: such rows being written
    entry,      \* the entry of the pool, listed in entries or connecting
    live,       \* clients not destroyed
    quarantine, \* the client whose destruction failed, 0: none
    notBefore,  \* reconnectAfter
    cooldown,   \* cooldownWrites: until, version, persisted, the one sent
    life,       \* the lifecycle operation and its step
    asked,      \* operations that wait for their turn
    call,       \* of each call: where it is, its client, its slot
    now, troubles

vars == <<row, refused, refusing, entry, live, quarantine, notBefore, cooldown,
          life, asked, call, now, troubles>>
rowVars == <<row, refused, refusing>>
bound == <<now, troubles>>

Calls == Downloads \cup Scans
Scope(c) == IF c \in Downloads THEN "download" ELSE "scan"
Larger(x, y) == IF x >= y THEN x ELSE y

NoEntry == [at |-> "none"]
NoWrite == [until |-> 0, version |-> 0, persisted |-> 0, sent |-> 0]
NoLife == [op |-> "none", step |-> "none", snap |-> [state |-> "gone"]]
NoSlot == [at |-> "none", client |-> 0, slot |-> FALSE, saw |-> FALSE]

Listed == entry.at = "listed"
Open == Listed /\ ~entry.closing

Trouble == troubles < MaxTroubles /\ troubles' = troubles + 1 /\ UNCHANGED now

-----------------------------------------------------------------------------
(* The row of the account: TelegramAccountRepository.                      *)

Rests(until) == IF until > now THEN "degraded" ELSE "healthy"

MarkHealthy == [row EXCEPT !.health =
                    IF row.state = "gone" THEN @ ELSE Rests(row.until)]

MarkFailure == [row EXCEPT !.health = IF row.state = "gone" THEN @ ELSE "degraded"]

MarkExpired ==
    IF row.state = "gone" THEN row
    ELSE [row EXCEPT !.health = "expired", !.until = 0]

(* markCooldown keeps the later of two ends.                               *)
MarkCooldown(until) ==
    IF row.state = "gone" THEN row
    ELSE [row EXCEPT !.health = "degraded", !.until = Larger(@, until)]

-----------------------------------------------------------------------------
(* persistCooldown: one flight at a time writes what was noted last.       *)

Flying == cooldown.sent # 0
Unwritten == cooldown.persisted # cooldown.version

(* Mutant of Noted: an end noted during a flight is not written after it.  *)
NotedOnce(until) ==
    IF cooldown.version # 0 THEN cooldown
    ELSE [until |-> until, version |-> 1, persisted |-> 0, sent |-> 1]

Noted(until) ==
    LET version == IF until > cooldown.until \/ cooldown.version = 0
                   THEN cooldown.version + 1 ELSE cooldown.version
    IN [cooldown EXCEPT
            !.until = Larger(@, until), !.version = version,
            !.sent = IF @ = 0 /\ version # cooldown.persisted THEN version ELSE @]

(* markCooldown is called with the end known then; what is noted while it  *)
(* runs gives a further version to write.                                  *)
Written ==
    /\ Flying
    /\ row' = MarkCooldown(cooldown.until)
    /\ cooldown' = [cooldown EXCEPT !.persisted = cooldown.sent,
          !.sent = IF cooldown.sent = cooldown.version THEN 0
                   ELSE cooldown.version]
    /\ UNCHANGED <<refused, refusing, entry, live, quarantine, notBefore, life,
                   asked, call, bound>>

WriteFails ==
    /\ Flying /\ Trouble
    /\ cooldown' = [cooldown EXCEPT !.sent = 0]
    /\ UNCHANGED <<rowVars, entry, live, quarantine, notBefore, life, asked, call>>

(* applyCooldown: the later end, and half the connections after an extreme *)
(* flood of downloads.                                                     *)
Cooled(e, until, halves) ==
    [e EXCEPT !.until = Larger(@, until), !.health = "degraded",
              !.limit = IF halves THEN Larger(1, @ \div 2) ELSE @]

Until(n) == IF now + n > MaxNow + 1 THEN MaxNow + 1 ELSE now + n

-----------------------------------------------------------------------------
(* Lifecycle operations, one at a time.                                    *)

To(step) == life' = [life EXCEPT !.step = step]

Begins(op) ==
    /\ life.op = "none" /\ op \in asked
    /\ asked' = asked \ {op}

(* The recovery timer asks for initialize again and again.                 *)
Ask ==
    /\ "initialize" \notin asked /\ asked' = asked \cup {"initialize"}
    /\ UNCHANGED <<rowVars, entry, live, quarantine, notBefore, cooldown, life,
                   call, bound>>

(* initialize reads the rows; entries without an enabled row, and those    *)
(* whose closing failed before, are closed first.                          *)
Initialize ==
    /\ Begins("initialize")
    /\ LET wanted == row.state = "on" /\ row.health # "expired"
           closes == Listed /\ (~wanted \/ entry.closing)
       IN /\ life' = [op |-> "initialize", snap |-> row,
                      step |-> IF closes THEN "close" ELSE "update"]
          /\ entry' = IF closes THEN [entry EXCEPT !.closing = TRUE] ELSE entry
    /\ UNCHANGED <<rowVars, live, quarantine, notBefore, cooldown, call, bound>>

(* A client that lost its worker is closed when nobody uses it; any other  *)
(* takes over its row, but never an earlier end of a cooldown.             *)
Update ==
    /\ life.step = "update"
    /\ LET idle == \A s \in {"download", "scan"} : entry.active[s] = 0
           end == Larger(entry.until, life.snap.until)
       IN IF life.snap.state # "on" \/ ~Listed
          THEN To("connect") /\ UNCHANGED entry
          ELSE IF ~entry.up /\ ~entry.closing /\ idle
          THEN To("close") /\ entry' = [entry EXCEPT !.closing = TRUE]
          ELSE /\ To("connect")
               /\ entry' = [entry EXCEPT !.until = end, !.health =
                      IF end > now THEN "degraded" ELSE life.snap.health]
    /\ UNCHANGED <<rowVars, live, quarantine, notBefore, cooldown, asked, call,
                   bound>>

(* activateAccount after a login or an enabling, expireAccount, and the    *)
(* expiring of deleteTelegramUserAccount all close the old client.         *)
BeginExpire ==
    \E op \in {"login", "enable", "expire", "delete"} :
        /\ Begins(op)
        /\ life' = [op |-> op, step |-> "close", snap |-> [state |-> "gone"]]
        /\ entry' = IF Listed THEN [entry EXCEPT !.closing = TRUE] ELSE entry
        /\ UNCHANGED <<rowVars, live, quarantine, notBefore, cooldown, call, bound>>

(* expireEntry: a client whose destruction fails keeps its entry, and the  *)
(* operation ends.                                                         *)
Close ==
    /\ life.step = "close"
    /\ \/ /\ live' = live \ ({quarantine} \cup IF Listed THEN {entry.client} ELSE {})
          /\ entry' = NoEntry /\ quarantine' = 0
          /\ To("drain") /\ UNCHANGED bound
       \/ /\ Listed \/ quarantine # 0
          /\ Trouble /\ life' = NoLife
          /\ UNCHANGED <<live, entry, quarantine>>
    /\ UNCHANGED <<rowVars, notBefore, cooldown, asked, call>>

(* The flight of the cooldown is awaited before its record goes.           *)
Drain ==
    /\ life.step = "drain" /\ ~Flying
    /\ cooldown' = NoWrite
    /\ CASE life.op = "initialize" -> To("connect")
         [] life.op \in {"login", "enable"} -> To("read")
         [] life.op = "delete" -> To("deleteRow")
         [] OTHER -> life' = NoLife
    /\ UNCHANGED <<rowVars, entry, live, quarantine, notBefore, asked, call, bound>>

DeleteRow ==
    /\ life.op = "none" /\ "deleteRow" \in asked
    /\ asked' = asked \ {"deleteRow"}
    /\ row' = [state |-> "gone", health |-> "expired", until |-> 0]
    /\ UNCHANGED <<refused, refusing, entry, live, quarantine, notBefore,
                   cooldown, life, call, bound>>

(* The row is deleted outside the chain, so other operations may come in   *)
(* between.                                                                *)
Expired ==
    /\ life.step = "deleteRow"
    /\ life' = NoLife /\ asked' = asked \cup {"deleteRow"}
    /\ UNCHANGED <<rowVars, entry, live, quarantine, notBefore, cooldown, call,
                   bound>>

(* activateAccount reads the row again; a login may connect at once.       *)
ReadRow ==
    /\ life.step = "read"
    /\ life' = [life EXCEPT !.step = "connect", !.snap = row]
    /\ notBefore' = IF life.op = "login" /\ row.until <= now THEN 0 ELSE notBefore
    /\ UNCHANGED <<rowVars, entry, live, quarantine, cooldown, asked, call, bound>>

Connectable(snap) ==
    /\ ~Listed /\ quarantine = 0 /\ now >= notBefore
    /\ snap.state = "on" /\ snap.health # "expired"

NewEntry(client, snap) ==
    [at |-> "connecting", client |-> client, up |-> FALSE, closing |-> FALSE,
     health |-> snap.health, until |-> snap.until, limit |-> MaxConnections,
     active |-> [s \in {"download", "scan"} |-> 0], flood |-> FALSE]

(* connectAccount.                                                         *)
Connect ==
    /\ life.step = "connect"
    /\ IF Connectable(life.snap)
       THEN \E client \in 1..MaxClients :
                /\ client \notin live
                /\ \A c \in Calls : call[c].client # client
                /\ \A k \in 1..(client - 1) :
                       k \in live \/ \E c \in Calls : call[c].client = k
                /\ entry' = NewEntry(client, life.snap)
                /\ live' = live \cup {client}
                /\ To("connecting")
       ELSE life' = NoLife /\ UNCHANGED <<entry, live>>
    /\ UNCHANGED <<rowVars, quarantine, notBefore, cooldown, asked, call, bound>>

(* It is connected and authorized; a session that changed is saved.        *)
Connected ==
    /\ life.step = "connecting"
    /\ entry' = [entry EXCEPT !.up = TRUE]
    /\ row' \in {row, MarkHealthy}
    /\ To("record")
    /\ UNCHANGED <<refused, refusing, live, quarantine, notBefore, cooldown,
                   asked, call, bound>>

(* The connection is recorded: its cooldown while one runs, also one that  *)
(* came while the row was written, else its health.                        *)
Record ==
    /\ life.step \in {"record", "recorded"}
    /\ IF entry.until > now
       THEN /\ entry' = [entry EXCEPT !.health = "degraded"]
            /\ cooldown' = Noted(entry.until)
            /\ To("list") /\ UNCHANGED row
       ELSE IF life.step = "record"
       THEN row' = MarkHealthy /\ To("recorded") /\ UNCHANGED <<entry, cooldown>>
       ELSE /\ entry' = [entry EXCEPT !.health = "healthy"]
            /\ To("list") /\ UNCHANGED <<row, cooldown>>
    /\ UNCHANGED <<refused, refusing, live, quarantine, notBefore, asked, call,
                   bound>>

(* Only then can calls choose it.                                          *)
List ==
    /\ life.step = "list" /\ ~Flying /\ ~Unwritten
    /\ entry' = [entry EXCEPT !.at = "listed"]
    /\ life' = NoLife
    /\ UNCHANGED <<rowVars, live, quarantine, notBefore, cooldown, asked, call,
                   bound>>

(* A connection fails; when to try again is noted before the client goes.  *)
ConnectFails ==
    \E why \in {"flood", "expired", "other"} :
        /\ life.step \in {"connecting", "record", "recorded", "list"}
        /\ life.step # "connecting" => why = "other"
        /\ \/ Trouble
           \/ life.step = "list" /\ ~Flying /\ Unwritten /\ UNCHANGED bound
        /\ notBefore' = IF why = "flood" /\ cooldown.version # 0
                        THEN cooldown.until ELSE Until(1)
        /\ life' = [life EXCEPT !.step = "discard", !.op = why]
        /\ UNCHANGED <<rowVars, entry, live, quarantine, cooldown, asked, call>>

(* A client that cannot be destroyed is kept in quarantine.                *)
Discard ==
    /\ life.step = "discard"
    /\ entry' = NoEntry
    /\ \/ live' = live \ {entry.client} /\ To("note")
          /\ UNCHANGED <<quarantine, bound>>
       \/ quarantine' = entry.client /\ Trouble /\ life' = NoLife /\ UNCHANGED live
    /\ UNCHANGED <<rowVars, notBefore, cooldown, asked, call>>

Note ==
    /\ life.step = "note"
    /\ CASE life.op = "expired" -> row' = MarkExpired /\ UNCHANGED cooldown
         [] life.op = "flood" ->
                /\ cooldown' = Noted(IF cooldown.version # 0 THEN cooldown.until
                                     ELSE Until(1))
                /\ UNCHANGED row
         [] OTHER -> row' = MarkFailure /\ UNCHANGED cooldown
    /\ To("noted")
    /\ UNCHANGED <<refused, refusing, entry, live, quarantine, notBefore, asked,
                   call, bound>>

NoteDone ==
    /\ life.step = "noted" /\ (life.op = "flood" => ~Flying)
    /\ life' = NoLife
    /\ UNCHANGED <<rowVars, entry, live, quarantine, notBefore, cooldown, asked,
                   call, bound>>

Life ==
    \/ Initialize \/ Update \/ BeginExpire \/ Close \/ Drain \/ Expired
    \/ DeleteRow \/ ReadRow \/ Connect \/ Connected \/ Record \/ List
    \/ ConnectFails \/ Discard \/ Note \/ NoteDone

-----------------------------------------------------------------------------
(* Events of the client's worker process.                                  *)

(* A flood is noticed by the transport: handleRuntimeEvent.                *)
Flooded(n) ==
    /\ entry.at # "none" /\ ~entry.closing /\ life.step # "discard"
    /\ Trouble
    /\ entry' = [Cooled(entry, Until(n), n = 2) EXCEPT !.flood = TRUE]
    /\ cooldown' = Noted(entry'.until)
    /\ UNCHANGED <<rowVars, live, quarantine, notBefore, life, asked, call>>

(* Reads that went well for long enough give a connection back.            *)
ReadsWell ==
    /\ Open /\ entry.up /\ now >= entry.until /\ entry.limit < MaxConnections
    /\ entry' = [entry EXCEPT !.limit = @ + 1]
    /\ UNCHANGED <<rowVars, live, quarantine, notBefore, cooldown, life, asked,
                   call, bound>>

WorkerExits ==
    /\ Listed /\ entry.up /\ Trouble
    /\ entry' = [entry EXCEPT !.up = FALSE]
    /\ UNCHANGED <<rowVars, live, quarantine, notBefore, cooldown, life, asked, call>>

-----------------------------------------------------------------------------
(* withAccount.                                                            *)

Limit(c) == IF Scope(c) = "scan" THEN 1 ELSE entry.limit

(* selectWeightedLeastConnectedTelegramAccount, of this account.           *)
Runnable(c) ==
    /\ Open /\ entry.up /\ entry.health # "expired"
    /\ refusing = 0 /\ ~call[c].saw
    /\ entry.active[Scope(c)] < Limit(c) /\ entry.until <= now

Viable(c) ==
    /\ Open /\ entry.up /\ entry.health # "expired"
    /\ refusing = 0 /\ ~call[c].saw

At(c, at) == call' = [call EXCEPT ![c].at = at]

(* The access of the accounts is read before one is chosen.                *)
ReadAccess(c) ==
    /\ call[c].at \in {"none", "waiting"}
    /\ call' = [call EXCEPT ![c] = [NoSlot EXCEPT !.at = "choosing", !.saw = refused]]
    /\ UNCHANGED <<rowVars, entry, live, quarantine, notBefore, cooldown, life,
                   asked, bound>>

Acquire(c) ==
    /\ call[c].at = "choosing"
    /\ IF Runnable(c)
       THEN /\ entry' = [entry EXCEPT !.active[Scope(c)] = @ + 1]
            /\ call' = [call EXCEPT ![c].at = "working", ![c].slot = TRUE,
                                    ![c].client = entry.client]
       ELSE /\ At(c, IF Viable(c) THEN "waiting" ELSE "done")
            /\ UNCHANGED entry
    /\ UNCHANGED <<rowVars, live, quarantine, notBefore, cooldown, life, asked,
                   bound>>

Mine(c) == entry.at # "none" /\ entry.client = call[c].client

(* release, which the code calls once more when the call has ended.        *)
Freed(c) ==
    IF Mine(c) /\ call[c].slot
    THEN [entry EXCEPT !.active[Scope(c)] = IF @ = 0 THEN 0 ELSE @ - 1]
    ELSE entry

Leave(c, at) == call' = [call EXCEPT ![c].at = at, ![c].slot = FALSE]

(* The operation succeeds, is aborted, cannot find the source or fails for *)
(* a reason of its own.                                                    *)
Finish(c) ==
    /\ call[c].at \in {"working", "cooled"}
    /\ entry' = Freed(c)
    /\ Leave(c, "done")
    /\ UNCHANGED <<rowVars, live, quarantine, notBefore, cooldown, life, asked,
                   bound>>

(* A transient error degrades the account.                                 *)
Transient(c) ==
    /\ call[c].at = "working" /\ c \in Downloads /\ Trouble
    /\ entry' = LET e == Freed(c) IN
                IF Listed /\ e.health # "expired"
                THEN [e EXCEPT !.health = "degraded"] ELSE e
    /\ Leave(c, "failing")
    /\ UNCHANGED <<rowVars, live, quarantine, notBefore, cooldown, life, asked>>

RecordFailure(c) ==
    /\ call[c].at = "failing"
    /\ row' = MarkFailure
    /\ At(c, "done")
    /\ UNCHANGED <<refused, refusing, entry, live, quarantine, notBefore,
                   cooldown, life, asked, bound>>

(* Sockets or processes run out: a cooldown, and the slot is kept until it *)
(* is written.                                                             *)
Exhausted(c) ==
    /\ call[c].at = "working" /\ Trouble
    /\ entry' = IF Listed THEN Cooled(entry, Until(1), FALSE) ELSE entry
    /\ cooldown' = Noted(IF Listed THEN entry'.until ELSE Until(1))
    /\ At(c, "cooling")
    /\ UNCHANGED <<rowVars, live, quarantine, notBefore, life, asked>>

(* A flood that the transport has not reported, or has.                    *)
FloodWait(c) ==
    /\ call[c].at = "working" /\ Trouble
    /\ LET seen == Listed /\ entry.flood /\ entry.until >= now
           e == Freed(c)
           cooled == IF Listed /\ ~seen THEN Cooled(e, Until(1), FALSE) ELSE e
       IN /\ entry' = cooled
          /\ cooldown' = Noted(IF Listed THEN cooled.until ELSE Until(1))
    /\ Leave(c, "resting")
    /\ UNCHANGED <<rowVars, live, quarantine, notBefore, life, asked>>

(* The cooldown is written, or fails to be; a download ends after its end, *)
(* a scan asks for an account again.                                       *)
CooldownNoted(c) ==
    /\ call[c].at \in {"cooling", "resting"} /\ ~Flying
    /\ IF call[c].at = "cooling" \/ Unwritten THEN At(c, "cooled")
       ELSE IF c \in Scans THEN At(c, "waiting")
       ELSE now >= cooldown.until /\ At(c, "done")
    /\ UNCHANGED <<rowVars, entry, live, quarantine, notBefore, cooldown, life,
                   asked, bound>>

(* The account may not read the source: others see it before the row is    *)
(* written.                                                                *)
Denied(c) ==
    /\ call[c].at = "working" /\ Trouble
    /\ refusing' = refusing + 1
    /\ entry' = Freed(c)
    /\ Leave(c, "denied")
    /\ UNCHANGED <<row, refused, live, quarantine, notBefore, cooldown, life, asked>>

RecordDenied(c) ==
    /\ call[c].at = "denied"
    /\ refusing' = refusing - 1
    /\ \/ refused' = TRUE /\ At(c, IF c \in Scans THEN "waiting" ELSE "done")
          /\ UNCHANGED bound
       \/ Trouble /\ At(c, "done") /\ UNCHANGED refused
    /\ UNCHANGED <<row, entry, live, quarantine, notBefore, cooldown, life, asked>>

(* The session is gone: no other call takes the client, the row says so    *)
(* and the client is closed.                                               *)
SessionExpired(c) ==
    /\ call[c].at = "working" /\ Trouble
    /\ entry' = LET e == Freed(c) IN
                IF Listed THEN [e EXCEPT !.health = "expired"] ELSE e
    /\ Leave(c, "expired")
    /\ UNCHANGED <<rowVars, live, quarantine, notBefore, cooldown, life, asked>>

RecordExpired(c) ==
    /\ call[c].at = "expired"
    /\ row' = MarkExpired /\ asked' = asked \cup {"expire"}
    /\ At(c, "done")
    /\ UNCHANGED <<refused, refusing, entry, live, quarantine, notBefore,
                   cooldown, life, bound>>

Call(c) ==
    \/ ReadAccess(c) \/ Acquire(c) \/ Finish(c) \/ Transient(c)
    \/ RecordFailure(c) \/ Exhausted(c) \/ FloodWait(c) \/ CooldownNoted(c)
    \/ Denied(c) \/ RecordDenied(c) \/ SessionExpired(c) \/ RecordExpired(c)

-----------------------------------------------------------------------------
(* The user, and the time.                                                 *)

(* A login writes the session into the row and activates the account.      *)
Login ==
    /\ Trouble
    /\ row' = [state |-> "on", until |-> row.until, health |-> Rests(row.until)]
    /\ asked' = asked \cup {"login"}
    /\ UNCHANGED <<refused, refusing, entry, live, quarantine, notBefore,
                   cooldown, life, call>>

Enable ==
    /\ row.state = "off" /\ Trouble
    /\ row' = [row EXCEPT !.state = "on"]
    /\ asked' = asked \cup {"enable"}
    /\ UNCHANGED <<refused, refusing, entry, live, quarantine, notBefore,
                   cooldown, life, call>>

Disable ==
    /\ row.state = "on" /\ Trouble
    /\ row' = [row EXCEPT !.state = "off"]
    /\ asked' = asked \cup {"expire"}
    /\ UNCHANGED <<refused, refusing, entry, live, quarantine, notBefore,
                   cooldown, life, call>>

Delete ==
    /\ row.state # "gone" /\ "delete" \notin asked /\ Trouble
    /\ asked' = asked \cup {"delete"}
    /\ UNCHANGED <<rowVars, entry, live, quarantine, notBefore, cooldown, life, call>>

Tick ==
    /\ now < MaxNow /\ now' = now + 1
    /\ UNCHANGED <<rowVars, entry, live, quarantine, notBefore, cooldown, life,
                   asked, call, troubles>>

Init ==
    /\ row = [state |-> "on", health |-> "healthy", until |-> 0]
    /\ refused = FALSE /\ refusing = 0
    /\ entry = NoEntry /\ live = {} /\ quarantine = 0 /\ notBefore = 0
    /\ cooldown = NoWrite /\ life = NoLife /\ asked = {}
    /\ call = [c \in Calls |-> NoSlot]
    /\ now = 0 /\ troubles = 0

Next ==
    \/ Ask \/ Life \/ Written \/ WriteFails
    \/ \E n \in {1, 2} : Flooded(n)
    \/ ReadsWell \/ WorkerExits
    \/ \E c \in Calls : Call(c)
    \/ Login \/ Enable \/ Disable \/ Delete \/ Tick

Spec == Init /\ [][Next]_vars

-----------------------------------------------------------------------------
(* The types of the variables.                                             *)
TypeOK ==
    /\ row.state \in {"on", "off", "gone"}
    /\ row.health \in {"healthy", "degraded", "expired"}
    /\ row.until \in 0..(MaxNow + 1)
    /\ refused \in BOOLEAN /\ refusing \in 0..Cardinality(Calls)
    /\ entry.at \in {"none", "connecting", "listed"}
    /\ live \subseteq 1..MaxClients /\ quarantine \in live \cup {0}
    /\ notBefore \in 0..(MaxNow + 1)
    /\ cooldown.persisted <= cooldown.version /\ cooldown.sent <= cooldown.version
    /\ \A c \in Calls : call[c].slot => call[c].client # 0

(* There is never a second client of the account, and the one there is     *)
(* belongs to the entry, to the connection under way or to the quarantine, *)
(* where the next closing finds it.                                        *)
OneClient ==
    live = {quarantine : x \in {q \in {quarantine} : q # 0}} \cup
           {entry.client : x \in {e \in {entry} : e.at # "none"}}
    /\ Cardinality(live) <= 1

(* The connections an entry counts are the calls that hold one, and no     *)
(* more than the row allows, whatever failed and however often a slot was  *)
(* released.                                                               *)
SlotsCounted ==
    Listed => \A s \in {"download", "scan"} :
        /\ entry.active[s] = Cardinality({c \in Calls :
               call[c].slot /\ call[c].client = entry.client /\ Scope(c) = s})
        /\ entry.active[s] <= IF s = "scan" THEN 1 ELSE MaxConnections

(* Once everything noted is written, the row rests at least as long as the *)
(* client does, so that a restart does not forget a flood: unless the      *)
(* session expired, which takes the cooldown out of the row and has the    *)
(* client closed, whatever a login or another end wrote since.             *)
CooldownSurvives ==
    LET leaving == entry.closing \/ asked \cap {"login", "expire"} # {}
    IN Listed /\ ~leaving /\ row.state # "gone" /\ ~Unwritten /\ entry.until > now
       => row.until >= entry.until \/ row.until = 0

PoolKept == OneClient /\ SlotsCounted /\ CooldownSurvives
=============================================================================

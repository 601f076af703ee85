---------------------------- MODULE WorkerCalls ----------------------------
(* The process of a Telegram user account and the calls the server makes   *)
(* to it: telegramUserWorkerClient.ts here, telegramUserWorker.ts there,   *)
(* and a pipe with a queue in each direction.                              *)
EXTENDS Naturals, Sequences

CONSTANTS
    Boot,       \* the call that initializes the worker
    Others,     \* calls after it
    MaxQueue,   \* bound: messages from the worker not read
    MaxTroubles \* bound: aborts, timeouts and faults

VARIABLES
    process,    \* none, loading, up, term (told to end), killed or gone
    live,       \* the client says it is connected
    destroying, destroyed,
    call,       \* of each call, in the server
    work,       \* of each call, in the worker
    down, back, \* messages to the worker, and from it
    frozen,     \* the worker handles nothing
    troubles

vars == <<process, live, destroying, destroyed, call, work, down, back, frozen,
          troubles>>

Calls == {Boot} \cup Others
NoCall == [at |-> "none", waits |-> FALSE, cancelled |-> FALSE]

Pending(c) == call[c].at = "pending"
Piped == process \in {"up", "term"}         \* child.connected
Trouble == troubles < MaxTroubles /\ troubles' = troubles + 1

(* failPending.                                                            *)
AllFail ==
    call' = [c \in Calls |-> IF Pending(c) THEN [call[c] EXCEPT !.at = "failed"]
                             ELSE call[c]]

Tell(c, what) == down' = Append(down, [call |-> c, what |-> what])
Send(c, what) == back' = IF Piped THEN Append(back, [call |-> c, what |-> what])
                         ELSE back

-----------------------------------------------------------------------------
(* The process.                                                            *)

Connect ==
    /\ process = "none" /\ ~destroying
    /\ process' = "loading"
    /\ UNCHANGED <<live, destroying, destroyed, call, work, down, back, frozen,
                   troubles>>

(* Mutant of Wanted: not asked again after the session was loaded.         *)
WantedAlways == TRUE

Wanted == ~destroying

(* spawnWorker, when the session is loaded.                                *)
Fork ==
    /\ process = "loading"
    /\ IF Wanted
       THEN /\ process' = "up"
            /\ call' = [call EXCEPT ![Boot].at = "pending"] /\ Tell(Boot, "call")
       ELSE process' = "none" /\ UNCHANGED <<call, down>>
    /\ UNCHANGED <<live, destroying, destroyed, work, back, frozen, troubles>>

(* destroy; a failed initialization also calls it.                         *)
Destroy ==
    /\ ~destroying
    /\ (call[Boot].at = "failed" /\ UNCHANGED troubles) \/ Trouble
    /\ destroying' = TRUE /\ live' = FALSE
    /\ process' = IF process = "up" THEN "term" ELSE process
    /\ destroyed' = (process \in {"none", "loading"})
    /\ UNCHANGED <<call, work, down, back, frozen>>

(* Five seconds after SIGTERM, or a worker that does not answer.           *)
Kill ==
    /\ process = "term"
    /\ process' = "killed"
    /\ UNCHANGED <<live, destroying, destroyed, call, work, down, back, frozen,
                   troubles>>

(* The watchdog: no heartbeat for ten seconds.                             *)
Watchdog ==
    /\ process = "up" /\ ~destroying /\ Trouble
    /\ process' = "killed" /\ live' = FALSE
    /\ UNCHANGED <<destroying, destroyed, call, work, down, back, frozen>>

(* The worker closes its client on SIGTERM, which ends its operations; it  *)
(* was killed; or it crashed.  What is in the pipe may be read before.     *)
Exit ==
    /\ \/ process = "term" /\ ~frozen /\ (\A c \in Calls : work[c] # "runs")
          /\ UNCHANGED troubles
       \/ process = "killed" /\ UNCHANGED troubles
       \/ process = "up" /\ Trouble
    /\ process' = "gone" /\ live' = FALSE
    /\ AllFail
    /\ work' = [c \in Calls |-> IF work[c] = "none" THEN "none" ELSE "ended"]
    /\ down' = <<>> /\ back' = <<>>
    /\ destroyed' = destroying
    /\ UNCHANGED <<destroying, frozen>>

Freeze ==
    /\ Piped /\ ~frozen /\ Trouble /\ frozen' = TRUE
    /\ UNCHANGED <<process, live, destroying, destroyed, call, work, down, back>>

-----------------------------------------------------------------------------
(* Calls.                                                                  *)

Call(c) ==
    /\ c # Boot /\ call[c].at = "none" /\ call[Boot].at = "ok" /\ Piped
    /\ call' = [call EXCEPT ![c].at = "pending"] /\ Tell(c, "call")
    /\ UNCHANGED <<process, live, destroying, destroyed, work, back, frozen,
                   troubles>>

(* cancel: once, and the worker has five seconds to answer.                *)
Cancel(c) ==
    IF ~Piped \/ call[c].cancelled THEN UNCHANGED <<call, down>>
    ELSE call' = [call EXCEPT ![c].cancelled = TRUE] /\ Tell(c, "cancel")

(* The signal of the caller, or the time of the call, which does not run   *)
(* while the worker waits for Telegram's permission.                       *)
Abort(c) ==
    /\ Pending(c) /\ ~call[c].cancelled /\ Trouble
    /\ Cancel(c)
    /\ UNCHANGED <<process, live, destroying, destroyed, work, back, frozen>>

(* Mutant of Unanswered: the worker is left alone.                         *)
UnansweredSpared == AllFail /\ UNCHANGED process

(* Every call fails, and so does the worker.                               *)
Unanswered == AllFail /\ process' = "killed"

CancelTimeout(c) ==
    /\ Pending(c) /\ call[c].cancelled /\ Piped
    /\ live' = FALSE /\ Unanswered
    /\ UNCHANGED <<destroying, destroyed, work, down, back, frozen, troubles>>

(* A message from the worker.  An answer settles its call, as cancelled if *)
(* it was cancelled before; what nobody waits for is ignored.              *)
Receive ==
    /\ back # <<>>
    /\ LET m == Head(back)
           c == m.call
       IN /\ \/ ~Pending(c) /\ UNCHANGED <<call, down>>
             \/ /\ Pending(c) /\ m.what \in {"waits", "goes"}
                /\ call' = [call EXCEPT ![c].waits = (m.what = "waits")]
                /\ UNCHANGED down
             \/ /\ Pending(c) /\ m.what = "progress"
                /\ \/ IF Piped THEN Tell(c, "ack") /\ UNCHANGED call
                      ELSE UNCHANGED <<call, down>>
                   \/ Cancel(c)
             \/ /\ Pending(c) /\ m.what \in {"ok", "error"}
                /\ call' = [call EXCEPT ![c].at =
                      IF m.what = "ok" /\ ~call[c].cancelled THEN "ok" ELSE "failed"]
                /\ UNCHANGED down
          /\ live' = IF m.what \in {"ok", "error"} THEN Piped ELSE live
    /\ back' = Tail(back)
    /\ UNCHANGED <<process, destroying, destroyed, work, frozen, troubles>>

(* A response that cannot be read.                                         *)
Garbled ==
    /\ back # <<>> /\ Piped /\ Trouble
    /\ Unanswered
    /\ UNCHANGED <<live, destroying, destroyed, work, down, back, frozen>>

-----------------------------------------------------------------------------
(* The worker.                                                             *)

Able == Piped /\ ~frozen
Work(c, how) == work' = [work EXCEPT ![c] = how]

(* A call starts its operation, or is refused while the worker closes; an  *)
(* acknowledgement lets one go on that waits for it; a cancellation makes  *)
(* one stop, wherever it waits.                                            *)
Handle ==
    /\ Able /\ down # <<>>
    /\ LET m == Head(down)
           c == m.call
       IN \/ m.what = "call" /\ process = "up" /\ Work(c, "runs") /\ UNCHANGED back
          \/ m.what = "call" /\ process = "term"
             /\ Work(c, "ended") /\ Send(c, "error")
          \/ m.what = "ack"
             /\ Work(c, IF work[c] = "progress" THEN "runs" ELSE work[c])
             /\ UNCHANGED back
          \/ m.what = "cancel" /\ UNCHANGED back
             /\ Work(c, IF work[c] = "ended" THEN "ended" ELSE "aborted")
    /\ down' = Tail(down)
    /\ UNCHANGED <<process, live, destroying, destroyed, call, frozen, troubles>>

(* It waits at the gate of the transport, and goes on.                     *)
Wait(c) ==
    /\ Able /\ Len(back) < MaxQueue
    /\ work[c] = "runs" /\ Work(c, "waits") /\ Send(c, "waits")
    /\ UNCHANGED <<process, live, destroying, destroyed, call, down, frozen,
                   troubles>>

GoOn(c) ==
    /\ Able /\ work[c] = "waits" /\ Work(c, "runs") /\ Send(c, "goes")
    /\ UNCHANGED <<process, live, destroying, destroyed, call, down, frozen,
                   troubles>>

Progress(c) ==
    /\ Able /\ Len(back) < MaxQueue /\ work[c] = "runs" /\ c # Boot
    /\ Work(c, "progress") /\ Send(c, "progress")
    /\ UNCHANGED <<process, live, destroying, destroyed, call, down, frozen,
                   troubles>>

(* It ends; one that was stopped leaves the gate first, by its finally.    *)
Finish(c) ==
    /\ Able
    /\ \/ work[c] = "runs" /\ (Send(c, "ok") \/ Send(c, "error"))
       \/ work[c] = "aborted"
          /\ back' = back \o <<[call |-> c, what |-> "goes"],
                               [call |-> c, what |-> "error"]>>
    /\ Work(c, "ended")
    /\ UNCHANGED <<process, live, destroying, destroyed, call, down, frozen,
                   troubles>>

(* close aborts every operation.                                           *)
Closes ==
    /\ process = "term" /\ ~frozen
    /\ \E c \in Calls : work[c] \in {"runs", "waits", "progress"}
    /\ work' = [c \in Calls |-> IF work[c] \in {"runs", "waits", "progress"}
                                THEN "aborted" ELSE work[c]]
    /\ UNCHANGED <<process, live, destroying, destroyed, call, down, back, frozen,
                   troubles>>

Init ==
    /\ process = "none" /\ live = FALSE /\ destroying = FALSE
    /\ destroyed = FALSE /\ call = [c \in Calls |-> NoCall]
    /\ work = [c \in Calls |-> "none"] /\ down = <<>> /\ back = <<>>
    /\ frozen = FALSE /\ troubles = 0

Next ==
    \/ Connect \/ Fork \/ Destroy \/ Kill \/ Watchdog \/ Exit \/ Freeze
    \/ Receive \/ Garbled \/ Handle \/ Closes
    \/ \E c \in Calls :
          \/ Call(c) \/ Abort(c) \/ CancelTimeout(c)
          \/ Wait(c) \/ GoOn(c) \/ Progress(c) \/ Finish(c)

Spec == Init /\ [][Next]_vars

-----------------------------------------------------------------------------
TypeOK ==
    /\ process \in {"none", "loading", "up", "term", "killed", "gone"}
    /\ live \in BOOLEAN /\ destroyed \in BOOLEAN
    /\ \A c \in Calls :
          /\ call[c].at \in {"none", "pending", "ok", "failed"}
          /\ work[c] \in {"none", "runs", "waits", "progress", "aborted", "ended"}

(* A destroyed client has no process.                                      *)
NoneBehind == destroyed => process \in {"none", "loading", "gone"}

(* No call is left waiting for a process that has gone, and no operation   *)
(* goes on for a call that has ended, unless the process is ending.        *)
NoStrays ==
    \A c \in Calls :
        /\ Pending(c) => process \in {"up", "term", "killed"}
        /\ call[c].at \in {"ok", "failed"}
              /\ work[c] \in {"runs", "waits", "progress", "aborted"}
           => process # "up"

(* A call whose time stands still belongs to an operation that waits at    *)
(* the gate, or will soon be told that it goes on.                         *)
TimeReturns ==
    \A c \in Calls :
        Pending(c) /\ call[c].waits /\ process = "up" =>
            \/ work[c] \in {"waits", "aborted"}
            \/ \E k \in 1..Len(back) :
                  back[k].call = c /\ back[k].what \in {"goes", "ok", "error"}

CallsKept == NoneBehind /\ NoStrays /\ TimeReturns
=============================================================================

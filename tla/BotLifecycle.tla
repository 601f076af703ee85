---------------------------- MODULE BotLifecycle ----------------------------
(* The Telegram bot's client as the process starts, loses, retries and     *)
(* replaces it (telegramBot.ts, telegramBotLifecycle.ts): one lane of      *)
(* operations, the routes that change the bot's configuration, the workers *)
(* that begin after a while, and a download that follows its bot.          *)
EXTENDS Naturals, Sequences, FiniteSets

CONSTANTS
    Creds,          \* credentials
    Env,            \* those of the environment
    None,           \* no credentials
    MaxAttempts,    \* of restarts, before an operator is asked
    MaxClients,     \* bound: clients made
    MaxRequests,    \* bound: requests that change the configuration
    MaxTroubles     \* bound: failures and losses

VARIABLES
    saved,      \* the settings: web credentials, enabled
    lane,       \* operations that wait in the supervisor
    run,        \* the operation under way
    aborted,    \* its signal
    blocked,    \* cleanupBlocked
    owned,      \* the supervisor's client, or 0
    client,     \* the client in use, or 0
    clients,    \* made so far: credentials and transport
    status,     \* TelegramBotStatus.status
    attempt,    \* retryAttempt
    retry,      \* nextRetryAt, the generation of its timer (0: none), retryGeneration
    watch,      \* the client of connectionTimer, or 0
    later,      \* the client of postStartupTimer, or 0
    workers,    \* the client of the background workers, or 0
    scanning,   \* one of them is at work
    runtime,    \* BotDownloadRuntime: identity, current, recovering
    transfer,   \* a download: its credentials, state and client
    undone,     \* the client of a migration that was undone
    requests, troubles

desk == <<saved, requests>>
body == <<owned, clients>>
face == <<client, status, runtime>>
timers == <<watch, later>>
work == <<workers, scanning>>
vars == <<desk, lane, run, aborted, blocked, body, face, attempt, retry, timers,
          work, transfer, undone, troubles>>

Idle == [op |-> "idle"]
Busy == run # Idle \/ lane # <<>>           \* botSupervisor.busy
Cred(k) == clients[k].cred
Link(k) == clients[k].link
Alive(k) == Link(k) # "closed"
Connected(k) == k # 0 /\ Link(k) = "open"

Trouble == troubles < MaxTroubles /\ troubles' = troubles + 1

(* getEffectiveTelegramBotConfig.                                          *)
Effective(s) == IF s.web # None THEN s.web ELSE Env

-----------------------------------------------------------------------------
(* Retries.                                                                *)

Cancelled == [due |-> FALSE, timer |-> 0, gen |-> retry.gen + 1]

(* scheduleBotRetry: not after a cancellation, a refused token, or too     *)
(* many attempts.                                                          *)
Retryable(error) == ~blocked' /\ error = "network" /\ attempt' < MaxAttempts

Unavailable(recovering) ==
    runtime' = [runtime EXCEPT !.current = 0, !.recovering = recovering]

ScheduleRetry(error) ==
    IF ~Retryable(error) THEN Unavailable(FALSE) /\ UNCHANGED retry
    ELSE IF retry.due THEN UNCHANGED <<runtime, retry>>
    ELSE /\ Unavailable(TRUE)
         /\ retry' = [retry EXCEPT !.due = TRUE, !.timer = retry.gen]

RetryFires ==
    /\ retry.timer # 0
    /\ retry' = [retry EXCEPT !.timer = 0]
    /\ lane' = Append(lane, [kind |-> "retry", gen |-> retry.timer])
    /\ UNCHANGED <<desk, run, aborted, blocked, body, face, attempt, timers, work,
                   transfer, undone, troubles>>

(* The main connection of a client ends.  While the lane is busy nobody is *)
(* told; the timer of the client finds out.                                *)
Lost ==
    \E k \in DOMAIN clients :
        /\ Link(k) = "open" /\ Trouble
        /\ clients' = [clients EXCEPT ![k].link = "lost"]
        /\ UNCHANGED <<attempt, blocked>>
        /\ IF client = k /\ ~Busy
           THEN status' = "reconnecting" /\ ScheduleRetry("network")
           ELSE UNCHANGED <<status, runtime, retry>>
        /\ UNCHANGED <<desk, lane, run, aborted, owned, client, timers, work,
                       transfer, undone>>

Watched ==
    /\ watch # 0 /\ client = watch /\ ~Connected(watch) /\ ~Busy /\ ~retry.due
    /\ watch' = 0 /\ status' = "reconnecting"
    /\ UNCHANGED <<attempt, blocked>>
    /\ ScheduleRetry("network")
    /\ UNCHANGED <<desk, lane, run, aborted, body, client, later, work, transfer,
                   undone, troubles>>

-----------------------------------------------------------------------------
(* Requests.                                                               *)

(* withTelegramBotLifecycle: what waits or runs for the old configuration  *)
(* is called off.                                                          *)
Request(op) ==
    /\ requests < MaxRequests /\ requests' = requests + 1
    /\ lane' = Append(lane, op)
    /\ retry' = Cancelled /\ aborted' = TRUE
    /\ UNCHANGED <<saved, run, blocked, body, face, attempt, timers, work, transfer,
                   undone, troubles>>

Put(c, on) == Request([kind |-> "put", cred |-> c, on |-> on])
Migrate == Env # None /\ Request([kind |-> "migrate"])
Disable == Request([kind |-> "disable"])
Delete == saved.web # None /\ Request([kind |-> "delete"])

(* retryTelegramBot.                                                       *)
ManualRetry ==
    /\ Effective(saved) # None /\ saved.on
    /\ ~blocked /\ ~Busy /\ ~retry.due
    /\ requests < MaxRequests /\ requests' = requests + 1
    /\ retry' = Cancelled /\ attempt' = 0
    /\ lane' = Append(lane, [kind |-> "manual"])
    /\ UNCHANGED <<saved, run, aborted, blocked, body, face, timers, work, transfer,
                   undone, troubles>>

-----------------------------------------------------------------------------
(* The lane.  An operation stops the bot, or starts it anew with the       *)
(* credentials "use", or with what is saved then (None).                   *)

Op(op, at, goal, use, before) ==
    [op |-> op, at |-> at, goal |-> goal, use |-> use, before |-> before,
     back |-> FALSE, error |-> "none"]

Stop(op) == Op(op, "stop", "stop", None, saved)
Restart(op, use) == Op(op, "stop", "restart", use, saved)
Over == run' = Idle

Begin ==
    /\ run = Idle /\ lane # <<>>
    /\ LET op == Head(lane)
       IN CASE op.kind = "boot" ->
                 /\ IF Connected(client) THEN Over ELSE run' = Restart(op, None)
                 /\ UNCHANGED <<saved, retry, attempt>>
            [] op.kind = "retry" ->
                 /\ IF op.gen # retry.gen THEN Over /\ UNCHANGED retry
                    ELSE /\ run' = Restart(op, None)
                         /\ retry' = [retry EXCEPT !.due = FALSE]
                 /\ UNCHANGED <<saved, attempt>>
            [] op.kind = "manual" ->
                 run' = Restart(op, None) /\ UNCHANGED <<saved, retry, attempt>>
            [] op.kind = "put" ->
                 /\ saved' = [web |-> op.cred, on |-> op.on]
                 /\ run' = IF op.on THEN Restart(op, op.cred) ELSE Stop(op)
                 /\ attempt' = 0 /\ UNCHANGED retry
            [] op.kind = "migrate" ->
                 /\ saved' = [web |-> Env, on |-> TRUE]
                 /\ run' = Restart(op, Env) /\ attempt' = 0 /\ UNCHANGED retry
            [] op.kind = "disable" ->
                 /\ saved' = [saved EXCEPT !.on = FALSE]
                 /\ run' = Stop(op) /\ attempt' = 0 /\ UNCHANGED retry
            [] OTHER ->
                 run' = Stop(op) /\ attempt' = 0 /\ UNCHANGED <<saved, retry>>
    /\ lane' = Tail(lane) /\ aborted' = FALSE
    /\ UNCHANGED <<requests, blocked, body, face, timers, work, transfer, undone,
                   troubles>>

(* A request is refused or the settings cannot be written.                 *)
Refuse ==
    /\ run = Idle /\ lane # <<>> /\ Trouble
    /\ Head(lane).kind \in {"put", "disable"}
    /\ lane' = Tail(lane) /\ aborted' = FALSE /\ attempt' = 0
    /\ UNCHANGED <<desk, run, blocked, body, face, retry, timers, work, transfer,
                   undone>>

At(at) == run # Idle /\ run.at = at
Goes(at) == run' = [run EXCEPT !.at = at]
Throws(error) == run' = [run EXCEPT !.at = "thrown", !.error = error]

(* stopTelegramBotInternal: nothing begins any more, and the client goes.  *)
BeginStop ==
    /\ At("stop") /\ Goes("stopping")
    /\ watch' = 0 /\ later' = 0 /\ workers' = 0
    /\ Unavailable(run.goal = "restart") /\ client' = 0
    /\ clients' = IF owned # 0 /\ ~blocked /\ Alive(owned)
                  THEN [clients EXCEPT ![owned].link = "closing"] ELSE clients
    /\ UNCHANGED <<desk, lane, aborted, blocked, owned, status, attempt, retry,
                   scanning, transfer, undone, troubles>>

(* Mutant of Gone: the client need not be closed.                          *)
GoneAnyway == TRUE

(* The supervisor's client is closed, and what it had begun is over.       *)
Gone == owned # 0 => ~Alive(owned)

Stopped ==
    /\ At("stopping") /\ ~blocked /\ ~scanning /\ Gone
    /\ owned' = 0 /\ status' = "stopped"
    /\ Goes(IF run.goal = "stop" THEN "stopped" ELSE "restart")
    /\ UNCHANGED <<desk, lane, aborted, blocked, clients, client, runtime, attempt,
                   retry, timers, work, transfer, undone, troubles>>

(* It could not be confirmed in ten seconds: no client for ever.           *)
StopFails ==
    /\ At("stopping")
    /\ \/ blocked /\ UNCHANGED troubles
       \/ (scanning \/ ~Gone) /\ Trouble
    /\ blocked' = TRUE /\ status' = "error" /\ Unavailable(FALSE)
    /\ Throws("blocked")
    /\ UNCHANGED <<desk, lane, aborted, body, client, attempt, retry, timers, work,
                   transfer, undone>>

(* initTelegramBotInternal: the settings are read, and a client is made.   *)
Chosen == IF run.use # None THEN run.use
          ELSE IF saved.on THEN Effective(saved) ELSE None

Construct ==
    /\ At("restart") /\ Len(clients) < MaxClients
    /\ LET k == Len(clients) + 1 IN
       IF aborted \/ blocked
       THEN /\ Throws("cancelled")
            /\ UNCHANGED <<body, client, status, runtime, attempt, undone>>
       ELSE /\ attempt' = attempt + 1
            /\ IF Chosen = None
               THEN /\ Unavailable(FALSE) /\ status' = "not_configured"
                    /\ Goes("done") /\ UNCHANGED <<body, client, undone>>
               ELSE /\ clients' = Append(clients, [cred |-> Chosen, link |-> "opening"])
                    /\ owned' = k /\ client' = k /\ status' = "starting"
                    /\ runtime' = [runtime EXCEPT !.identity = Chosen,
                                     !.current = IF runtime.identity = Chosen THEN @ ELSE 0]
                    /\ undone' = IF run.op.kind = "migrate" /\ run.back THEN k ELSE undone
                    /\ Goes("starting")
    /\ UNCHANGED <<desk, lane, aborted, blocked, retry, timers, work, transfer,
                   troubles>>

Authorized ==
    /\ At("starting") /\ Link(owned) = "opening"
    /\ clients' = [clients EXCEPT ![owned].link = "open"]
    /\ UNCHANGED <<desk, lane, run, aborted, blocked, owned, face, attempt, retry,
                   timers, work, transfer, undone, troubles>>

(* Handlers are installed, and the bot is ready.                           *)
Ready ==
    /\ At("starting") /\ Connected(owned) /\ ~aborted
    /\ status' = "ready" /\ attempt' = 0 /\ watch' = owned
    /\ runtime' = [runtime EXCEPT !.current = owned, !.recovering = FALSE]
    /\ Goes("done")
    /\ UNCHANGED <<desk, lane, aborted, blocked, body, client, retry, later, work,
                   transfer, undone, troubles>>

(* The start fails, takes too long, or is called off: the client goes.     *)
StartFails ==
    /\ At("starting")
    /\ \E error \in {"network", "auth", "cancelled"} :
          /\ IF error = "cancelled" THEN aborted /\ UNCHANGED troubles
             ELSE IF Link(owned) = "lost" THEN UNCHANGED troubles ELSE Trouble
          /\ run' = [run EXCEPT !.at = "failing", !.error = error]
          /\ status' = IF error = "auth" THEN "auth_failed" ELSE "error"
    /\ client' = 0
    /\ clients' = [clients EXCEPT ![owned].link = "closing"]
    /\ UNCHANGED <<desk, lane, aborted, blocked, owned, runtime, attempt, retry,
                   timers, work, transfer, undone>>

(* cleanup, or its ten seconds.                                            *)
Cleaned ==
    /\ At("failing")
    /\ \/ Gone /\ owned' = 0 /\ UNCHANGED <<blocked, status, troubles>>
       \/ ~Gone /\ Trouble /\ blocked' = TRUE /\ status' = "error" /\ UNCHANGED owned
    /\ Goes("thrown")
    /\ UNCHANGED <<desk, lane, aborted, clients, client, runtime, attempt, retry,
                   timers, work, transfer, undone>>

(* Sockets are closed and requests settled, in time or late.               *)
Close ==
    \E k \in DOMAIN clients :
        /\ Link(k) \in {"closing"}
        /\ clients' = [clients EXCEPT ![k].link = "closed"]
        /\ UNCHANGED <<desk, lane, run, aborted, blocked, owned, face, attempt, retry,
                       timers, work, transfer, undone, troubles>>

(* restartBotInternal ends: the workers begin later.                       *)
Done ==
    /\ At("done") /\ Over /\ later' = client
    /\ UNCHANGED <<desk, lane, aborted, blocked, body, face, attempt, retry, watch,
                   work, transfer, undone, troubles>>

(* A deletion comes after the stop, and the environment's bot may follow.  *)
StopOver ==
    /\ At("stopped")
    /\ IF run.op.kind # "delete" THEN Over /\ UNCHANGED saved
       ELSE /\ saved' = [web |-> None, on |-> TRUE]
            /\ IF Env = None THEN Over ELSE run' = Restart([kind |-> "deleted"], Env)
    /\ UNCHANGED <<requests, lane, aborted, blocked, body, face, attempt, retry,
                   timers, work, transfer, undone, troubles>>

(* Mutant of Restored: the settings stay as they were written.             *)
RestoredNot(s) == saved

Restored(s) == s

(* What failed may be tried again; a change of the configuration is undone *)
(* with the bot it had.                                                    *)
Thrown ==
    /\ At("thrown") /\ UNCHANGED <<attempt, blocked>>
    /\ CASE run.op.kind \in {"boot", "retry", "manual"} ->
              Over /\ ScheduleRetry(run.error) /\ UNCHANGED saved
         [] run.op.kind \in {"put", "migrate"} /\ ~run.back ->
              /\ saved' = Restored(run.before)
              /\ LET on == run.before.on /\ Effective(run.before) # None
                     use == IF run.op.kind = "migrate" THEN Env
                            ELSE IF on THEN Effective(run.before) ELSE None
                 IN run' = [Op(run.op, "stop", IF use = None THEN "stop" ELSE "restart",
                               use, run.before) EXCEPT !.back = TRUE]
              /\ UNCHANGED <<runtime, retry>>
         [] OTHER -> Over /\ UNCHANGED <<saved, runtime, retry>>
    /\ UNCHANGED <<requests, lane, aborted, body, client, status, timers, work,
                   transfer, undone, troubles>>

-----------------------------------------------------------------------------
(* The workers begin after the window of isolation.                        *)
Later ==
    /\ later # 0 /\ later' = 0
    /\ workers' = IF client = later /\ Connected(later) /\ status = "ready"
                  THEN later ELSE workers
    /\ UNCHANGED <<desk, lane, run, aborted, blocked, body, face, attempt, retry,
                   watch, scanning, transfer, undone, troubles>>

Scan ==
    /\ \/ workers # 0 /\ ~scanning /\ scanning' = TRUE
       \/ scanning /\ scanning' = FALSE
    /\ UNCHANGED <<desk, lane, run, aborted, blocked, body, face, attempt, retry,
                   timers, workers, transfer, undone, troubles>>

-----------------------------------------------------------------------------
(* A download by the bot.                                                  *)

Download ==
    /\ transfer.at = "none" /\ status = "ready" /\ Connected(client)
    /\ transfer' = [at |-> "uses", cred |-> Cred(client), k |-> client]
    /\ UNCHANGED <<desk, lane, run, aborted, blocked, body, face, attempt, retry,
                   timers, work, undone, troubles>>

(* acquire, when its client has gone.                                      *)
Acquire ==
    /\ transfer.at = "uses" /\ Link(transfer.k) # "open"
    /\ transfer' = [transfer EXCEPT !.at = "waits"]
    /\ UNCHANGED <<desk, lane, run, aborted, blocked, body, face, attempt, retry,
                   timers, work, undone, troubles>>

(* Mutant of Same: any bot will do.                                        *)
SameAny(cred) == TRUE

Same(cred) == cred = runtime.identity

Acquired ==
    /\ transfer.at = "waits"
    /\ \/ /\ Same(transfer.cred) /\ Connected(runtime.current)
          /\ transfer' = [transfer EXCEPT !.at = "uses", !.k = runtime.current]
       \/ /\ ~Same(transfer.cred) \/ (~Connected(runtime.current) /\ ~runtime.recovering)
          /\ transfer' = [transfer EXCEPT !.at = "failed", !.k = 0]
    /\ UNCHANGED <<desk, lane, run, aborted, blocked, body, face, attempt, retry,
                   timers, work, undone, troubles>>

Init ==
    /\ saved \in [web : Creds \cup {None}, on : BOOLEAN]
    /\ lane = <<[kind |-> "boot"]>> /\ run = Idle /\ aborted = FALSE
    /\ blocked = FALSE /\ owned = 0 /\ client = 0 /\ clients = <<>>
    /\ status = "stopped" /\ attempt = 0
    /\ retry = [due |-> FALSE, timer |-> 0, gen |-> 1]
    /\ watch = 0 /\ later = 0 /\ workers = 0 /\ scanning = FALSE
    /\ runtime = [identity |-> None, current |-> 0, recovering |-> FALSE]
    /\ transfer = [at |-> "none", cred |-> None, k |-> 0] /\ undone = 0
    /\ requests = 0 /\ troubles = 0

Next ==
    \/ RetryFires \/ Lost \/ Watched
    \/ \E c \in Creds, on \in BOOLEAN : Put(c, on)
    \/ Migrate \/ Disable \/ Delete \/ ManualRetry
    \/ Begin \/ Refuse \/ BeginStop \/ Stopped \/ StopFails \/ Construct
    \/ Authorized \/ Ready \/ StartFails \/ Cleaned \/ Close \/ Done \/ StopOver
    \/ Thrown \/ Later \/ Scan \/ Download \/ Acquire \/ Acquired

Spec == Init /\ [][Next]_vars

-----------------------------------------------------------------------------
TypeOK ==
    /\ saved \in [web : Creds \cup {None}, on : BOOLEAN]
    /\ {owned, client, watch, later, workers} \subseteq 0..Len(clients)
    /\ status \in {"stopped", "not_configured", "starting", "ready", "reconnecting",
                   "error", "auth_failed"}
    /\ attempt \in 0..MaxAttempts + 1

(* There is never a second bot: whatever was not confirmed to be closed is *)
(* the supervisor's, and after it could not be confirmed no other is made. *)
OneBot ==
    /\ \A k \in DOMAIN clients : Alive(k) => k = owned
    /\ client # 0 => client = owned /\ ~blocked

(* The bot that answers is the one that the settings describe, but for a   *)
(* migration that was undone.                                              *)
AsConfigured ==
    run = Idle /\ lane = <<>> /\ client # 0 /\ client # undone =>
        saved.on /\ Cred(client) = Effective(saved)

(* Workers have the bot's own client, and are over before another is made. *)
WorkersOver ==
    /\ workers # 0 => workers = client
    /\ scanning => \A k \in DOMAIN clients : Link(k) \in {"opening", "open"} => workers = k

(* A download goes on with the bot it began with, and waits for one only   *)
(* while it is not ready.                                                  *)
OwnBot == transfer.at = "uses" => Cred(transfer.k) = transfer.cred

BotKept == OneBot /\ AsConfigured /\ WorkersOver /\ OwnBot
=============================================================================

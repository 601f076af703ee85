--------------------------- MODULE UserTransport ---------------------------
(* One sender of the transport that a Telegram user account runs in its    *)
(* worker process (telegramUserTransport.ts over GramJS): connections that *)
(* replace each other in generations, the loop that packs, encrypts and    *)
(* sends requests, the gate before them, replays of file reads, and the    *)
(* closing of the whole.                                                   *)
EXTENDS Naturals, FiniteSets

CONSTANTS
    Files, Calls,       \* requests: upload.GetFile, and any other
    Main,               \* is it the main sender?
    MaxFragments,       \* file requests at once
    MaxAttempts,        \* connections a flight tries
    MaxReplays,         \* of a file request
    MaxConnections,     \* bound: connections made
    MaxTroubles         \* bound: faults, floods and aborts

VARIABLES
    generation, closed, failed,     \* of the sender's owner
    accountFailure, terminal,       \* of the transport
    flight,     \* the one reconnection under way: its step and attempt
    open,       \* connections whose socket is not closed
    made,       \* connections made so far
    up,         \* _userConnected, and nothing is being replaced
    loop,       \* send loops: generation, batch
    queue,      \* _sendQueue
    pending,    \* _pendingState: sent and not answered
    request,    \* of each request
    sent,       \* how often each was sent, refused salts apart
    active,     \* fileActive
    flood, episode, limit, halved,  \* floodUntil, floodEpisode, fragmentLimit
    responses,  \* fileResponses
    closing,    \* the step of close
    troubles

owner == <<generation, closed, failed, accountFailure>>
wire == <<flight, open, made, up, loop>>
states == <<queue, pending, request>>
gate == <<active, flood, episode, limit, halved, responses>>
end == <<terminal, closing>>
vars == <<owner, wire, states, sent, gate, end, troubles>>

Requests == Files \cup Calls
NoFlight == [at |-> "none", attempt |-> 0]
NoTimeout == [gen |-> 0, responses |-> 0]
Fresh == [at |-> "none", error |-> "none", slot |-> FALSE, gen |-> 0, saw |-> 0,
          replays |-> 0, recovered |-> FALSE, episode |-> 0]

Waits(r) == request[r].at = "waiting"       \* r is in owner.states
Usable == ~terminal /\ ~accountFailure /\ ~closed /\ ~failed
Connected == Usable /\ up

Trouble == troubles < MaxTroubles /\ troubles' = troubles + 1

Fails(r, error) ==
    request' = [request EXCEPT ![r].at = "failing", ![r].error = error]

(* rejectStates: whatever is queued, sent or waits fails.                  *)
Rejected(asked, error) ==
    [r \in Requests |-> IF asked[r].at = "waiting"
        THEN [asked[r] EXCEPT !.at = "failing", !.error = error]
        ELSE asked[r]]

-----------------------------------------------------------------------------
(* connect: one flight at a time, which first stops what there was.        *)

Launched(asked) ==
    /\ generation' = generation + 1 /\ up' = FALSE
    /\ flight' = [at |-> "stop", attempt |-> 0]
    /\ queue' = {} /\ pending' = {}
    /\ request' = Rejected(asked, "lost")

(* reconnect, by a request r that then waits in "at".                      *)
Reconnects(r, asked, at) ==
    /\ UNCHANGED <<closed, failed, accountFailure, open, made, loop>>
    /\ IF ~Usable
       THEN /\ request' = [asked EXCEPT ![r].at = "failing", ![r].error = "other"]
            /\ UNCHANGED <<generation, up, flight, queue, pending>>
       ELSE LET joins == [asked EXCEPT ![r].at = at] IN
            IF flight.at # "none"
            THEN request' = joins /\ UNCHANGED <<generation, up, flight, queue, pending>>
            ELSE Launched(joins)

(* stop awaits the closing of the connections and the end of the loops.    *)
Stopped ==
    /\ flight.at = "stop" /\ loop = {}
    /\ open' = {}
    /\ flight' = [flight EXCEPT !.at = "try"]
    /\ UNCHANGED <<owner, made, up, loop, states, sent, gate, end, troubles>>

Try ==
    /\ flight.at = "try" /\ Usable /\ flight.attempt < MaxAttempts
    /\ made < MaxConnections /\ made' = made + 1
    /\ open' = open \cup {made'}
    /\ flight' = [at |-> "open", attempt |-> flight.attempt + 1]
    /\ UNCHANGED <<owner, up, loop, states, sent, gate, end, troubles>>

Settled(from, to) ==
    [r \in Requests |-> IF request[r].at \in from
        THEN [request[r] EXCEPT !.at = to[@]] ELSE request[r]]

(* Mutant of Superseded: the connection is not looked at again.            *)
NeverSuperseded == FALSE

(* What happened while the connection was opened.                          *)
Superseded == closed \/ terminal \/ accountFailure

(* The connection is open: the loops start, and the flight is over.        *)
Opened ==
    /\ flight.at = "open" /\ ~Superseded
    /\ up' = TRUE /\ flight' = NoFlight
    /\ loop' = {[gen |-> generation, batch |-> {}]}
    /\ request' = Settled({"joined", "repairing"},
                          [joined |-> "ready", repairing |-> "gate"])
    /\ UNCHANGED <<owner, open, made, queue, pending, sent, gate, end, troubles>>

(* It could not be opened, or came too late: it is closed, and the next    *)
(* attempt begins.                                                         *)
OpenFails ==
    /\ flight.at = "open"
    /\ \/ Superseded /\ UNCHANGED troubles
       \/ Trouble
    /\ flight' = [flight EXCEPT !.at = "stop"]
    /\ queue' = {} /\ pending' = {} /\ request' = Rejected(request, "lost")
    /\ UNCHANGED <<owner, open, made, up, loop, sent, gate, end>>

(* The flight gives up.  The main sender takes the account with it.        *)
GivesUp ==
    /\ flight.at = "try"
    /\ ~Usable \/ flight.attempt = MaxAttempts
    /\ flight' = NoFlight
    /\ failed' = (failed \/ ~(closed \/ terminal))
    /\ accountFailure' = (accountFailure \/ (Main /\ failed'))
    /\ queue' = {} /\ pending' = {}
    /\ request' = [r \in Requests |->
           IF request[r].at \in {"joined", "repairing"}
           THEN [request[r] EXCEPT !.at = "failing", !.error = "other"]
           ELSE Rejected(request, "lost")[r]]
    /\ UNCHANGED <<generation, closed, open, made, up, loop, sent, gate, end,
                   troubles>>

(* Ten seconds later another connect may be tried.                         *)
Retryable ==
    /\ failed /\ ~accountFailure /\ failed' = FALSE
    /\ UNCHANGED <<generation, closed, accountFailure, wire, states, sent, gate,
                   end, troubles>>

(* The connection is lost, and the receiving loop notices.                 *)
ConnectionLost ==
    /\ up /\ flight.at = "none" /\ Usable /\ Trouble
    /\ Launched(request)
    /\ UNCHANGED <<closed, failed, accountFailure, open, made, loop, sent, gate, end>>

(* The key is refused: the sender is disconnected for good.                *)
BadAuthKey ==
    /\ up /\ ~closed /\ Trouble
    /\ failed' = TRUE /\ accountFailure' = (accountFailure \/ Main)
    /\ closed' = TRUE /\ generation' = generation + 1 /\ up' = FALSE
    /\ queue' = {} /\ pending' = {} /\ request' = Rejected(request, "other")
    /\ UNCHANGED <<flight, open, made, loop, sent, gate, end>>

-----------------------------------------------------------------------------
(* The send loop.                                                          *)

Stale(l) == ~up \/ l.gen # generation

(* A batch is taken from the queue and encrypted.                          *)
Pack ==
    \E l \in loop :
        /\ ~Stale(l) /\ l.batch = {} /\ queue # {}
        /\ loop' = {[l EXCEPT !.batch = queue]}
        /\ queue' = {}
        /\ UNCHANGED <<owner, flight, open, made, up, pending, request, sent,
                       gate, end, troubles>>

(* Mutant of Abandoned: only a lost connection is noticed.                 *)
AbandonedNever(l) == FALSE

(* A request of the batch was aborted or timed out meanwhile.              *)
Abandoned(l) == \E r \in l.batch : ~Waits(r)

(* Those that still wait go back to the queue.                             *)
Repack ==
    \E l \in loop :
        /\ ~Stale(l) /\ Abandoned(l)
        /\ loop' = {[l EXCEPT !.batch = {}]}
        /\ queue' = queue \cup {r \in l.batch : Waits(r)}
        /\ UNCHANGED <<owner, flight, open, made, up, pending, request, sent,
                       gate, end, troubles>>

Transmit ==
    \E l \in loop :
        /\ ~Stale(l) /\ l.batch # {} /\ ~Abandoned(l)
        /\ pending' = pending \cup l.batch
        /\ sent' = [r \in Requests |-> sent[r] + IF r \in l.batch THEN 1 ELSE 0]
        /\ loop' = {[l EXCEPT !.batch = {}]}
        /\ UNCHANGED <<owner, flight, open, made, up, queue, request, gate, end,
                       troubles>>

(* Sending fails: the loop asks for a reconnection and ends.               *)
TransmitFails ==
    \E l \in loop :
        /\ ~Stale(l) /\ l.batch # {} /\ ~Abandoned(l) /\ Trouble
        /\ flight.at = "none" /\ Usable
        /\ Launched(request)
        /\ loop' = {}
        /\ UNCHANGED <<closed, failed, accountFailure, open, made, sent, gate, end>>

LoopEnds ==
    \E l \in loop :
        /\ Stale(l) /\ loop' = {}
        /\ UNCHANGED <<owner, flight, open, made, up, states, sent, gate, end,
                       troubles>>

-----------------------------------------------------------------------------
(* invoke and enqueue.                                                     *)

Invoke(r) ==
    /\ request[r].at = "none" /\ ~terminal /\ ~accountFailure
    /\ request' = [request EXCEPT ![r].at = "gate"]
    /\ UNCHANGED <<owner, wire, queue, pending, sent, gate, end, troubles>>

(* acquire: not during a flood, and a file only below the limit.           *)
Acquire(r) ==
    LET admitted == [request EXCEPT ![r].slot = (r \in Files), ![r].episode = episode]
    IN /\ request[r].at = "gate" /\ ~flood
       /\ r \in Files => active < limit
       /\ active' = active + IF r \in Files THEN 1 ELSE 0
       /\ IF Connected
          THEN /\ request' = [admitted EXCEPT ![r].at = "ready"]
               /\ UNCHANGED <<owner, wire, queue, pending>>
          ELSE Reconnects(r, admitted, "joined")
       /\ UNCHANGED <<flood, episode, limit, halved, responses, sent, end, troubles>>

Enqueue(r) ==
    /\ request[r].at = "ready"
    /\ request' = [request EXCEPT ![r].at = "waiting", ![r].gen = generation,
                                  ![r].saw = responses]
    /\ queue' = queue \cup {r}
    /\ UNCHANGED <<owner, wire, pending, sent, gate, end, troubles>>

Removed(r) == queue' = queue \ {r} /\ pending' = pending \ {r}

(* The signal of the caller, which the transport's own includes.           *)
Abort(r) ==
    /\ request[r].at \in {"gate", "joined", "repairing", "ready", "waiting"}
    /\ Trouble
    /\ Removed(r) /\ Fails(r, "abort")
    /\ UNCHANGED <<owner, wire, sent, gate, end>>

(* Thirty seconds without an answer.                                       *)
Timeout(r) ==
    /\ Waits(r) /\ Trouble
    /\ Removed(r) /\ Fails(r, "timeout")
    /\ UNCHANGED <<owner, wire, sent, gate, end>>

Answer(r) ==
    /\ r \in pending /\ up
    /\ Removed(r)
    /\ request' = [request EXCEPT ![r].at = "answered"]
    /\ responses' = IF r \in Files THEN responses + 1 ELSE responses
    /\ UNCHANGED <<owner, wire, active, flood, episode, limit, halved, sent, end,
                   troubles>>

(* Reads went well for a minute: one more fragment at a time.              *)
Recover(r) ==
    /\ request[r].at = "answered" /\ r \in Files
    /\ request[r].episode = episode /\ ~flood /\ limit < MaxFragments
    /\ limit' = limit + 1
    /\ UNCHANGED <<owner, wire, states, active, flood, episode, halved,
                   responses, sent, end, troubles>>

(* Telegram answers with an error, which it may be useful to try again.    *)
AnswerError(r) ==
    /\ r \in pending /\ up /\ Trouble
    /\ Removed(r)
    /\ \E error \in {"server", "other"} : Fails(r, error)
    /\ UNCHANGED <<owner, wire, sent, gate, end>>

(* The salt was wrong: Telegram did nothing, and the library queues a      *)
(* request that is still owned.                                            *)
BadSalt(r) ==
    /\ r \in pending /\ up /\ Usable /\ Trouble
    /\ pending' = pending \ {r} /\ queue' = queue \cup {r}
    /\ sent' = [sent EXCEPT ![r] = @ - 1]
    /\ UNCHANGED <<owner, wire, request, gate, end>>

(* Mutant of Halved: the last fragment goes as well.                       *)
HalvedToNone == limit \div 2
Halved == IF limit < 2 THEN 1 ELSE limit \div 2

(* A flood; requests admitted before it belong to its episode, and a long  *)
(* one halves the fragments once.                                          *)
Flooded(r) ==
    \E long \in BOOLEAN :
        /\ r \in pending /\ up /\ Trouble
        /\ Removed(r) /\ Fails(r, "flood")
        /\ flood' = TRUE
        /\ episode' = IF request[r].episode = episode THEN episode + 1 ELSE episode
        /\ IF long /\ halved # episode'
           THEN limit' = Halved /\ halved' = episode'
           ELSE UNCHANGED <<limit, halved>>
        /\ UNCHANGED <<owner, wire, sent, active, responses, end>>

FloodEnds ==
    /\ flood /\ flood' = FALSE
    /\ UNCHANGED <<owner, wire, states, sent, active, episode, limit, halved,
                   responses, end, troubles>>

Freed(r) == active' = active - IF request[r].slot THEN 1 ELSE 0

Succeed(r) ==
    /\ request[r].at = "answered" /\ Freed(r)
    /\ request' = [request EXCEPT ![r].at = "done", ![r].slot = FALSE]
    /\ UNCHANGED <<owner, wire, queue, pending, sent, flood, episode, limit,
                   halved, responses, end, troubles>>

(* Mutant of Replayable: every request is sent again.                      *)
ReplayableAll(r) ==
    /\ request[r].replays < MaxReplays
    /\ request[r].error \in {"lost", "timeout", "server"} /\ ~terminal

(* Only reads of files are sent again.                                     *)
Replayable(r) ==
    /\ r \in Files /\ request[r].replays < MaxReplays
    /\ request[r].error \in {"lost", "timeout", "server"} /\ ~terminal

(* The sender is replaced after a second timeout, or after one during      *)
(* which nothing else was answered; unless it was replaced since.          *)
Suspect(q) ==
    /\ q.error = "timeout" /\ ~q.recovered
    /\ q.gen = generation /\ (q.replays > 0 \/ q.saw = responses)

Joins(q) == q.error = "timeout" /\ ~q.recovered /\ q.gen # generation

(* The end of enqueue, and what invoke does with its error.                *)
Fail(r) ==
    LET q == request[r]
        freed == [request EXCEPT ![r].slot = FALSE]
        again == [freed EXCEPT ![r].replays = @ + 1, ![r].at = "gate"]
    IN /\ q.at = "failing" /\ Freed(r)
       /\ IF ~Replayable(r)
          THEN /\ request' = [freed EXCEPT ![r].at = "failed"]
               /\ UNCHANGED <<owner, wire, queue, pending>>
          ELSE IF Suspect(q)
          THEN Reconnects(r, [again EXCEPT ![r].recovered = TRUE], "repairing")
          ELSE /\ request' = IF Joins(q) /\ flight.at # "none"
                             THEN [again EXCEPT ![r].at = "repairing"] ELSE again
               /\ UNCHANGED <<owner, wire, queue, pending>>
       /\ UNCHANGED <<sent, flood, episode, limit, halved, responses, end, troubles>>

-----------------------------------------------------------------------------
(* close.                                                                  *)

(* Every call is aborted, the sockets and the sender are closed.           *)
Close ==
    /\ closing = "none" /\ Trouble
    /\ terminal' = TRUE /\ closing' = "flights"
    /\ closed' = TRUE /\ generation' = generation + 1 /\ up' = FALSE
    /\ queue' = {} /\ pending' = {}
    /\ request' = [r \in Requests |->
           IF request[r].at \in {"gate", "joined", "repairing", "ready", "waiting"}
           THEN [request[r] EXCEPT !.at = "failing", !.error = "closed"]
           ELSE request[r]]
    /\ UNCHANGED <<failed, accountFailure, flight, open, made, loop, sent, gate>>

(* Mutant of Quiet: the flight is not awaited.                             *)
QuietButFlight ==
    loop = {} /\ \A r \in Requests : request[r].at \in {"none", "done", "failed"}

(* Nothing is under way any more.                                          *)
Quiet ==
    /\ loop = {} /\ flight.at = "none"
    /\ \A r \in Requests : request[r].at \in {"none", "done", "failed"}

(* All work has ended, and the sockets are closed once more.               *)
CloseEnds ==
    /\ closing = "flights" /\ Quiet
    /\ open' = {} /\ closing' = "closed"
    /\ UNCHANGED <<owner, flight, made, up, loop, states, sent, gate, terminal,
                   troubles>>

Init ==
    /\ generation = 1 /\ closed = FALSE /\ failed = FALSE
    /\ accountFailure = FALSE /\ terminal = FALSE
    /\ flight = [at |-> "try", attempt |-> 0] /\ open = {} /\ made = 0
    /\ up = FALSE /\ loop = {} /\ queue = {} /\ pending = {}
    /\ request = [r \in Requests |-> Fresh] /\ sent = [r \in Requests |-> 0]
    /\ active = 0 /\ flood = FALSE /\ episode = 0 /\ limit = MaxFragments
    /\ halved = 0 /\ responses = 0 /\ closing = "none" /\ troubles = 0

Connection ==
    \/ Stopped \/ Try \/ Opened \/ OpenFails \/ GivesUp \/ Retryable
    \/ ConnectionLost \/ BadAuthKey

Sending == Pack \/ Repack \/ Transmit \/ TransmitFails \/ LoopEnds

Next ==
    \/ Connection \/ Sending \/ FloodEnds \/ Close \/ CloseEnds
    \/ \E r \in Requests :
          \/ Invoke(r) \/ Acquire(r) \/ Enqueue(r) \/ Abort(r) \/ Timeout(r)
          \/ Answer(r) \/ Recover(r) \/ AnswerError(r) \/ BadSalt(r)
          \/ Flooded(r) \/ Succeed(r) \/ Fail(r)

Spec == Init /\ [][Next]_vars

-----------------------------------------------------------------------------
TypeOK ==
    /\ flight.at \in {"none", "stop", "try", "open"}
    /\ open \subseteq 1..MaxConnections /\ queue \subseteq Requests
    /\ pending \subseteq Requests /\ limit \in 1..MaxFragments
    /\ active \in 0..MaxFragments /\ Cardinality(loop) <= 1

(* The answer of a request that has ended is not awaited; apart from what  *)
(* Telegram refused for its salt only reads of files are sent again, and   *)
(* those MaxReplays times.                                                 *)
OnlyOwned ==
    /\ \A r \in pending : Waits(r)
    /\ \A r \in Requests :
          sent[r] <= IF r \in Files THEN MaxReplays + 1 ELSE 1

(* One connection at a time.                                               *)
OneConnection == Cardinality(open) <= 1

(* The file requests that are counted are those that hold a slot, whatever *)
(* became of them.                                                         *)
SlotsHeld == active = Cardinality({r \in Requests : request[r].slot})

(* A closed sender does not come up again, and after close nothing is open *)
(* or under way.                                                           *)
ClosedIsQuiet ==
    /\ up => ~closed
    /\ closing = "closed" =>
          /\ open = {} /\ loop = {} /\ flight.at = "none"
          /\ \A r \in Requests : request[r].at \in {"none", "done", "failed"}

TransportKept == OnlyOwned /\ OneConnection /\ SlotsHeld /\ ClosedIsQuiet
=============================================================================

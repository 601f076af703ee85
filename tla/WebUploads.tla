----------------------------- MODULE WebUploads -----------------------------
(* The uploads of the web page (App.tsx, boundedUploadQueue.ts, api.ts):   *)
(* items take turns in a queue that can be paused, are cancelled, retried  *)
(* and resumed, while their requests travel and the sessions of the server *)
(* outlive the page's knowledge of them.                                   *)
EXTENDS Naturals, Sequences, FiniteSets, FiniteSetsExt, SequencesExt

CONSTANTS
    Files,          \* files that the user uploads
    Large,          \* those that are sent in chunks
    Limit,          \* uploads at a time
    Chunks,         \* number of chunks of a large file
    MaxSessions,    \* bound: sessions that the server opens
    MaxAdds,        \* bound: turns of an item in the queue
    MaxStops,       \* bound: pauses, cancellations and logouts
    MaxTroubles     \* bound: requests that are lost or fail

Kinds == {"new", "resume"}
Items == Files \X Kinds     \* an item of the page: a chosen file, or a resumed one
FileOf(i) == i[1]
NoSession == 0

VARIABLES
    task,       \* state of each item in the queue
    queue,      \* items that wait for a turn
    paused,     \* the queue starts nothing
    adds,       \* turns that each item was given
    pc,         \* what the upload of an item is doing
    aborted,    \* items whose present turn was cancelled
    attached,   \* session that an item is to resume
    known,      \* chunks that an item believes sent
    view,       \* what the page shows of each item
    closing,    \* items that are about to be cleared from the page
    recovered,  \* unfinished sessions that the page offers
    resuming,   \* those that an item resumes
    reload,     \* they are to be asked for again
    page,       \* the user is logged in, is leaving, or is out
    online,     \* the server knows the login
    session,    \* sessions of the server
    stored,     \* copies of each file that the server stored
    told,       \* sessions that the page was told are over
    requests,   \* requests on their way, or answered
    doubt,      \* requests of each file whose effect the page never learnt
    stops, troubles

queueVars == <<task, queue, paused, adds>>
turnVars == <<pc, aborted, attached, known>>
pageVars == <<view, closing, recovered, resuming, reload, page>>
serverVars == <<online, session, stored, told>>
vars == <<queueVars, turnVars, pageVars, serverVars, requests, doubt, stops, troubles>>

Sessions == DOMAIN session
Live == {"open", "failed", "completing"}
Listed == {s \in Sessions : session[s].status \in Live}

Trouble == troubles < MaxTroubles /\ troubles' = troubles + 1
Smooth == UNCHANGED troubles
Stop == stops < MaxStops /\ stops' = stops + 1

-----------------------------------------------------------------------------
(* The queue: pump starts what waits, as long as there are slots.          *)
Active(t) == {i \in Items : t[i] = "active"}
Free(t) == IF Cardinality(Active(t)) >= Limit THEN 0 ELSE Limit - Cardinality(Active(t))
Turns(t, q, p) == IF p THEN 0 ELSE IF Len(q) < Free(t) THEN Len(q) ELSE Free(t)

(* What follows when tasks t, waiting q and pause p are what became of the *)
(* queue, with c the work and v the view of the items.                     *)
Pump(t, q, p, c, v) ==
    LET n == Turns(t, q, p)
        starts == {q[k] : k \in 1..n} IN
    /\ task' = [i \in Items |-> IF i \in starts THEN "active" ELSE t[i]]
    /\ queue' = SubSeq(q, n + 1, Len(q))
    /\ paused' = p
    /\ aborted' = aborted \ starts
    /\ pc' = [i \in Items |-> IF i \notin starts THEN c[i]
                              ELSE IF attached'[i] = NoSession THEN "capabilities" ELSE "list"]
    /\ view' = [i \in Items |-> IF i \in starts /\ v[i] # "none" THEN "uploading" ELSE v[i]]

Add(i) ==
    /\ adds[i] < MaxAdds
    /\ adds' = [adds EXCEPT ![i] = @ + 1]
    /\ Pump([task EXCEPT ![i] = "pending"], Append(queue, i), paused, pc,
            [view EXCEPT ![i] = "pending"])

Shown(i, what) == [view EXCEPT ![i] = IF @ = "none" THEN "none" ELSE what]

(* What the page does when the turn of an item ends: a resumed session is  *)
(* offered no more, or all are asked for again.                            *)
Over(i, what) ==
    LET s == attached[i] IN
    IF i[2] = "resume"
    THEN /\ resuming' = resuming \ {s}
         /\ recovered' = IF what = "completed" THEN recovered \ {s} ELSE recovered
         /\ reload' = (reload \/ what # "completed")
    ELSE /\ reload' = (reload \/ adds[i] = 1)
         /\ UNCHANGED <<resuming, recovered>>

(* The turn of an item ends, and pump goes on.                             *)
Settle(i, what) ==
    /\ UNCHANGED attached
    /\ Pump([task EXCEPT ![i] = "settled"], queue, paused, [pc EXCEPT ![i] = "idle"],
            Shown(i, what))
    /\ Over(i, what)
    /\ UNCHANGED <<adds, known, closing, page>>

(* A request of the present turn.                                          *)
Request(i, kind, s, part) ==
    [item |-> i, turn |-> adds[i], kind |-> kind, of |-> s, part |-> part, answer |-> "none"]
Ask(i, kind, s, part) ==
    /\ requests' = requests \cup {Request(i, kind, s, part)}
    /\ pc' = [pc EXCEPT ![i] = kind]
Waits(r) == pc[r.item] = r.kind /\ r.turn = adds[r.item] /\ task[r.item] = "active"

(* The next chunk, or the end; a cancelled upload asks for the end of the  *)
(* session instead.                                                        *)
Go(i, s) ==
    /\ IF i \in aborted THEN Ask(i, "delete", s, 0)
       ELSE IF known'[i] = 1..Chunks THEN Ask(i, "complete", s, 0)
       ELSE Ask(i, "chunk", s, Min(1..Chunks \ known'[i]))
    /\ UNCHANGED <<queueVars, aborted, pageVars>>

-----------------------------------------------------------------------------
(* startUpload                                                             *)
Start(f) ==
    LET i == <<f, "new">> IN
    /\ page = "in" /\ task[i] = "none" /\ adds[i] = 0
    /\ UNCHANGED attached
    /\ Add(i)
    /\ UNCHANGED <<known, closing, recovered, resuming, reload, page, serverVars, requests, doubt,
                   stops, troubles>>

(* handleRetryUpload: the button of an item that failed or was cancelled.  *)
Retry(i) ==
    /\ i[2] = "new" /\ view[i] \in {"error", "cancelled"} /\ task[i] = "settled"
    /\ UNCHANGED attached
    /\ Add(i)
    /\ UNCHANGED <<known, closing, recovered, resuming, reload, page, serverVars, requests, doubt,
                   stops, troubles>>

(* handleResumeUpload: with the file of the session.                       *)
Resume(s) ==
    LET i == <<session[s].file, "resume">> IN
    /\ page = "in" /\ s \in recovered \ resuming
    /\ task[i] \in {"none", "settled"}
    /\ attached' = [attached EXCEPT ![i] = s]
    /\ resuming' = resuming \cup {s}
    /\ Add(i)
    /\ UNCHANGED <<known, closing, recovered, reload, page, serverVars, requests, doubt, stops,
                   troubles>>

(* An upload without a session: a small file is sent whole.  A request     *)
(* that is aborted before it is sent never ends.                           *)
Capabilities(i) ==
    /\ pc[i] = "capabilities"
    /\ \/ /\ Trouble
          /\ Settle(i, "error")
          /\ UNCHANGED requests
       \/ /\ Smooth
          /\ IF FileOf(i) \in Large /\ i \in aborted
             THEN Settle(i, "cancelled") /\ UNCHANGED requests
             ELSE /\ IF i \in aborted THEN pc' = [pc EXCEPT ![i] = "stuck"] /\ UNCHANGED requests
                     ELSE Ask(i, IF FileOf(i) \in Large THEN "init" ELSE "simple", NoSession, 0)
                  /\ UNCHANGED <<queueVars, aborted, attached, known, pageVars>>
    /\ UNCHANGED <<serverVars, doubt, stops>>

(* resumeChunkedUpload: the session is looked up, and the file compared.   *)
Relist(i) ==
    LET s == attached[i] status == session[s].status IN
    /\ pc[i] = "list" /\ online
    /\ \/ Trouble /\ Settle(i, "error") /\ UNCHANGED requests
       \/ /\ Smooth
          /\ IF status \notin {"open", "failed"}
             THEN Settle(i, "error") /\ UNCHANGED requests
             ELSE IF status = "failed" /\ i \in aborted
             THEN Settle(i, "cancelled") /\ UNCHANGED requests
             ELSE /\ known' = [known EXCEPT ![i] = session[s].chunks]
                  /\ IF status = "failed"
                     THEN /\ Ask(i, "retry", s, 0)
                          /\ UNCHANGED <<queueVars, aborted, pageVars>>
                     ELSE Go(i, s)
                  /\ UNCHANGED attached
    /\ UNCHANGED doubt
    /\ UNCHANGED <<serverVars, stops>>

-----------------------------------------------------------------------------
(* The server.                                                             *)
Answered(r, answer) ==
    requests' = (requests \ {r}) \cup
        (IF Waits(r) \/ answer = "working" THEN {[r EXCEPT !.answer = answer]} ELSE {})
With(s, status) == session' = [session EXCEPT ![s].status = status]

Open(r) ==
    /\ r.kind = "init" /\ Len(session) < MaxSessions
    /\ session' = Append(session, [file |-> FileOf(r.item), status |-> "open", chunks |-> {}])
    /\ requests' = (requests \ {r}) \cup
           (IF Waits(r) THEN {[r EXCEPT !.answer = "ok", !.of = Len(session) + 1]} ELSE {})
    /\ UNCHANGED stored /\ Smooth

Simple(r) ==
    /\ r.kind = "simple"
    /\ \/ Smooth /\ stored' = [stored EXCEPT ![FileOf(r.item)] = @ + 1] /\ Answered(r, "ok")
       \/ Trouble /\ UNCHANGED stored /\ Answered(r, "refused")
    /\ UNCHANGED session

Reopen(r) ==
    /\ r.kind = "retry"
    /\ IF session[r.of].status = "failed" THEN With(r.of, "open") /\ Answered(r, "ok")
       ELSE Answered(r, "refused") /\ UNCHANGED session
    /\ UNCHANGED stored /\ Smooth

Write(r) ==
    /\ r.kind = "chunk"
    /\ IF session[r.of].status = "open"
       THEN /\ session' = [session EXCEPT ![r.of].chunks = @ \cup {r.part}]
            /\ Answered(r, "ok")
       ELSE Answered(r, "refused") /\ UNCHANGED session
    /\ UNCHANGED stored /\ Smooth

(* complete: a session that is completed already answers with its file.    *)
Complete(r) ==
    LET s == r.of IN
    /\ r.kind = "complete"
    /\ IF session[s].status = "completed" THEN Answered(r, "ok") /\ UNCHANGED session
       ELSE IF session[s].status = "open" /\ session[s].chunks = 1..Chunks
       THEN Answered(r, "working") /\ With(s, "completing")
       ELSE Answered(r, "refused") /\ UNCHANGED session
    /\ UNCHANGED stored /\ Smooth

Delete(r) ==
    LET status == session[r.of].status IN
    /\ r.kind = "delete"
    /\ IF status \in {"open", "failed"} THEN With(r.of, "cancelled") /\ Answered(r, "cancelled")
       ELSE /\ Answered(r, IF status = "completing" THEN "busy" ELSE "terminal")
            /\ UNCHANGED session
    /\ UNCHANGED stored /\ Smooth

Handle(r) ==
    /\ r.answer = "none"
    /\ \/ online /\ (Open(r) \/ Simple(r) \/ Reopen(r) \/ Write(r) \/ Complete(r) \/ Delete(r))
       \/ ~online /\ Answered(r, "unauthorized") /\ UNCHANGED <<session, stored>> /\ Smooth
    /\ UNCHANGED <<queueVars, turnVars, pageVars, online, told, doubt, stops>>

(* The completion that was claimed ends.                                   *)
Work(r) ==
    /\ r.answer = "working"
    /\ \/ /\ Smooth /\ With(r.of, "completed") /\ Answered(r, "ok")
          /\ stored' = [stored EXCEPT ![FileOf(r.item)] = @ + 1]
       \/ Trouble /\ With(r.of, "failed") /\ Answered(r, "refused") /\ UNCHANGED stored
    /\ UNCHANGED <<queueVars, turnVars, pageVars, online, told, doubt, stops>>

-----------------------------------------------------------------------------
(* Abort the turns of items, whose requests are still on their way: those  *)
(* that have a session ask for its end, the others end at once.            *)
Interruptible == {"init", "retry", "simple"}
Ending == {"chunk", "complete"}
Running(is) == {i \in is : task[i] = "active" /\ i \notin aborted}
SessionOf(i) == (CHOOSE r \in requests : r.item = i /\ Waits(r)).of
Doubts(is) == {FileOf(i) : i \in {j \in is : pc[j] \in {"init", "simple"}}}

(* Answers to what nobody waits for any more are gone.                     *)
GivenUp(is) ==
    {r \in requests : r.item \in is /\ Waits(r) /\ pc[r.item] \in Interruptible \cup Ending
                       => r.answer \in {"none", "working"}}

Aborted(is) ==
    /\ aborted' = aborted \cup is
    /\ requests' = GivenUp(is) \cup {Request(i, "delete", SessionOf(i), 0) : i \in {j \in is : pc[j] \in Ending}}
    /\ doubt' = [f \in Files |-> IF f \in Doubts(is) THEN doubt[f] + 1 ELSE doubt[f]]

(* handleCancelUpload                                                      *)
Cancel(i) ==
    /\ Stop /\ view[i] \in {"pending", "uploading", "processing"}
    /\ \/ /\ task[i] = "pending"
          /\ task' = [task EXCEPT ![i] = "settled"]
          /\ queue' = Remove(queue, i)
          /\ view' = [view EXCEPT ![i] = "cancelled"]
          /\ Over(i, "cancelled")
          /\ UNCHANGED <<paused, adds, turnVars, closing, page, requests, doubt>>
       \/ /\ i \in Running(Items) /\ pc[i] \in Interruptible
          /\ requests' = GivenUp({i})
          /\ doubt' = [f \in Files |-> IF f \in Doubts({i}) THEN doubt[f] + 1 ELSE doubt[f]]
          /\ Settle(i, "cancelled")
       \/ /\ i \in Running(Items) /\ pc[i] \notin Interruptible
          /\ Aborted({i})
          /\ pc' = [pc EXCEPT ![i] = IF @ \in Ending THEN "delete" ELSE @]
          /\ UNCHANGED <<queueVars, attached, known, pageVars>>
    /\ UNCHANGED <<serverVars, troubles>>

(* handleToggleUploadQueuePause                                            *)
Toggle ==
    /\ Stop /\ page = "in"
    /\ UNCHANGED attached
    /\ Pump(task, queue, ~paused, pc, view)
    /\ UNCHANGED <<adds, known, closing, recovered, resuming, reload, page, serverVars, requests,
                   doubt, troubles>>

(* resetAuthenticatedState, handleLogout: all is aborted and forgotten,    *)
(* and the turns of is end.                                                *)
Reset(next, is) ==
    LET running == Running(Items)
        over == is \cup {i \in running : pc[i] \in Interruptible} IN
    /\ Aborted(running)
    /\ task' = [i \in Items |-> IF task[i] # "active" THEN "none"
                                ELSE IF i \in over THEN "settled" ELSE "active"]
    /\ pc' = [i \in Items |-> IF i \in over THEN "idle"
                              ELSE IF i \in running /\ pc[i] \in Ending THEN "delete" ELSE pc[i]]
    /\ queue' = <<>> /\ paused' = FALSE
    /\ view' = [i \in Items |-> "none"]
    /\ closing' = {} /\ recovered' = {} /\ resuming' = {} /\ reload' = FALSE
    /\ page' = next
    /\ UNCHANGED <<adds, attached, known>>

Logout ==
    /\ Stop /\ page = "in"
    /\ Reset("leaving", {})
    /\ UNCHANGED <<serverVars, troubles>>

SignOut ==
    /\ page = "leaving"
    /\ page' = "out" /\ online' = FALSE
    /\ UNCHANGED <<queueVars, turnVars, view, closing, recovered, resuming, reload, session, stored,
                   told, requests, doubt, stops, troubles>>

Login ==
    /\ page = "out"
    /\ page' = "in" /\ online' = TRUE
    /\ recovered' = Listed
    /\ UNCHANGED <<queueVars, turnVars, view, closing, resuming, reload, session, stored, told,
                   requests, doubt, stops, troubles>>

(* The login expires at the server.                                        *)
Expire ==
    /\ Trouble /\ online /\ online' = FALSE
    /\ UNCHANGED <<queueVars, turnVars, pageVars, session, stored, told, requests, doubt, stops>>

-----------------------------------------------------------------------------
(* An answer arrives.                                                      *)
Drop(r) == requests' = requests \ {r}

(* The session is attached to the input, for a later turn.                 *)
Opened(r) ==
    LET i == r.item IN
    /\ r.kind = "init" /\ r.answer = "ok"
    /\ attached' = [attached EXCEPT ![i] = r.of]
    /\ known' = [known EXCEPT ![i] = {}]
    /\ requests' = (requests \ {r}) \cup {Request(i, "chunk", r.of, 1)}
    /\ pc' = [pc EXCEPT ![i] = "chunk"]
    /\ UNCHANGED <<queueVars, aborted, pageVars>>

(* chunkedUpload goes on with the next chunk, or with the end.             *)
Sent(r) ==
    LET i == r.item
        sent == IF r.kind = "chunk" THEN known[i] \cup {r.part} ELSE known[i]
        whole == sent = 1..Chunks IN
    /\ r.kind \in {"chunk", "retry"} /\ r.answer = "ok"
    /\ known' = [known EXCEPT ![i] = sent]
    /\ requests' = (requests \ {r}) \cup
           {IF whole THEN Request(i, "complete", r.of, 0)
            ELSE Request(i, "chunk", r.of, Min(1..Chunks \ sent))}
    /\ pc' = [pc EXCEPT ![i] = IF whole THEN "complete" ELSE "chunk"]
    /\ view' = IF r.kind = "chunk" /\ whole THEN Shown(i, "processing") ELSE view
    /\ UNCHANGED <<queueVars, aborted, attached, closing, recovered, resuming, reload, page>>

(* What the end of an upload is shown as: after a cancellation the session *)
(* is over, or may not be.                                                 *)
Outcome(r) ==
    IF r.kind = "delete"
    THEN IF r.answer \in {"cancelled", "terminal"} THEN "cancelled" ELSE "error"
    ELSE IF r.answer = "ok" THEN "completed" ELSE "error"

Ended(r) ==
    /\ r.kind \in {"complete", "simple", "delete"} \/ r.answer = "refused"
    /\ Settle(r.item, Outcome(r))
    /\ Drop(r)

Told(r) == IF r.kind \in {"complete", "delete"} /\ Outcome(r) # "error" THEN told \cup {r.of} ELSE told

Receive(r) ==
    /\ Waits(r) /\ r.answer \notin {"none", "working", "unauthorized"}
    /\ (Opened(r) \/ Sent(r) \/ Ended(r))
    /\ told' = Told(r)
    /\ UNCHANGED <<online, session, stored, doubt, stops, troubles>>

(* The login is not known any more: the page forgets all.                  *)
Unauthorized(i) ==
    /\ \/ \E r \in requests : r.item = i /\ Waits(r) /\ r.answer = "unauthorized"
       \/ pc[i] = "list" /\ ~online
    /\ Reset("out", IF pc[i] \in {"list", "delete"} THEN {i} ELSE {})
    /\ UNCHANGED <<serverVars, stops, troubles>>

(* The page gives a request up, which may still be on its way.             *)
Lose(r) ==
    LET i == r.item IN
    /\ Trouble /\ Waits(r)
    /\ doubt' = IF r.kind \in {"init", "simple"} THEN [doubt EXCEPT ![FileOf(i)] = @ + 1] ELSE doubt
    /\ \/ r.answer # "working" /\ Drop(r)
       \/ r.answer \in {"none", "working"} /\ UNCHANGED requests
    /\ Settle(i, "error")
    /\ UNCHANGED <<serverVars, stops>>

-----------------------------------------------------------------------------
(* loadIncompleteUploads                                                   *)
Reload ==
    /\ reload /\ page = "in"
    /\ \/ /\ online
          /\ recovered' = Listed /\ reload' = FALSE
          /\ UNCHANGED <<queueVars, turnVars, view, closing, resuming, page, requests, doubt>>
       \/ ~online /\ Reset("out", {})
    /\ UNCHANGED <<serverVars, stops, troubles>>

(* confirmCancelRecoveredUpload                                            *)
CancelRecovered(s) ==
    /\ Stop /\ page = "in" /\ online /\ s \in recovered \ resuming
    /\ IF session[s].status = "completing"
       THEN recovered' = Listed /\ UNCHANGED <<session, told>>
       ELSE /\ recovered' = recovered \ {s}
            /\ told' = told \cup {s}
            /\ session' = IF session[s].status \in {"open", "failed"}
                          THEN [session EXCEPT ![s].status = "cancelled"] ELSE session
    /\ UNCHANGED <<queueVars, turnVars, view, closing, resuming, reload, page, online, stored,
                   requests, doubt, troubles>>

(* handleCloseQueue: what is settled now is cleared a little later.        *)
Close ==
    /\ Stop /\ closing = {}
    /\ closing' = {i \in Items : view[i] \in {"completed", "error", "cancelled"}}
    /\ closing' # {}
    /\ UNCHANGED <<queueVars, turnVars, view, recovered, resuming, reload, page, serverVars,
                   requests, doubt, troubles>>

Clear ==
    /\ closing # {}
    /\ view' = [i \in Items |-> IF i \in closing THEN "none" ELSE view[i]]
    /\ closing' = {}
    /\ UNCHANGED <<queueVars, turnVars, recovered, resuming, reload, page, serverVars, requests,
                   doubt, stops, troubles>>

Init ==
    /\ task = [i \in Items |-> "none"] /\ queue = <<>> /\ paused = FALSE
    /\ adds = [i \in Items |-> 0]
    /\ pc = [i \in Items |-> "idle"] /\ aborted = {}
    /\ attached = [i \in Items |-> NoSession] /\ known = [i \in Items |-> {}]
    /\ view = [i \in Items |-> "none"] /\ closing = {}
    /\ recovered = {} /\ resuming = {} /\ reload = FALSE
    /\ page = "in" /\ online = TRUE
    /\ session = <<>> /\ stored = [f \in Files |-> 0] /\ told = {}
    /\ requests = {} /\ doubt = [f \in Files |-> 0]
    /\ stops = 0 /\ troubles = 0

Next ==
    \/ \E f \in Files : Start(f)
    \/ \E i \in Items : Retry(i) \/ Capabilities(i) \/ Relist(i) \/ Cancel(i) \/ Unauthorized(i)
    \/ \E s \in Sessions : Resume(s) \/ CancelRecovered(s)
    \/ \E r \in requests : Handle(r) \/ Work(r) \/ Receive(r) \/ Lose(r)
    \/ Toggle \/ Logout \/ SignOut \/ Login \/ Expire \/ Reload \/ Close \/ Clear

Spec == Init /\ [][Next]_vars

-----------------------------------------------------------------------------
TypeOK ==
    /\ task \in [Items -> {"none", "pending", "active", "settled"}]
    /\ queue \in Seq(Items) /\ paused \in BOOLEAN /\ adds \in [Items -> 0..MaxAdds]
    /\ pc \in [Items -> {"idle", "capabilities", "list", "simple", "init", "retry", "chunk",
                         "complete", "delete", "stuck"}]
    /\ aborted \subseteq Items /\ closing \subseteq Items
    /\ attached \in [Items -> 0..MaxSessions] /\ known \in [Items -> SUBSET (1..Chunks)]
    /\ view \in [Items -> {"none", "pending", "uploading", "processing", "completed", "error",
                           "cancelled"}]
    /\ recovered \cup resuming \cup told \subseteq Sessions
    /\ reload \in BOOLEAN /\ page \in {"in", "leaving", "out"} /\ online \in BOOLEAN
    /\ stored \in [Files -> Nat] /\ doubt \in [Files -> Nat]

(* Uploads take all the slots there are and no more, unless the queue is   *)
(* paused (boundedUploadQueue.ts).                                         *)
SlotsTaken ==
    /\ Cardinality(Active(task)) <= Limit
    /\ queue # <<>> /\ ~paused => Cardinality(Active(task)) = Limit

(* What the page shows as going on has a turn or waits for one, with one   *)
(* request under way at most (App.tsx).                                    *)
ViewTrue ==
    \A i \in Items :
        /\ (task[i] = "pending") <=> (\E k \in 1..Len(queue) : queue[k] = i)
        /\ view[i] = "pending" => task[i] = "pending"
        /\ view[i] \in {"uploading", "processing"} => task[i] = "active" /\ pc[i] # "idle"
        /\ view[i] \in {"completed", "error", "cancelled"} => task[i] = "settled" /\ pc[i] = "idle"
        /\ Cardinality({r \in requests : r.item = i /\ Waits(r)})
           = (IF pc[i] \in Interruptible \cup Ending \cup {"delete"} THEN 1 ELSE 0)

(* However often a file is retried, resumed and sent, it is stored once,   *)
(* but for requests whose effect the page could not learn (api.ts).        *)
StoredOnce ==
    \A f \in Files :
        /\ stored[f] <= 1 + doubt[f]
        /\ Cardinality({s \in Sessions : session[s].file = f}) <= 1 + doubt[f]
        /\ (\E i \in Items : FileOf(i) = f /\ view[i] = "completed") => stored[f] > 0

(* A session that the page was told is over takes nothing more.            *)
OverForGood == \A s \in told : session[s].status \in {"completed", "cancelled"}

UploadsKept == SlotsTaken /\ ViewTrue /\ StoredOnce /\ OverForGood
=============================================================================

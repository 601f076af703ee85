-------------------------- MODULE SessionsProofs --------------------------
(***************************************************************************)
(* Proofs about sessions with others.  Of user accounts of Telegram: the   *)
(* calls to their worker process (WorkerCalls), their logins               *)
(* (AccountLogin), the client of an account in the pool (UserClientPool)   *)
(* and a sender of that client (UserTransport).  Of the storage providers: *)
(* uploads (OneDriveUploads, GoogleUploads and PathUploads), whose answers *)
(* are lost and whose requests take effect late, so that each inductive    *)
(* invariant says what a request still under way can do at every step of   *)
(* the upload, and what the upload knows of it.                            *)
(*                                                                         *)
(* The specifications have nothing to do with each other; a variable that  *)
(* several of them have stands for that of the one spoken of.              *)
(***************************************************************************)
EXTENDS Naturals, Sequences, FiniteSets, FiniteSetTheorems, SequenceTheorems, TLAPS

CONSTANTS
    Boot, Others, MaxQueue,
    Phones, Qrs, Pinned, Requests, MaxErrors,
    Downloads, Scans, MaxConnections, MaxClients, MaxNow,
    Files, Calls, Main, MaxFragments, MaxAttempts, MaxReplays,
    Sizes, Attempts, Writes, Depth, Providers, Kinds,
    MaxTroubles

VARIABLES
    process, live, destroying, destroyed, call, work, down, back, frozen,
    flow, client, lock, request, session, wrote,
    row, refused, refusing, entry, quarantine, notBefore, cooldown, life, asked, now,
    generation, failed, accountFailure, terminal, flight, open, made, up, loop, queue, pending,
    sent, active, flood, episode, limit, halved, responses, closed, closing,
    fragments, folder, target, other, strays, pc, cause, at, tries, restarts, left,
    folders, born, provider, cache, makes, w, files, copies, kind, token, dir, file, again,
    late, blind, troubles

Worker == INSTANCE WorkerCalls
Logins == INSTANCE AccountLogin
Pool == INSTANCE UserClientPool
Transport == INSTANCE UserTransport
OneDrive == INSTANCE OneDriveUploads
Google == INSTANCE GoogleUploads
Paths == INSTANCE PathUploads

-----------------------------------------------------------------------------
(* The calls to the process of a user account.                             *)

Works == {"none", "runs", "waits", "progress", "aborted", "ended"}
CallKept == [at : {"none", "pending", "ok", "failed"}, waits : BOOLEAN, cancelled : BOOLEAN]
ToWorker == [call : Worker!Calls, what : {"call", "ack", "cancel"}]
FromWorker == [call : Worker!Calls, what : {"waits", "goes", "progress", "ok", "error"}]

CallsTyped ==
    /\ process \in {"none", "loading", "up", "term", "killed", "gone"}
    /\ live \in BOOLEAN /\ destroying \in BOOLEAN /\ destroyed \in BOOLEAN
    /\ call \in [Worker!Calls -> CallKept] /\ work \in [Worker!Calls -> Works]
    /\ down \in Seq(ToWorker) /\ back \in Seq(FromWorker)

(* Before the process is there nothing was called, and when it has gone    *)
(* nobody waits.                                                           *)
ProcessKnown ==
    /\ destroyed => destroying /\ process \in {"none", "loading", "gone"}
    /\ process \in {"none", "loading"} =>
           down = <<>> /\ back = <<>> /\ \A c \in Worker!Calls : call[c].at = "none"
    /\ process = "gone" => \A c \in Worker!Calls : call[c].at # "pending"

(* The worker hears of a call first, then of what became of it: one it has *)
(* not heard of is on its way.                                             *)
HeardInOrder ==
    /\ \A i \in 1..Len(down) : down[i].what = "call" => work[down[i].call] = "none"
    /\ \A i, j \in 1..Len(down) :
           i < j /\ down[i].call = down[j].call => down[j].what # "call"
    /\ \A i \in 1..Len(down) :
           down[i].what # "call" /\ work[down[i].call] = "none" =>
               \E j \in 1..Len(down) :
                   j < i /\ down[j].call = down[i].call /\ down[j].what = "call"
    /\ \A c \in Worker!Calls : call[c].at = "pending" /\ work[c] = "none" =>
           \E j \in 1..Len(down) : down[j].call = c /\ down[j].what = "call"
    /\ \A c \in Worker!Calls : call[c].at = "none" =>
           /\ ~call[c].waits /\ work[c] = "none"
           /\ \A i \in 1..Len(down) : down[i].call # c

(* An answer means that the operation has ended, and what was settled has. *)
AnsweredEnded ==
    /\ \A i \in 1..Len(back) : back[i].what \in {"ok", "error"} => work[back[i].call] = "ended"
    /\ \A c \in Worker!Calls :
           call[c].at \in {"ok", "failed"} /\ process = "up" => work[c] = "ended"

(* After position i of the messages from the worker, c's time runs again.  *)
Returns(c, i) ==
    \E k \in 1..Len(back) : k > i /\ back[k].call = c /\ back[k].what \in {"goes", "ok", "error"}

(* Who waits at the gate leaves it, and says so.                           *)
GateLeft ==
    process = "up" =>
        /\ \A i \in 1..Len(back) : back[i].what = "waits" =>
               work[back[i].call] \in {"waits", "aborted"} \/ Returns(back[i].call, i)
        /\ \A c \in Worker!Calls : call[c].at = "pending" /\ call[c].waits =>
               work[c] \in {"waits", "aborted"} \/ Returns(c, 0)

CallsInv == CallsTyped /\ ProcessKnown /\ HeardInOrder /\ AnsweredEnded /\ GateLeft

LEMMA Appended ==
    ASSUME NEW S, NEW s \in Seq(S), NEW e \in S
    PROVE  LET t == Append(s, e) IN
           /\ t \in Seq(S) /\ Len(s) \in Nat /\ Len(t) = Len(s) + 1 /\ t # <<>>
           /\ t[Len(s) + 1] = e /\ \A i \in 1..Len(s) : t[i] = s[i] /\ s[i] \in S
           /\ 1..Len(t) = 1..Len(s) \cup {Len(s) + 1} /\ Len(s) + 1 \notin 1..Len(s)
<1> DEFINE t == Append(s, e)
<1>1. t \in Seq(S) /\ Len(s) \in Nat /\ Len(t) = Len(s) + 1
      /\ t[Len(s) + 1] = e /\ \A i \in 1..Len(s) : t[i] = s[i] /\ s[i] \in S
    BY AppendProperties, ElementOfSeq, LenProperties
<1> HIDE DEF t
<1>2. t # <<>>
    BY <1>1, EmptySeq
<1>3. 1..Len(t) = 1..Len(s) \cup {Len(s) + 1} /\ Len(s) + 1 \notin 1..Len(s)
    BY <1>1
<1> QED BY <1>1, <1>2, <1>3 DEF t

LEMMA Tailed ==
    ASSUME NEW S, NEW s \in Seq(S), s # <<>>
    PROVE  /\ Tail(s) \in Seq(S) /\ Len(s) \in Nat \ {0} /\ Len(Tail(s)) = Len(s) - 1
           /\ Head(s) = s[1] /\ s[1] \in S /\ 1 \in 1..Len(s)
           /\ \A i \in 1..Len(Tail(s)) : i + 1 \in 1..Len(s) /\ Tail(s)[i] = s[i + 1]
           /\ \A i \in 1..Len(s) : i # 1 => i - 1 \in 1..Len(Tail(s)) /\ Tail(s)[i - 1] = s[i]
    BY HeadTailProperties, EmptySeq, LenProperties, ElementOfSeq

LEMMA Messages ==
    ASSUME CallsTyped
    PROVE  /\ \A i \in 1..Len(down) : down[i] \in ToWorker /\ down[i].call \in Worker!Calls
           /\ \A i \in 1..Len(back) : back[i] \in FromWorker /\ back[i].call \in Worker!Calls
<1>1. \A i \in 1..Len(down) : down[i] \in ToWorker
    BY ElementOfSeq DEF CallsTyped
<1>2. \A i \in 1..Len(back) : back[i] \in FromWorker
    BY ElementOfSeq DEF CallsTyped
<1> QED BY <1>1, <1>2 DEF ToWorker, FromWorker

(* The process changes, and is not up unless it was.                       *)
LEMMA ProcessMoves ==
    ASSUME CallsInv, process' \in {"none", "loading", "up", "term", "killed"},
           process' = "up" => process = "up",
           process' \in {"none", "loading"} => process \in {"none", "loading"},
           live' \in BOOLEAN, destroying' \in BOOLEAN, destroying => destroying',
           destroyed' \in BOOLEAN, destroyed' => destroying' /\ process' \in {"none", "loading", "gone"},
           UNCHANGED <<call, work, down, back>>
    PROVE  CallsInv'
BY DEF CallsInv, CallsTyped, ProcessKnown, HeardInOrder, AnsweredEnded, GateLeft, Returns

(* A call is sent.                                                         *)
LEMMA CallMoves ==
    ASSUME CallsInv, NEW c \in Worker!Calls, call[c].at = "none",
           process' \in {"up", "term"}, process' = "up" => process \in {"loading", "up"},
           process = "loading" => ~destroying,
           call' = [call EXCEPT ![c].at = "pending"],
           down' = Append(down, [call |-> c, what |-> "call"]),
           ~destroyed,
           UNCHANGED <<live, destroying, destroyed, work, back>>
    PROVE  CallsInv'
<1> USE DEF CallsInv
<1> DEFINE n == Len(down) + 1
           m == [call |-> c, what |-> "call"]
<1>2. /\ call' \in [Worker!Calls -> CallKept]
      /\ \A d \in Worker!Calls : /\ call'[d].at = IF d = c THEN "pending" ELSE call[d].at
                                 /\ call'[d].waits = call[d].waits
    BY DEF CallsTyped, CallKept
<1>3. m \in ToWorker /\ m.call = c /\ m.what = "call"
    BY DEF ToWorker
<1>4. /\ down' \in Seq(ToWorker) /\ Len(down) \in Nat /\ 1..Len(down') = 1..Len(down) \cup {n}
      /\ down'[n] = m /\ n \notin 1..Len(down) /\ down' # <<>>
      /\ \A i \in 1..Len(down) : down'[i] = down[i]
    BY <1>3, Appended DEF CallsTyped
<1>5. ~call[c].waits /\ work[c] = "none" /\ \A i \in 1..Len(down) : down[i].call # c
    BY DEF HeardInOrder
<1>6. CallsTyped'
    BY <1>2, <1>4 DEF CallsTyped
<1>7. ProcessKnown'
    BY DEF ProcessKnown
<1>8. HeardInOrder'
    BY <1>3, <1>4, <1>5, <1>2 DEF HeardInOrder
<1>9. AnsweredEnded'
    BY <1>2 DEF ProcessKnown, AnsweredEnded
<1>10. GateLeft'
    BY EmptySeq, <1>2, <1>5 DEF ProcessKnown, HeardInOrder, GateLeft, Returns
<1> QED BY <1>6, <1>7, <1>8, <1>9, <1>10

(* Something is said to the worker about a call that is pending.           *)
LEMMA TellHeard ==
    ASSUME CallsInv, NEW c \in Worker!Calls, call[c].at = "pending",
           NEW what \in {"ack", "cancel"},
           \A d \in Worker!Calls : call'[d].at = call[d].at /\ call'[d].waits = call[d].waits,
           down' = Append(down, [call |-> c, what |-> what]), UNCHANGED work
    PROVE  down' \in Seq(ToWorker) /\ HeardInOrder'
<1> USE DEF CallsInv
<1> DEFINE n == Len(down) + 1
           m == [call |-> c, what |-> what]
<1>3. m \in ToWorker /\ m.call = c /\ m.what = what /\ what # "call"
    BY DEF ToWorker
<1>4. /\ down' \in Seq(ToWorker) /\ Len(down) \in Nat /\ 1..Len(down') = 1..Len(down) \cup {n}
      /\ down'[n] = m /\ n \notin 1..Len(down) /\ down' # <<>>
      /\ \A i \in 1..Len(down) : down'[i] = down[i]
    BY <1>3, Appended DEF CallsTyped
<1>8. HeardInOrder'
    <2>1. \A i \in 1..Len(down') : down'[i].what = "call" => work[down'[i].call] = "none"
        BY <1>3, <1>4 DEF HeardInOrder
    <2>2. \A i, j \in 1..Len(down') :
             i < j /\ down'[i].call = down'[j].call => down'[j].what # "call"
        BY <1>3, <1>4 DEF HeardInOrder
    <2>3. \A i \in 1..Len(down') :
             down'[i].what # "call" /\ work[down'[i].call] = "none" =>
                 \E j \in 1..Len(down') :
                     j < i /\ down'[j].call = down'[i].call /\ down'[j].what = "call"
        <3>1. work[c] = "none" => \E j \in 1..Len(down) : down[j].call = c /\ down[j].what = "call"
            BY DEF HeardInOrder
        <3>2. \A j \in 1..Len(down) : j < n
            BY <1>4
        <3>3. work[c] = "none" =>
                  \E j \in 1..Len(down') : j < n /\ down'[j].call = c /\ down'[j].what = "call"
            BY <3>1, <3>2, <1>4
        <3>4. \A i \in 1..Len(down) : down'[i].what # "call" /\ work[down'[i].call] = "none" =>
                 \E j \in 1..Len(down') :
                     j < i /\ down'[j].call = down'[i].call /\ down'[j].what = "call"
            BY <1>4 DEF HeardInOrder
        <3> HIDE DEF n, m
        <3> QED BY <3>3, <3>4, <1>3, <1>4
    <2>4. \A d \in Worker!Calls : call'[d].at = "pending" /\ work[d] = "none" =>
             \E j \in 1..Len(down') : down'[j].call = d /\ down'[j].what = "call"
        BY <1>3, <1>4 DEF HeardInOrder
    <2>5. \A d \in Worker!Calls : call'[d].at = "none" =>
             /\ ~call'[d].waits /\ work[d] = "none"
             /\ \A i \in 1..Len(down') : down'[i].call # d
        BY <1>3, <1>4 DEF HeardInOrder
    <2> QED BY <2>1, <2>2, <2>3, <2>4, <2>5 DEF HeardInOrder
<1> QED BY <1>4, <1>8

(* The worker is told of a cancellation, which it is once.                 *)
LEMMA CancelSays ==
    ASSUME CallsInv, NEW c \in Worker!Calls, call[c].at = "pending", Worker!Cancel(c), UNCHANGED work
    PROVE  /\ call' \in [Worker!Calls -> CallKept]
           /\ \A d \in Worker!Calls : call'[d].at = call[d].at /\ call'[d].waits = call[d].waits
           /\ down' \in Seq(ToWorker) /\ HeardInOrder'
<1> USE DEF CallsInv
<1>1. CASE UNCHANGED <<call, down>>
    BY <1>1 DEF CallsTyped, HeardInOrder
<1>2. CASE call' = [call EXCEPT ![c].cancelled = TRUE] /\ Worker!Tell(c, "cancel")
    BY <1>2, TellHeard DEF CallsTyped, CallKept, Worker!Tell
<1> QED BY <1>1, <1>2 DEF Worker!Cancel

LEMMA AbortMoves ==
    ASSUME CallsInv, NEW c \in Worker!Calls, Worker!Abort(c)
    PROVE  CallsInv'
    BY CancelSays DEF CallsInv, Worker!Abort, Worker!Pending, CallsTyped, ProcessKnown,
        AnsweredEnded, GateLeft, Returns

(* Every call that is pending fails, and the process is killed.            *)
LEMMA FailMoves ==
    ASSUME CallsInv, Worker!Unanswered, process \in {"up", "term"}, live' \in BOOLEAN,
           UNCHANGED <<destroying, destroyed, work, down, back>>
    PROVE  CallsInv'
<1> USE DEF CallsInv
<1>1. /\ call' = [c \in Worker!Calls |-> IF call[c].at = "pending" THEN [call[c] EXCEPT !.at = "failed"]
                                         ELSE call[c]]
      /\ process' = "killed"
    BY DEF Worker!Unanswered, Worker!AllFail, Worker!Pending
<1>2. /\ call' \in [Worker!Calls -> CallKept]
      /\ \A d \in Worker!Calls :
            /\ call'[d].at = IF call[d].at = "pending" THEN "failed" ELSE call[d].at
            /\ call'[d].waits = call[d].waits
    BY <1>1 DEF CallsTyped, CallKept
<1>3. CallsTyped' /\ ProcessKnown'
    BY <1>1, <1>2 DEF CallsTyped, ProcessKnown
<1>4. HeardInOrder'
    BY <1>2 DEF HeardInOrder
<1>5. AnsweredEnded' /\ GateLeft'
    BY <1>1, <1>2 DEF AnsweredEnded, GateLeft
<1> QED BY <1>3, <1>4, <1>5

LEMMA ExitMoves ==
    ASSUME CallsInv, Worker!Exit
    PROVE  CallsInv'
<1> USE DEF CallsInv
<1>1. /\ call' = [c \in Worker!Calls |-> IF call[c].at = "pending" THEN [call[c] EXCEPT !.at = "failed"]
                                         ELSE call[c]]
      /\ work' = [c \in Worker!Calls |-> IF work[c] = "none" THEN "none" ELSE "ended"]
      /\ process' = "gone" /\ live' = FALSE /\ down' = <<>> /\ back' = <<>>
      /\ destroyed' = destroying /\ destroying' = destroying
    BY DEF Worker!Exit, Worker!AllFail, Worker!Pending
<1>2. /\ call' \in [Worker!Calls -> CallKept]
      /\ \A d \in Worker!Calls :
            /\ call'[d].at = IF call[d].at = "pending" THEN "failed" ELSE call[d].at
            /\ call'[d].waits = call[d].waits
    BY <1>1 DEF CallsTyped, CallKept
<1>3. Len(down') = 0 /\ Len(back') = 0 /\ down' \in Seq(ToWorker) /\ back' \in Seq(FromWorker)
    BY <1>1, EmptySeq
<1>4. CallsTyped'
    BY <1>1, <1>2, <1>3 DEF Works, CallsTyped
<1>7. ProcessKnown'
    BY <1>1, <1>2 DEF ProcessKnown
<1>5. HeardInOrder'
    BY <1>1, <1>2, <1>3 DEF HeardInOrder
<1>6. AnsweredEnded' /\ GateLeft'
    BY <1>1, <1>3 DEF AnsweredEnded, GateLeft
<1> QED BY <1>4, <1>5, <1>6, <1>7

(* A message from the worker is read.  What was settled by it has ended;   *)
(* a call waits as the message says; and no message that lets a call go on *)
(* is read without the call going on.                                      *)
LEMMA ReadMoves ==
    ASSUME CallsInv, back # <<>>, back' = Tail(back),
           NEW m, m = Head(back),
           call' \in [Worker!Calls -> CallKept], live' \in BOOLEAN,
           \A d \in Worker!Calls :
               \/ call'[d].at = call[d].at
               \/ /\ d = m.call /\ m.what \in {"ok", "error"} /\ call[d].at = "pending"
                  /\ call'[d].at \in {"ok", "failed"},
           \A d \in Worker!Calls : call'[d].at = "pending" /\ call'[d].waits =>
               \/ /\ call[d].waits
                  /\ d = m.call => m.what \notin {"goes", "ok", "error"}
               \/ d = m.call /\ m.what = "waits",
           down' \in Seq(ToWorker), HeardInOrder',
           process \in {"none", "loading"} => down' = down,
           UNCHANGED <<process, destroying, destroyed, work>>
    PROVE  CallsInv'
<1> USE DEF CallsInv
<1>1. /\ back' \in Seq(FromWorker) /\ Len(back) \in Nat \ {0} /\ Len(back') = Len(back) - 1
      /\ m = back[1] /\ m \in FromWorker /\ 1 \in 1..Len(back)
      /\ \A i \in 1..Len(back') : i + 1 \in 1..Len(back) /\ back'[i] = back[i + 1]
      /\ \A i \in 1..Len(back) : i # 1 => i - 1 \in 1..Len(back') /\ back'[i - 1] = back[i]
    BY Tailed DEF CallsTyped
<1>2. CallsTyped'
    BY <1>1 DEF CallsTyped
<1>3. ProcessKnown'
    BY <1>1 DEF ProcessKnown
<1>4. AnsweredEnded'
    BY <1>1 DEF AnsweredEnded
<1>5. GateLeft'
    <2> SUFFICES ASSUME process = "up" PROVE GateLeft'
        BY DEF GateLeft
    <2>1. ASSUME NEW d, NEW i \in 1..Len(back), Returns(d, i)
          PROVE  \E k \in 1..Len(back') : k > i - 1 /\ back'[k].call = d
                                          /\ back'[k].what \in {"goes", "ok", "error"}
        <3>1. PICK k \in 1..Len(back) : k > i /\ back[k].call = d
                                        /\ back[k].what \in {"goes", "ok", "error"}
            BY <2>1 DEF Returns
        <3>2. k # 1 /\ k - 1 > i - 1
            BY <3>1, <1>1
        <3> QED BY <3>1, <3>2, <1>1
    <2>2. \A h \in 1..Len(back) : back[h].what = "waits" =>
             work[back[h].call] \in {"waits", "aborted"} \/ Returns(back[h].call, h)
        BY DEF GateLeft
    <2>3. ASSUME NEW i \in 1..Len(back'), back'[i].what = "waits"
          PROVE  \/ work[back'[i].call] \in {"waits", "aborted"}
                 \/ \E k \in 1..Len(back') : k > i /\ back'[k].call = back'[i].call
                                             /\ back'[k].what \in {"goes", "ok", "error"}
        <3>1. i + 1 \in 1..Len(back) /\ back'[i] = back[i + 1] /\ (i + 1) - 1 = i
            BY <1>1
        <3>2. work[back'[i].call] \in {"waits", "aborted"} \/ Returns(back'[i].call, i + 1)
            BY <2>3, <3>1, <2>2
        <3> QED BY <2>1, <3>1, <3>2
    <2>4. ASSUME NEW d \in Worker!Calls, call'[d].at = "pending", call'[d].waits
          PROVE  \/ work[d] \in {"waits", "aborted"}
                 \/ \E k \in 1..Len(back') : k > 0 /\ back'[k].call = d
                                             /\ back'[k].what \in {"goes", "ok", "error"}
        <3>1. CASE d = m.call /\ m.what = "waits"
            BY <3>1, <1>1, <2>2, <2>1
        <3>2. CASE call[d].waits /\ (d = m.call => m.what \notin {"goes", "ok", "error"})
            <4>1. call[d].at = "pending"
                BY <2>4
            <4>2. work[d] \in {"waits", "aborted"} \/ Returns(d, 0)
                BY <3>2, <4>1 DEF GateLeft
            <4>3. ASSUME Returns(d, 0) PROVE Returns(d, 1)
                BY <4>3, <3>2, <1>1 DEF Returns
            <4> QED BY <4>2, <4>3, <2>1, <1>1
        <3> QED BY <2>4, <3>1, <3>2
    <2> QED BY <2>3, <2>4 DEF GateLeft, Returns
<1> QED BY <1>2, <1>3, <1>4, <1>5

LEMMA ReceiveMoves ==
    ASSUME CallsInv, Worker!Receive
    PROVE  CallsInv'
<1> USE DEF CallsInv
<1> DEFINE m == Head(back)
           c == m.call
<1>1. /\ back # <<>> /\ back' = Tail(back) /\ live' = IF m.what \in {"ok", "error"} THEN Worker!Piped ELSE live
      /\ UNCHANGED <<process, destroying, destroyed, work>>
    BY DEF Worker!Receive
<1>2. m \in FromWorker /\ c \in Worker!Calls
    <2>1. m \in FromWorker
        BY <1>1, Tailed DEF CallsTyped
    <2> QED BY <2>1 DEF FromWorker
<1>3. live' \in BOOLEAN
    <2>1. Worker!Piped \in BOOLEAN
        BY DEF Worker!Piped
    <2> QED BY <1>1, <2>1 DEF CallsTyped
<1>4. process \notin {"none", "loading"}
    BY <1>1 DEF ProcessKnown
<1>5. CASE ~Worker!Pending(c)
    <2>1. UNCHANGED <<call, down>>
        BY <1>5 DEF Worker!Receive
    <2>2. \A d \in Worker!Calls : call'[d].at = "pending" => d # c
        BY <1>5, <2>1 DEF Worker!Pending
    <2>3. HeardInOrder'
        BY <1>1, <2>1 DEF HeardInOrder
    <2> HIDE DEF m
    <2> QED BY <1>1, <1>2, <1>3, <2>1, <2>2, <2>3, ReadMoves DEF CallsTyped, m
<1>6. CASE Worker!Pending(c) /\ m.what \in {"waits", "goes"}
    <2>1. PICK x \in BOOLEAN : x = (m.what = "waits")
        OBVIOUS
    <2>2. call' = [call EXCEPT ![c].waits = x] /\ down' = down
        BY <1>6, <2>1 DEF Worker!Receive
    <2>3. /\ call' \in [Worker!Calls -> CallKept]
          /\ \A d \in Worker!Calls : /\ call'[d].waits = IF d = c THEN x ELSE call[d].waits
                                     /\ call'[d].at = call[d].at
        <3>1. PICK b \in Worker!Calls : b = c
            BY <1>2
        <3>2. call' = [call EXCEPT ![b].waits = x]
            BY <2>2, <3>1
        <3> HIDE DEF m
        <3>3. /\ call' \in [Worker!Calls -> CallKept]
              /\ \A d \in Worker!Calls : /\ call'[d].waits = IF d = b THEN x ELSE call[d].waits
                                         /\ call'[d].at = call[d].at
            BY <3>2 DEF CallsTyped, CallKept
        <3> QED BY <3>1, <3>3
    <2>4. HeardInOrder'
        BY <1>6, <2>3, <1>1, <2>2 DEF Worker!Pending, HeardInOrder
    <2>5. \A d \in Worker!Calls : call'[d].at = "pending" /\ call'[d].waits =>
               \/ /\ call[d].waits
                  /\ d = c => m.what \notin {"goes", "ok", "error"}
               \/ d = c /\ m.what = "waits"
        BY <2>1, <2>3
    <2> HIDE DEF m
    <2>6. down' \in Seq(ToWorker)
        BY <2>2 DEF CallsTyped
    <2> QED BY <1>1, <1>2, <1>3, <1>4, <2>3, <2>4, <2>5, <2>6, ReadMoves DEF m
<1>7. CASE Worker!Pending(c) /\ m.what = "progress"
    <2>0. call[c].at = "pending"
        BY <1>7 DEF Worker!Pending
    <2>1. /\ call' \in [Worker!Calls -> CallKept]
          /\ \A d \in Worker!Calls : call'[d].at = call[d].at /\ call'[d].waits = call[d].waits
          /\ down' \in Seq(ToWorker) /\ HeardInOrder'
        <3>1. CASE Worker!Cancel(c)
            BY <1>1, <1>2, <2>0, <3>1, CancelSays
        <3>2. CASE Worker!Tell(c, "ack") /\ UNCHANGED call
            BY <3>2, <1>1, <1>2, <2>0, TellHeard DEF Worker!Tell, CallsTyped
        <3>3. CASE UNCHANGED <<call, down>>
            BY <1>1, <3>3 DEF CallsTyped, HeardInOrder
        <3> QED BY <1>7, <3>1, <3>2, <3>3 DEF Worker!Receive
    <2>2. \A d \in Worker!Calls : call'[d].at = "pending" /\ call'[d].waits =>
               \/ /\ call[d].waits
                  /\ d = c => m.what \notin {"goes", "ok", "error"}
               \/ d = c /\ m.what = "waits"
        BY <1>7, <2>1
    <2> HIDE DEF m
    <2> QED BY <1>1, <1>2, <1>3, <1>4, <2>1, <2>2, ReadMoves DEF m
<1>8. CASE Worker!Pending(c) /\ m.what \notin {"waits", "goes", "progress"}
    <2>0. m.what \in {"ok", "error"} /\ call[c].at = "pending"
        BY <1>2, <1>8 DEF FromWorker, Worker!Pending
    <2>1. PICK x \in {"ok", "failed"} : call' = [call EXCEPT ![c].at = x]
        BY <1>8 DEF Worker!Receive
    <2>2. down' = down
        BY <1>8 DEF Worker!Receive
    <2>3. /\ call' \in [Worker!Calls -> CallKept]
          /\ \A d \in Worker!Calls : /\ call'[d].at = IF d = c THEN x ELSE call[d].at
                                     /\ call'[d].waits = call[d].waits
        <3>1. PICK b \in Worker!Calls : b = c
            BY <1>2
        <3>2. call' = [call EXCEPT ![b].at = x]
            BY <2>1, <3>1
        <3> HIDE DEF m
        <3>3. /\ call' \in [Worker!Calls -> CallKept]
              /\ \A d \in Worker!Calls : /\ call'[d].at = IF d = b THEN x ELSE call[d].at
                                         /\ call'[d].waits = call[d].waits
            BY <3>2 DEF CallsTyped, CallKept
        <3> QED BY <3>1, <3>3
    <2>4. HeardInOrder'
        BY <1>1, <2>2, <2>3 DEF HeardInOrder
    <2>5. \A d \in Worker!Calls : call'[d].at = "pending" /\ call'[d].waits => call[d].waits /\ d # c
        BY <2>3
    <2> HIDE DEF m
    <2>6. down' \in Seq(ToWorker)
        BY <2>2 DEF CallsTyped
    <2> QED BY <1>1, <1>2, <1>3, <1>4, <2>0, <2>3, <2>4, <2>5, <2>6, ReadMoves DEF m
<1> QED BY <1>5, <1>6, <1>7, <1>8

(* The worker reads what it is told: it hears of a call before all else.   *)
LEMMA HandleMoves ==
    ASSUME CallsInv, Worker!Handle
    PROVE  CallsInv'
<1> USE DEF CallsInv
<1> DEFINE m == Head(down)
           c == m.call
<1>1. /\ down # <<>> /\ down' = Tail(down) /\ process \in {"up", "term"}
      /\ UNCHANGED <<process, live, destroying, destroyed, call>>
    BY DEF Worker!Handle, Worker!Able, Worker!Piped
<1>2. /\ down' \in Seq(ToWorker) /\ Len(down) \in Nat \ {0} /\ Len(down') = Len(down) - 1
      /\ m = down[1] /\ m \in ToWorker /\ 1 \in 1..Len(down)
      /\ \A i \in 1..Len(down') : i + 1 \in 1..Len(down) /\ down'[i] = down[i + 1]
      /\ \A i \in 1..Len(down) : i # 1 => i - 1 \in 1..Len(down') /\ down'[i - 1] = down[i]
    BY <1>1, Tailed DEF CallsTyped
<1>3. c \in Worker!Calls
    BY <1>2 DEF ToWorker
<1>4. \/ m.what = "call" /\ work[c] = "none"
      \/ m.what \in {"ack", "cancel"} /\ work[c] # "none"
    BY <1>2 DEF HeardInOrder, ToWorker
<1>5. PICK wk \in Works \ {"none"} :
         /\ work' = [work EXCEPT ![c] = wk]
         /\ work[c] = "ended" => wk = "ended"
         /\ work[c] \in {"waits", "aborted"} => wk \in {"waits", "aborted"}
         /\ \/ back' = back
            \/ /\ process = "term" /\ wk = "ended"
               /\ back' = Append(back, [call |-> c, what |-> "error"])
    <2>1. CASE m.what = "call" /\ process = "up" /\ Worker!Work(c, "runs") /\ UNCHANGED back
        BY <2>1, <1>4 DEF Worker!Work, Works
    <2>2. CASE m.what = "call" /\ process = "term" /\ Worker!Work(c, "ended") /\ Worker!Send(c, "error")
        BY <2>2, <1>4 DEF Worker!Work, Worker!Send, Worker!Piped, Works
    <2>3. CASE m.what = "ack" /\ UNCHANGED back
               /\ Worker!Work(c, IF work[c] = "progress" THEN "runs" ELSE work[c])
        BY <2>3, <1>3, <1>4 DEF CallsTyped, Worker!Work, Works
    <2>4. CASE m.what = "cancel" /\ UNCHANGED back
               /\ Worker!Work(c, IF work[c] = "ended" THEN "ended" ELSE "aborted")
        <3>1. CASE work[c] = "ended"
            BY <2>4, <3>1 DEF Worker!Work, Works
        <3>2. CASE work[c] # "ended"
            BY <2>4, <3>2 DEF Worker!Work, Works
        <3> QED BY <3>1, <3>2
    <2> QED BY <2>1, <2>2, <2>3, <2>4 DEF Worker!Handle
<1>6. \A d \in Worker!Calls : work'[d] = IF d = c THEN wk ELSE work[d]
    BY <1>5 DEF CallsTyped
<1>7. back' \in Seq(FromWorker)
    <2> HIDE DEF m
    <2>1. [call |-> c, what |-> "error"] \in FromWorker
        BY <1>3 DEF FromWorker
    <2>2. Append(back, [call |-> c, what |-> "error"]) \in Seq(FromWorker)
        BY <2>1, Appended DEF CallsTyped
    <2> QED BY <1>5, <2>2 DEF CallsTyped
<1>8. CallsTyped'
    BY <1>1, <1>2, <1>5, <1>7 DEF CallsTyped
<1>9. ProcessKnown'
    BY <1>1 DEF ProcessKnown
<1>10. HeardInOrder'
    <2>0. \A i \in 1..Len(down) : down[i] \in ToWorker /\ down[i].call \in Worker!Calls
        BY Messages
    <2>1. \A i \in 1..Len(down') : down'[i].what = "call" =>
             down'[i].call # c /\ work'[down'[i].call] = "none"
        <3> SUFFICES ASSUME NEW i \in 1..Len(down'), down'[i].what = "call"
                     PROVE  down'[i].call # c /\ work'[down'[i].call] = "none"
            OBVIOUS
        <3>1. i + 1 \in 1..Len(down) /\ down'[i] = down[i + 1] /\ 1 < i + 1
            BY <1>2
        <3>2. down'[i].call # c
            BY <3>1, <1>2 DEF HeardInOrder
        <3>3. work[down'[i].call] = "none"
            BY <3>1 DEF HeardInOrder
        <3> QED BY <2>0, <3>1, <3>2, <3>3, <1>6
    <2>2. \A i, j \in 1..Len(down') :
             i < j /\ down'[i].call = down'[j].call => down'[j].what # "call"
        <3> SUFFICES ASSUME NEW i \in 1..Len(down'), NEW j \in 1..Len(down'), i < j,
                            down'[i].call = down'[j].call
                     PROVE  down'[j].what # "call"
            OBVIOUS
        <3>1. /\ i + 1 \in 1..Len(down) /\ down'[i] = down[i + 1]
              /\ j + 1 \in 1..Len(down) /\ down'[j] = down[j + 1] /\ i + 1 < j + 1
            BY <1>2
        <3> QED BY <3>1 DEF HeardInOrder
    <2>3. \A i \in 1..Len(down') :
             down'[i].what # "call" /\ work'[down'[i].call] = "none" =>
                 \E j \in 1..Len(down') :
                     j < i /\ down'[j].call = down'[i].call /\ down'[j].what = "call"
        <3> SUFFICES ASSUME NEW i \in 1..Len(down'), down'[i].what # "call",
                            work'[down'[i].call] = "none"
                     PROVE  \E j \in 1..Len(down') :
                                j < i /\ down'[j].call = down'[i].call /\ down'[j].what = "call"
            OBVIOUS
        <3>1. i + 1 \in 1..Len(down) /\ down'[i] = down[i + 1]
            BY <1>2
        <3>2. down'[i].call # c /\ work[down'[i].call] = "none"
            BY <2>0, <3>1, <1>6
        <3>3. PICK j \in 1..Len(down) :
                 j < i + 1 /\ down[j].call = down'[i].call /\ down[j].what = "call"
            BY <3>1, <3>2 DEF HeardInOrder
        <3>4. j # 1 /\ j - 1 < i
            BY <3>2, <3>3, <1>2
        <3> QED BY <3>3, <3>4, <1>2
    <2>4. \A d \in Worker!Calls : call'[d].at = "pending" /\ work'[d] = "none" =>
             \E j \in 1..Len(down') : down'[j].call = d /\ down'[j].what = "call"
        <3> SUFFICES ASSUME NEW d \in Worker!Calls, call[d].at = "pending", work'[d] = "none"
                     PROVE  \E j \in 1..Len(down') : down'[j].call = d /\ down'[j].what = "call"
            BY <1>1
        <3>1. d # c /\ work[d] = "none"
            BY <1>6
        <3>2. PICK j \in 1..Len(down) : down[j].call = d /\ down[j].what = "call"
            BY <3>1 DEF HeardInOrder
        <3>3. j # 1
            BY <3>1, <3>2, <1>2
        <3> QED BY <3>2, <3>3, <1>2
    <2>5. \A d \in Worker!Calls : call'[d].at = "none" =>
             /\ ~call'[d].waits /\ work'[d] = "none"
             /\ \A i \in 1..Len(down') : down'[i].call # d
        BY <1>2, <1>1, <1>6 DEF HeardInOrder
    <2> QED BY <2>1, <2>2, <2>3, <2>4, <2>5 DEF HeardInOrder
<1>11. \A i \in 1..Len(back) : back[i] \in FromWorker /\ back[i].call \in Worker!Calls
    BY Messages
<1>12. AnsweredEnded'
    <2>1. \A i \in 1..Len(back) : back[i].what \in {"ok", "error"} => work'[back[i].call] = "ended"
        BY <1>5, <1>6, <1>11 DEF AnsweredEnded
    <2>2. \A i \in 1..Len(back') : back'[i].what \in {"ok", "error"} => work'[back'[i].call] = "ended"
        <3>1. CASE back' = back
            BY <3>1, <2>1
        <3>2. CASE wk = "ended" /\ back' = Append(back, [call |-> c, what |-> "error"])
            <4>1. [call |-> c, what |-> "error"] \in FromWorker
                <5> HIDE DEF m
                <5> QED BY <1>3 DEF FromWorker
            <4> DEFINE e == [call |-> c, what |-> "error"]
            <4>2. e.call = c
                OBVIOUS
            <4> HIDE DEF e
            <4>3. \A i \in 1..Len(back') : (i \in 1..Len(back) /\ back'[i] = back[i]) \/ back'[i] = e
                BY <3>2, <4>1, Appended DEF CallsTyped, e
            <4> QED BY <3>2, <4>2, <4>3, <2>1, <1>3, <1>6
        <3> QED BY <1>5, <3>1, <3>2
    <2>3. \A d \in Worker!Calls : call'[d].at \in {"ok", "failed"} /\ process' = "up" => work'[d] = "ended"
        BY <1>1, <1>5, <1>6 DEF AnsweredEnded
    <2> QED BY <2>2, <2>3 DEF AnsweredEnded
<1>13. GateLeft'
    BY <1>1, <1>5, <1>6, <1>11 DEF GateLeft, Returns
<1> QED BY <1>8, <1>9, <1>10, <1>12, <1>13

(* An operation moves and says so.  One that ends leaves the gate, and an  *)
(* answer is the last that is heard of it.                                 *)
LEMMA WorkMoves ==
    ASSUME CallsInv, NEW c \in Worker!Calls, process \in {"up", "term"},
           work[c] \in {"runs", "waits", "aborted"}, NEW wk \in Works \ {"none"},
           work' = [work EXCEPT ![c] = wk],
           NEW e \in FromWorker, e.call = c, back' = Append(back, e),
           e.what \in {"ok", "error"} => wk = "ended",
           \/ wk = "waits"
           \/ e.what \in {"goes", "ok", "error"}
           \/ work[c] = "runs" /\ e.what # "waits",
           UNCHANGED <<process, live, destroying, destroyed, call, down>>
    PROVE  CallsInv'
<1> USE DEF CallsInv
<1> DEFINE n == Len(back) + 1
<1>1. /\ back' \in Seq(FromWorker) /\ Len(back) \in Nat /\ 1..Len(back') = 1..Len(back) \cup {n}
      /\ back'[n] = e /\ n \notin 1..Len(back) /\ back' # <<>>
      /\ \A i \in 1..Len(back) : back'[i] = back[i] /\ back[i] \in FromWorker
    BY Appended DEF CallsTyped
<1>2. \A d \in Worker!Calls : work'[d] = IF d = c THEN wk ELSE work[d]
    BY DEF CallsTyped
<1>3. \A i \in 1..Len(back) : back[i].call \in Worker!Calls /\ i < n /\ 0 < n
    BY <1>1 DEF FromWorker
<1>4. 0 < n
    BY <1>1
<1> HIDE DEF n
<1>5. CallsTyped'
    BY <1>1 DEF CallsTyped
<1>6. ProcessKnown'
    BY DEF ProcessKnown
<1>7. HeardInOrder'
    BY <1>2, Messages DEF HeardInOrder
<1>8. AnsweredEnded'
    BY <1>1, <1>2, <1>3 DEF AnsweredEnded
<1>9. GateLeft'
    <2> SUFFICES ASSUME process = "up" PROVE GateLeft'
        BY DEF GateLeft
    <2> DEFINE Later(d, i) == \E k \in 1..Len(back') : k > i /\ back'[k].call = d
                                              /\ back'[k].what \in {"goes", "ok", "error"}
    <2>1. ASSUME NEW d \in Worker!Calls, NEW i, i = 0 \/ i \in 1..Len(back),
                 work[d] \in {"waits", "aborted"} \/ Returns(d, i)
          PROVE  work'[d] \in {"waits", "aborted"} \/ Later(d, i)
        BY <1>1, <1>2, <2>1, <1>3, <1>4 DEF Returns
    <2>2. \A i \in 1..Len(back') : back'[i].what = "waits" =>
               work'[back'[i].call] \in {"waits", "aborted"} \/ Later(back'[i].call, i)
        <3>1. ASSUME NEW i \in 1..Len(back), back[i].what = "waits"
              PROVE  work'[back[i].call] \in {"waits", "aborted"} \/ Later(back[i].call, i)
            <4>1. work[back[i].call] \in {"waits", "aborted"} \/ Returns(back[i].call, i)
                BY <3>1 DEF GateLeft
            <4> HIDE DEF Later
            <4> QED BY <4>1, <2>1, <1>3
        <3>2. e.what = "waits" => work'[c] \in {"waits", "aborted"}
            BY <1>2
        <3> HIDE DEF Later
        <3> QED BY <3>1, <3>2, <1>1
    <2>3. \A d \in Worker!Calls : call[d].at = "pending" /\ call[d].waits =>
               work'[d] \in {"waits", "aborted"} \/ Later(d, 0)
        <3> HIDE DEF Later
        <3> QED BY <2>1 DEF GateLeft
    <2> QED BY <2>2, <2>3 DEF GateLeft, Returns
<1> QED BY <1>5, <1>6, <1>7, <1>8, <1>9

LEMMA FinishMoves ==
    ASSUME CallsInv, NEW c \in Worker!Calls, Worker!Finish(c)
    PROVE  CallsInv'
<1> USE DEF CallsInv
<1>0. process \in {"up", "term"} /\ work' = [work EXCEPT ![c] = "ended"]
      /\ "ended" \in Works \ {"none"}
      /\ UNCHANGED <<process, live, destroying, destroyed, call, down>>
    BY DEF Worker!Finish, Worker!Able, Worker!Piped, Worker!Work, Works
<1>1. CASE work[c] = "runs" /\ (Worker!Send(c, "ok") \/ Worker!Send(c, "error"))
    <2>1. PICK a \in {"ok", "error"} : Worker!Send(c, a)
        BY <1>1
    <2> DEFINE e == [call |-> c, what |-> a]
    <2>2. back' = Append(back, e) /\ e \in FromWorker /\ e.call = c /\ e.what = a
        BY <1>0, <2>1 DEF Worker!Send, Worker!Piped, FromWorker
    <2> HIDE DEF e
    <2> QED BY <1>0, <1>1, <2>2, WorkMoves
<1>2. CASE /\ work[c] = "aborted"
           /\ back' = back \o <<[call |-> c, what |-> "goes"], [call |-> c, what |-> "error"]>>
    <2> DEFINE g == [call |-> c, what |-> "goes"]
               e == [call |-> c, what |-> "error"]
               n == Len(back)
    <2>1. g \in FromWorker /\ e \in FromWorker /\ g.call = c /\ e.call = c
          /\ g.what = "goes" /\ e.what = "error"
        BY DEF FromWorker
    <2> HIDE DEF g, e
    <2>2. <<g, e>> \in Seq(FromWorker) /\ Len(<<g, e>>) = 2 /\ <<g, e>>[1] = g /\ <<g, e>>[2] = e
        BY <2>1
    <2>3. /\ back' \in Seq(FromWorker) /\ n \in Nat /\ Len(back') = n + 2
          /\ \A i \in 1..(n + 2) : back'[i] = IF i <= n THEN back[i] ELSE <<g, e>>[i - n]
        BY <1>2, <2>2, ConcatProperties, LenProperties DEF g, e, CallsTyped
    <2>4. /\ 1..Len(back') = 1..n \cup {n + 1, n + 2} /\ back'[n + 1] = g /\ back'[n + 2] = e
          /\ \A i \in 1..n : back'[i] = back[i] /\ i < n + 1
          /\ 0 < n + 1 /\ n + 1 \in 1..Len(back')
        BY <2>2, <2>3
    <2> HIDE DEF n
    <2>5. \A d \in Worker!Calls : work'[d] = IF d = c THEN "ended" ELSE work[d]
        BY <1>0 DEF CallsTyped
    <2>6. CallsTyped'
        BY <1>0, <2>3 DEF CallsTyped
    <2>7. ProcessKnown'
        BY <1>0 DEF ProcessKnown
    <2>8. HeardInOrder'
        BY <1>2, <2>5, <1>0, Messages DEF HeardInOrder
    <2>9. AnsweredEnded'
        BY Messages, <2>1, <2>4, <2>5, <1>0 DEF AnsweredEnded, n
    <2>10. GateLeft'
        <3> SUFFICES ASSUME process = "up" PROVE GateLeft'
            BY <1>0 DEF GateLeft
        <3> DEFINE Later(d, i) == \E k \in 1..Len(back') : k > i /\ back'[k].call = d
                                                  /\ back'[k].what \in {"goes", "ok", "error"}
        <3>1. ASSUME NEW d \in Worker!Calls, NEW i, i = 0 \/ i \in 1..n,
                     work[d] \in {"waits", "aborted"} \/ Returns(d, i)
              PROVE  work'[d] \in {"waits", "aborted"} \/ Later(d, i)
            BY <2>4, <2>5, <3>1, <2>3, <2>1 DEF Returns, n
        <3>2. \A i \in 1..Len(back') : back'[i].what = "waits" =>
                   work'[back'[i].call] \in {"waits", "aborted"} \/ Later(back'[i].call, i)
            <4>1. ASSUME NEW i \in 1..n, back[i].what = "waits"
                  PROVE  work'[back[i].call] \in {"waits", "aborted"} \/ Later(back[i].call, i)
                <5>1. /\ work[back[i].call] \in {"waits", "aborted"} \/ Returns(back[i].call, i)
                      /\ back[i].call \in Worker!Calls
                    BY <4>1, Messages DEF GateLeft, n
                <5> HIDE DEF Later
                <5> QED BY <5>1, <3>1
            <4> HIDE DEF Later
            <4> QED BY <4>1, <2>1, <2>4
        <3>3. \A d \in Worker!Calls : call[d].at = "pending" /\ call[d].waits =>
                   work'[d] \in {"waits", "aborted"} \/ Later(d, 0)
            <4> HIDE DEF Later
            <4> QED BY <3>1 DEF GateLeft
        <3> QED BY <1>0, <3>2, <3>3 DEF GateLeft, Returns
    <2> QED BY <2>6, <2>7, <2>8, <2>9, <2>10
<1> QED BY <1>1, <1>2 DEF Worker!Finish

LEMMA SayMoves ==
    ASSUME CallsInv, NEW c \in Worker!Calls,
           Worker!Wait(c) \/ Worker!GoOn(c) \/ Worker!Progress(c)
    PROVE  CallsInv'
<1>0. process \in {"up", "term"} /\ UNCHANGED <<process, live, destroying, destroyed, call, down>>
    BY DEF Worker!Wait, Worker!GoOn, Worker!Progress, Worker!Able, Worker!Piped
<1>1. CASE Worker!Wait(c)
    <2> DEFINE e == [call |-> c, what |-> "waits"]
    <2>1. /\ work[c] = "runs" /\ work' = [work EXCEPT ![c] = "waits"] /\ back' = Append(back, e)
          /\ "waits" \in Works \ {"none"} /\ e \in FromWorker /\ e.call = c /\ e.what = "waits"
        BY <1>0, <1>1 DEF Worker!Wait, Worker!Work, Worker!Send, Worker!Piped, Works, FromWorker
    <2> HIDE DEF e
    <2> QED BY <1>0, <2>1, WorkMoves
<1>2. CASE Worker!GoOn(c)
    <2> DEFINE e == [call |-> c, what |-> "goes"]
    <2>1. /\ work[c] = "waits" /\ work' = [work EXCEPT ![c] = "runs"] /\ back' = Append(back, e)
          /\ "runs" \in Works \ {"none"} /\ e \in FromWorker /\ e.call = c /\ e.what = "goes"
        BY <1>0, <1>2 DEF Worker!GoOn, Worker!Work, Worker!Send, Worker!Piped, Works, FromWorker
    <2> HIDE DEF e
    <2> QED BY <1>0, <2>1, WorkMoves
<1>3. CASE Worker!Progress(c)
    <2> DEFINE e == [call |-> c, what |-> "progress"]
    <2>1. /\ work[c] = "runs" /\ work' = [work EXCEPT ![c] = "progress"] /\ back' = Append(back, e)
          /\ "progress" \in Works \ {"none"} /\ e \in FromWorker /\ e.call = c /\ e.what = "progress"
        BY <1>0, <1>3 DEF Worker!Progress, Worker!Work, Worker!Send, Worker!Piped, Works, FromWorker
    <2> HIDE DEF e
    <2> QED BY <1>0, <2>1, WorkMoves
<1> QED BY <1>1, <1>2, <1>3

LEMMA ClosesMoves ==
    ASSUME CallsInv, Worker!Closes
    PROVE  CallsInv'
    BY Messages DEF CallsInv, Worker!Closes, CallsTyped, ProcessKnown, Works, HeardInOrder,
        AnsweredEnded, GateLeft

LEMMA CallsStep ==
    ASSUME CallsInv, [Worker!Next]_(Worker!vars)
    PROVE  CallsInv'
<1>0. CallsTyped /\ ProcessKnown
    BY DEF CallsInv
<1>1. CASE UNCHANGED Worker!vars
    BY <1>1 DEF Worker!vars, CallsInv, CallsTyped, ProcessKnown, HeardInOrder, AnsweredEnded,
                GateLeft, Returns
<1>2. CASE Worker!Connect
    BY <1>0, <1>2, ProcessMoves DEF Worker!Connect, CallsTyped, ProcessKnown
<1>3. CASE Worker!Fork
    BY <1>0, <1>3, ProcessMoves, CallMoves DEF Worker!Fork, Worker!Wanted, CallsTyped, ProcessKnown,
        Worker!Tell, Worker!Calls
<1>4. CASE Worker!Destroy
    <2>1. /\ destroying' = TRUE /\ live' = FALSE /\ UNCHANGED <<call, work, down, back>>
          /\ process' = IF process = "up" THEN "term" ELSE process
        BY <1>4 DEF Worker!Destroy
    <2>2. destroyed' = (process \in {"none", "loading"})
        BY <1>4 DEF Worker!Destroy
    <2>5. destroyed' \in BOOLEAN /\ (destroyed' <=> process \in {"none", "loading"})
        <3>1. PICK q \in BOOLEAN : q <=> process \in {"none", "loading"}
            OBVIOUS
        <3>2. destroyed' = q
            BY <2>2, <3>1
        <3> QED BY <3>1, <3>2
    <2>3. CASE process = "gone"
        <3>1. process' = "gone" /\ ~destroyed'
            BY <2>1, <2>3, <2>5
        <3>2. CallsTyped'
            BY <1>0, <2>1, <2>3, <2>5, <3>1 DEF CallsTyped
        <3>3. ProcessKnown'
            BY <1>0, <2>1, <2>3, <3>1 DEF ProcessKnown
        <3> QED BY <2>1, <3>1, <3>2, <3>3 DEF CallsInv, HeardInOrder, AnsweredEnded, GateLeft
    <2>4. CASE process # "gone"
        BY <1>0, <2>1, <2>4, <2>5, ProcessMoves DEF CallsTyped
    <2> QED BY <2>3, <2>4
<1>5. CASE Worker!Kill
    BY <1>0, <1>5, ProcessMoves DEF Worker!Kill, CallsTyped, ProcessKnown
<1>6. CASE Worker!Watchdog
    BY <1>0, <1>6, ProcessMoves DEF Worker!Watchdog, CallsTyped, ProcessKnown
<1>7. CASE Worker!Freeze
    BY <1>0, <1>7, ProcessMoves DEF Worker!Freeze, Worker!Piped, CallsTyped, ProcessKnown
<1>8. CASE Worker!Garbled
    BY <1>0, <1>8, FailMoves DEF Worker!Garbled, Worker!Piped, CallsTyped
<1>9. ASSUME NEW c \in Worker!Calls, Worker!Call(c)
      PROVE  CallsInv'
    BY <1>9, <1>0, CallMoves DEF Worker!Call, Worker!Piped, Worker!Tell, ProcessKnown
<1>10. ASSUME NEW c \in Worker!Calls, Worker!CancelTimeout(c)
       PROVE  CallsInv'
    BY <1>10, FailMoves DEF Worker!CancelTimeout, Worker!Piped
<1> QED BY <1>1, <1>2, <1>3, <1>4, <1>5, <1>6, <1>7, <1>8, <1>9, <1>10, AbortMoves, ExitMoves,
           ReceiveMoves, HandleMoves, SayMoves, FinishMoves, ClosesMoves
        DEF Worker!Next

(* No call waits for a process that has gone, no operation goes on for a   *)
(* call that has ended unless the process is ending, no process outlives a *)
(* destroyed client, and a call whose time stands still will be told that  *)
(* it goes on: for any number of calls and any length of the pipe.         *)
THEOREM CallsTheorem == Worker!Spec => [](Worker!TypeOK /\ Worker!CallsKept)
<1>1. Worker!Init => CallsInv
    <2> SUFFICES ASSUME Worker!Init PROVE CallsInv
        OBVIOUS
    <2>1. Len(down) = 0 /\ Len(back) = 0 /\ down \in Seq(ToWorker) /\ back \in Seq(FromWorker)
        BY EmptySeq DEF Worker!Init
    <2>2. call = [c \in Worker!Calls |-> [at |-> "none", waits |-> FALSE, cancelled |-> FALSE]]
        BY DEF Worker!Init, Worker!NoCall
    <2>3. call \in [Worker!Calls -> CallKept]
          /\ \A c \in Worker!Calls : call[c].at = "none" /\ ~call[c].waits
        BY <2>2 DEF CallKept
    <2>4. CallsTyped
        BY <2>1, <2>3 DEF Worker!Init, CallsTyped, Works
    <2> QED BY <2>1, <2>3, <2>4 DEF Worker!Init, CallsInv, ProcessKnown, HeardInOrder,
                                    AnsweredEnded, GateLeft
<1>2. CallsInv => Worker!TypeOK /\ Worker!CallsKept
    BY DEF CallsInv, CallsTyped, CallKept, Works, Worker!TypeOK, ProcessKnown, Worker!NoneBehind,
        AnsweredEnded, Worker!NoStrays, Worker!Pending, GateLeft, Returns, Worker!TimeReturns,
        Worker!CallsKept
<1> QED BY <1>1, <1>2, CallsStep, PTL DEF Worker!Spec

-----------------------------------------------------------------------------
(* The logins of user accounts.                                            *)

LoginNames ==
    /\ "nobody" \notin Logins!Flows /\ "deleted" \notin Logins!Flows
    /\ MaxTroubles \in Nat

Statuses == {"none", "code", "password", "pending", "complete", "error"}
FlowRecord == [live : BOOLEAN, status : Statuses, errors : Nat,
               account : Logins!Accounts \cup {"nobody"}]
Places == {"none", "clearing", "connecting", "advance", "export", "failing", "signing",
           "identify", "authorize", "persist", "activate", "refused", "closing",
           "closingFailed"}
RequestRecord == [at : Places, flow : Logins!Flows \cup {"nobody"},
                  rest : SUBSET Logins!Flows, starts : BOOLEAN]
LoginTyped ==
    /\ flow \in [Logins!Flows -> FlowRecord]
    /\ client \in [Logins!Flows -> {"none", "open", "held", "closing", "stuck", "closed"}]
    /\ request \in [Requests -> RequestRecord]
    /\ session \in [Logins!Accounts -> Logins!Flows \cup {"nobody", "deleted"}]
    /\ wrote \subseteq Logins!Flows /\ troubles \in 0..MaxTroubles
    /\ \A f \in Logins!Flows : flow[f].errors <= troubles

(* What a request holds before it writes, and after.                       *)
RequestKnown(r) ==
    LET f == request[r].flow IN
    /\ request[r].at # "none" => f \in Logins!Flows
    /\ request[r].at \in {"authorize", "persist"} => flow[f].account \in Logins!Accounts
    /\ request[r].at = "persist" /\ f \in Pinned => flow[f].account = "own"
    /\ request[r].at \in {"activate", "closing"} => f \in wrote

(* A client that a flow holds is in the map, and one that none holds yet   *)
(* belongs to the request that connects it.                                *)
ClientKnown(f) ==
    /\ client[f] = "held" => flow[f].live
    /\ client[f] = "open" =>
           \E r \in Requests : request[r].at = "connecting" /\ request[r].flow = f

LoginInv ==
    /\ LoginTyped
    /\ \A r \in Requests : RequestKnown(r)
    /\ \A f \in Logins!Flows : ClientKnown(f)
    /\ Logins!OwnSessions /\ Logins!SuccessIsReal

(* The requests when one of them moves.                                    *)
LEMMA RequestGoes ==
    ASSUME LoginTyped, NEW r \in Requests, NEW x \in Places
    PROVE  Logins!At(r, x) =>
               /\ request' \in [Requests -> RequestRecord]
               /\ request'[r].at = x /\ request'[r].flow = request[r].flow
               /\ \A q \in Requests : q # r => request'[q] = request[q]
BY DEF LoginTyped, Logins!At, RequestRecord

LEMMA RequestEnds ==
    ASSUME LoginTyped, NEW r \in Requests, Logins!End(r)
    PROVE  /\ request' \in [Requests -> RequestRecord]
           /\ request'[r].at = "none"
           /\ \A q \in Requests : q # r => request'[q] = request[q]
    BY DEF Logins!Idle, Logins!Nobody, RequestRecord, Places, LoginTyped, Logins!End

(* A client is closed, or was.                                             *)
LEMMA ClientDetached ==
    ASSUME LoginTyped, NEW f \in Logins!Flows, Logins!Detached(f)
    PROVE  /\ client' \in [Logins!Flows -> {"none", "open", "held", "closing", "stuck", "closed"}]
           /\ client'[f] \notin {"open", "held"}
           /\ \A g \in Logins!Flows : client'[g] \in {"open", "held"} => client'[g] = client[g] /\ g # f
BY DEF LoginTyped, Logins!Detached

LEMMA FlowUnlisted ==
    ASSUME LoginTyped, NEW f \in Logins!Flows, Logins!Unlisted(f)
    PROVE  /\ flow' \in [Logins!Flows -> FlowRecord]
           /\ \A g \in Logins!Flows : g # f => flow'[g] = flow[g]
           /\ \A g \in Logins!Flows :
                 /\ flow'[g].account = flow[g].account /\ flow'[g].status = flow[g].status
                 /\ flow'[g].errors = flow[g].errors
BY DEF LoginTyped, Logins!Unlisted, FlowRecord

LEMMA FlowStatus ==
    ASSUME LoginTyped, NEW f \in Logins!Flows, NEW x \in Statuses
    PROVE  flow' = [flow EXCEPT ![f].status = x] =>
           /\ flow' \in [Logins!Flows -> FlowRecord]
           /\ flow'[f].status = x
           /\ \A g \in Logins!Flows : g # f => flow'[g] = flow[g]
           /\ \A g \in Logins!Flows :
                 /\ flow'[g].account = flow[g].account /\ (flow'[g].live <=> flow[g].live)
                 /\ flow'[g].errors = flow[g].errors
BY DEF LoginTyped, FlowRecord

(* What one request does leaves the others what they were.                 *)
LEMMA LoginMoves ==
    ASSUME LoginInv, NEW r \in Requests, LoginTyped', RequestKnown(r)',
           \A q \in Requests : q # r => request'[q] = request[q],
           wrote \subseteq wrote', session' = session \/ Logins!OwnSessions',
           \A f \in Logins!Flows : flow[f].account \in Logins!Accounts =>
                                       flow'[f].account = flow[f].account,
           \A f \in Logins!Flows : client'[f] = "held" => flow'[f].live,
           \A f \in Logins!Flows : client'[f] = "open" =>
               \/ client[f] = "open" /\ ~(request[r].at = "connecting" /\ request[r].flow = f)
               \/ request'[r].at = "connecting" /\ request'[r].flow = f,
           \A f \in Qrs : flow'[f].status = "complete" => flow[f].status = "complete" \/ f \in wrote'
    PROVE  LoginInv'
    BY DEF LoginInv, RequestKnown, ClientKnown, Logins!OwnSessions, Logins!SuccessIsReal,
        Logins!Flows

LEMMA StartMoves ==
    ASSUME LoginInv, NEW r \in Requests,
           Logins!StartLogin(r) \/ Logins!Advance(r) \/ Logins!Submit(r)
    PROVE  LoginInv'
<1>1. LoginTyped
    BY DEF LoginInv
<1>2. /\ request[r] = Logins!Idle
      /\ UNCHANGED <<flow, client, session, wrote, troubles>>
    BY DEF Logins!StartLogin, Logins!Advance, Logins!Submit, Logins!rows
<1>3. request[r].at # "connecting"
    BY <1>2 DEF Logins!Idle
<1>4. PICK q \in RequestRecord :
         /\ q.at \in {"clearing", "advance", "signing", "failing"} /\ q.flow \in Logins!Flows
         /\ request' = [request EXCEPT ![r] = q]
    <2>1. CASE Logins!StartLogin(r)
        <3>1. PICK f \in Logins!Flows : request' = [request EXCEPT ![r] =
                 [at |-> "clearing", flow |-> f, starts |-> TRUE,
                  rest |-> {g \in Logins!Flows : Logins!Live(g)}]]
            BY <2>1 DEF Logins!StartLogin
        <3> DEFINE q == [at |-> "clearing", flow |-> f, starts |-> TRUE,
                         rest |-> {g \in Logins!Flows : Logins!Live(g)}]
        <3>2. q \in RequestRecord /\ q.at = "clearing" /\ q.flow = f
            BY DEF RequestRecord, Places
        <3> QED BY <3>1, <3>2
    <2>2. CASE Logins!Advance(r)
        <3>1. PICK f \in Qrs : request' = [request EXCEPT ![r] = [Logins!Idle EXCEPT !.at = "advance", !.flow = f]]
            BY <2>2 DEF Logins!Advance
        <3> DEFINE q == [Logins!Idle EXCEPT !.at = "advance", !.flow = f]
        <3>2. q \in RequestRecord /\ q.at = "advance" /\ q.flow = f /\ f \in Logins!Flows
            BY DEF RequestRecord, Places, Logins!Idle, Logins!Flows
        <3> QED BY <3>1, <3>2
    <2>3. CASE Logins!Submit(r)
        <3>1. PICK f \in Logins!Flows, x \in {"signing", "failing"} :
                 request' = [request EXCEPT ![r] = [Logins!Idle EXCEPT !.at = x, !.flow = f]]
            BY <2>3 DEF Logins!Submit
        <3> DEFINE q == [Logins!Idle EXCEPT !.at = x, !.flow = f]
        <3>2. q \in RequestRecord /\ q.at = x /\ q.flow = f
            BY DEF RequestRecord, Places, Logins!Idle
        <3> QED BY <3>1, <3>2
    <2> QED BY <2>1, <2>2, <2>3
<1>6. /\ request' \in [Requests -> RequestRecord] /\ request'[r] = q
      /\ \A p \in Requests : p # r => request'[p] = request[p]
    BY <1>1, <1>4 DEF LoginTyped
<1>5. LoginTyped'
    BY <1>1, <1>2, <1>6 DEF LoginTyped
<1>7. RequestKnown(r)'
    BY <1>4, <1>6 DEF RequestKnown
<1>8. \A g \in Logins!Flows : client[g] = "held" => flow[g].live
    BY DEF LoginInv, ClientKnown
<1> QED BY <1>2, <1>3, <1>5, <1>6, <1>7, <1>8, LoginMoves

(* The request goes on to x, or ends, and no client is opened.             *)
LEMMA GoesMoves ==
    ASSUME LoginInv, NEW r \in Requests, NEW x \in Places \ {"connecting"},
           Logins!At(r, x) \/ (x = "none" /\ Logins!End(r)),
           request[r].at # "none",
           request[r].at = "connecting" => client'[request[r].flow] # "open",
           flow' \in [Logins!Flows -> FlowRecord],
           client' \in [Logins!Flows -> {"none", "open", "held", "closing", "stuck", "closed"}],
           session' \in [Logins!Accounts -> Logins!Flows \cup {"nobody", "deleted"}],
           session' = session \/ Logins!OwnSessions',
           wrote' \subseteq Logins!Flows, wrote \subseteq wrote', troubles' \in 0..MaxTroubles,
           \A f \in Logins!Flows : flow'[f].errors <= troubles',
           \A f \in Logins!Flows : flow[f].account \in Logins!Accounts =>
                                       flow'[f].account = flow[f].account,
           x \in {"authorize", "persist"} => flow'[request[r].flow].account \in Logins!Accounts,
           x = "persist" /\ request[r].flow \in Pinned => flow'[request[r].flow].account = "own",
           x \in {"activate", "closing"} => request[r].flow \in wrote',
           \A f \in Logins!Flows : client'[f] = "held" => flow'[f].live,
           \A f \in Logins!Flows : client'[f] = "open" => client[f] = "open",
           \A f \in Qrs : flow'[f].status = "complete" => flow[f].status = "complete" \/ f \in wrote'
    PROVE  LoginInv'
    BY RequestGoes, RequestEnds, LoginMoves DEF LoginInv, LoginTyped, RequestKnown

(* What holds of the flows and clients as they are.                        *)
LEMMA LoginsStay ==
    ASSUME LoginInv
    PROVE  /\ flow \in [Logins!Flows -> FlowRecord]
           /\ client \in [Logins!Flows -> {"none", "open", "held", "closing", "stuck", "closed"}]
           /\ session \in [Logins!Accounts -> Logins!Flows \cup {"nobody", "deleted"}]
           /\ wrote \subseteq Logins!Flows /\ troubles \in 0..MaxTroubles /\ troubles <= troubles
           /\ \A f \in Logins!Flows : flow[f].errors \in Nat /\ flow[f].errors <= troubles
           /\ \A f \in Logins!Flows : client[f] = "held" => flow[f].live
           /\ \A r \in Requests : request[r].at # "none" => request[r].flow \in Logins!Flows
    BY DEF LoginInv, LoginTyped, FlowRecord, ClientKnown, RequestKnown

LEMMA TroubleCounts ==
    ASSUME LoginNames, LoginInv, Logins!Trouble
    PROVE  /\ troubles' \in 0..MaxTroubles /\ troubles' = troubles + 1
           /\ \A f \in Logins!Flows : flow[f].errors + 1 <= troubles' /\ flow[f].errors <= troubles'
    BY LoginsStay DEF LoginNames, Logins!Trouble

LEMMA ClearMoves ==
    ASSUME LoginInv, NEW r \in Requests, Logins!Clear(r)
    PROVE  LoginInv'
<1>1. LoginTyped /\ RequestKnown(r) /\ request[r].at = "clearing" /\ request[r].flow \in Logins!Flows
      /\ UNCHANGED <<session, wrote, troubles>>
    BY LoginsStay DEF LoginInv, Logins!Clear, Logins!rows
<1>2. CASE \E g \in request[r].rest :
              Logins!Dropped(g) /\ request' = [request EXCEPT ![r].rest = @ \ {g}]
    <2>1. PICK g \in request[r].rest :
              Logins!Dropped(g) /\ request' = [request EXCEPT ![r].rest = @ \ {g}]
        BY <1>2
    <2>2. g \in Logins!Flows
        BY <1>1, <2>1 DEF LoginTyped, RequestRecord
    <2>3. /\ request' \in [Requests -> RequestRecord] /\ request'[r].at = "clearing"
          /\ request'[r].flow = request[r].flow
          /\ \A q \in Requests : q # r => request'[q] = request[q]
        BY <1>1, <2>1 DEF LoginTyped, RequestRecord
    <2>4. /\ client' \in [Logins!Flows -> {"none", "open", "held", "closing", "stuck", "closed"}]
          /\ \A f \in Logins!Flows : client'[f] \in {"open", "held"} => client'[f] = client[f] /\ f # g
        BY <1>1, <2>1, <2>2, ClientDetached DEF Logins!Dropped
    <2>5. /\ flow' \in [Logins!Flows -> FlowRecord]
          /\ \A f \in Logins!Flows : f # g => flow'[f] = flow[f]
          /\ \A f \in Logins!Flows :
                 /\ flow'[f].account = flow[f].account /\ flow'[f].status = flow[f].status
                 /\ flow'[f].errors = flow[f].errors
        BY <1>1, <2>1, <2>2, FlowUnlisted DEF Logins!Dropped
    <2>6. LoginTyped'
        BY <1>1, <2>3, <2>4, <2>5 DEF LoginTyped
    <2>7. RequestKnown(r)'
        BY <1>1, <2>3 DEF RequestKnown
    <2>8. \A f \in Logins!Flows : client'[f] = "held" => flow'[f].live
        BY <2>4, <2>5, LoginsStay
    <2> QED BY <1>1, <2>3, <2>4, <2>5, <2>6, <2>7, <2>8, LoginMoves, SMTT(30) DEF Logins!Flows
<1>3. CASE /\ client' = [client EXCEPT ![request[r].flow] = "open"]
           /\ Logins!At(r, "connecting") /\ UNCHANGED flow
    BY <1>1, <1>3, RequestGoes, LoginsStay, LoginMoves DEF Places, LoginTyped, RequestKnown
<1> QED BY <1>2, <1>3 DEF Logins!Clear, Logins!F

LEMMA ConnectMoves ==
    ASSUME LoginNames, LoginInv, NEW r \in Requests, Logins!Connect(r)
    PROVE  LoginInv'
<1> DEFINE f == request[r].flow
<1>1. /\ LoginTyped /\ request[r].at = "connecting" /\ f \in Logins!Flows
      /\ UNCHANGED <<session, wrote, troubles>>
    BY LoginsStay DEF LoginInv, Logins!Connect, Logins!rows
<1>2. PICK x \in {"pending", "code"} :
         flow' = [flow EXCEPT ![f].live = TRUE, ![f].status = x]
    BY DEF Logins!Connect, Logins!F
<1>3. client' = [client EXCEPT ![f] = "held"]
    BY DEF Logins!Connect, Logins!F
<1>4. PICK y \in {"advance", "none"} : Logins!At(r, y) \/ (y = "none" /\ Logins!End(r))
    BY DEF Logins!Connect
<1> HIDE DEF f
<1>5. /\ flow' \in [Logins!Flows -> FlowRecord]
      /\ flow'[f].live /\ flow'[f].status = x
      /\ \A g \in Logins!Flows : g # f => flow'[g] = flow[g]
      /\ \A g \in Logins!Flows :
            flow'[g].account = flow[g].account /\ flow'[g].errors = flow[g].errors
    <2> DEFINE h == [flow[f] EXCEPT !.live = TRUE, !.status = x]
    <2>1. flow \in [Logins!Flows -> FlowRecord] /\ flow[f] \in FlowRecord /\ x \in Statuses
        BY <1>1, <1>2 DEF LoginTyped, Statuses
    <2>2. /\ h \in FlowRecord /\ h.live /\ h.status = x
          /\ h.account = flow[f].account /\ h.errors = flow[f].errors
        BY <2>1 DEF FlowRecord
    <2>3. flow' = [flow EXCEPT ![f] = h]
        BY <1>1, <1>2, <2>1
    <2> HIDE DEF h
    <2> QED BY <1>1, <2>1, <2>2, <2>3
<1>6. /\ client' \in [Logins!Flows -> {"none", "open", "held", "closing", "stuck", "closed"}]
      /\ client'[f] = "held" /\ \A g \in Logins!Flows : g # f => client'[g] = client[g]
    BY <1>1, <1>3 DEF LoginTyped
<1>7. \A g \in Logins!Flows : /\ client'[g] = "held" => flow'[g].live
                              /\ client'[g] = "open" => client[g] = "open"
                              /\ flow'[g].status = "complete" => flow[g].status = "complete"
                              /\ flow'[g].errors <= troubles'
    BY <1>1, <1>5, <1>6, LoginsStay
<1>8. y \in Places \ {"connecting"} /\ y \notin {"authorize", "persist", "activate", "closing"}
    BY DEF Places
<1> QED BY <1>1, <1>4, <1>5, <1>6, <1>7, <1>8, LoginsStay, GoesMoves DEF f, Logins!Flows

(* The client of the request is closed, or was, and the flow perhaps gone. *)
LEMMA DetachMoves ==
    ASSUME LoginNames, LoginInv, NEW r \in Requests, NEW x \in Places \ {"connecting", "authorize", "persist"},
           request[r].at # "none", Logins!At(r, x) \/ (x = "none" /\ Logins!End(r)),
           Logins!Detached(request[r].flow),
           flow' \in [Logins!Flows -> FlowRecord],
           \A g \in Logins!Flows :
               /\ flow'[g].account = flow[g].account
               /\ flow'[g].status = "complete" => flow[g].status = "complete"
               /\ g # request[r].flow => flow'[g].live = flow[g].live
               /\ flow'[g].errors <= troubles',
           x \in {"activate", "closing"} => request[r].flow \in wrote,
           UNCHANGED <<session, wrote>>, troubles' \in 0..MaxTroubles
    PROVE  LoginInv'
<1>1. LoginTyped /\ request[r].flow \in Logins!Flows
    BY LoginsStay DEF LoginInv
<1>2. /\ client' \in [Logins!Flows -> {"none", "open", "held", "closing", "stuck", "closed"}]
      /\ client'[request[r].flow] \notin {"open", "held"}
      /\ \A g \in Logins!Flows : client'[g] \in {"open", "held"} =>
             client'[g] = client[g] /\ g # request[r].flow
    BY <1>1, ClientDetached
<1>3. \A g \in Logins!Flows : /\ client'[g] = "held" => flow'[g].live
                              /\ client'[g] = "open" => client[g] = "open"
    BY <1>2, LoginsStay
<1> QED BY <1>1, <1>2, <1>3, LoginsStay, GoesMoves, SMTT(30) DEF Logins!Flows

LEMMA ConnectFailsMoves ==
    ASSUME LoginNames, LoginInv, NEW r \in Requests, Logins!ConnectFails(r)
    PROVE  LoginInv'
    BY LoginsStay, TroubleCounts, DetachMoves DEF Logins!ConnectFails, Logins!rows, Logins!F, Places

LEMMA AtOnlyMoves ==
    ASSUME LoginNames, LoginInv, NEW r \in Requests, NEW x \in Places \ {"connecting"},
           request[r].at \notin {"none", "connecting"},
           Logins!At(r, x) \/ (x = "none" /\ Logins!End(r)),
           x \in {"authorize", "persist"} => flow[request[r].flow].account \in Logins!Accounts,
           x = "persist" /\ request[r].flow \in Pinned => flow[request[r].flow].account = "own",
           x \in {"activate", "closing"} => request[r].flow \in wrote,
           UNCHANGED <<flow, client, session, wrote>>,
           troubles' = troubles \/ Logins!Trouble
    PROVE  LoginInv'
<1>1. /\ troubles' \in 0..MaxTroubles
      /\ \A f \in Logins!Flows : flow[f].errors <= troubles'
    BY LoginsStay, TroubleCounts
<1> QED BY <1>1, LoginsStay, GoesMoves, SMTT(30) DEF Logins!Flows

LEMMA ExportMoves ==
    ASSUME LoginNames, LoginInv, NEW r \in Requests, Logins!Export(r) \/ Logins!ExportFails(r)
    PROVE  LoginInv'
    BY AtOnlyMoves DEF Logins!Export, Logins!ExportFails, Logins!rows, Places

(* The flow of the request shows another status than success, or success   *)
(* after its session was written.                                          *)
LEMMA StatusMoves ==
    ASSUME LoginNames, LoginInv, NEW r \in Requests, request[r].at \notin {"none", "connecting"},
           Logins!End(r), NEW s \in Statuses,
           s = "complete" => request[r].flow \in wrote,
           flow' = [flow EXCEPT ![request[r].flow].status = s],
           UNCHANGED <<client, session, wrote, troubles>>
    PROVE  LoginInv'
<1>1. LoginTyped /\ request[r].flow \in Logins!Flows /\ "none" \in Places \ {"connecting"}
    BY LoginsStay DEF LoginInv, Places
<1>2. /\ flow' \in [Logins!Flows -> FlowRecord]
      /\ flow'[request[r].flow].status = s
      /\ \A g \in Logins!Flows : g # request[r].flow => flow'[g] = flow[g]
      /\ \A g \in Logins!Flows :
            /\ flow'[g].account = flow[g].account /\ (flow'[g].live <=> flow[g].live)
            /\ flow'[g].errors = flow[g].errors
    BY <1>1, FlowStatus
<1>3. \A g \in Logins!Flows :
         /\ flow'[g].status = "complete" => flow[g].status = "complete" \/ g \in wrote
         /\ client[g] = "held" => flow'[g].live
         /\ flow'[g].errors <= troubles
    BY <1>2, LoginsStay
<1> QED BY <1>1, <1>2, <1>3, LoginsStay, GoesMoves, SMTT(30) DEF Logins!Flows

LEMMA ExportedMoves ==
    ASSUME LoginNames, LoginInv, NEW r \in Requests, Logins!Exported(r) \/ Logins!Signed(r)
    PROVE  LoginInv'
    BY AtOnlyMoves, StatusMoves DEF Logins!Exported, Logins!Signed, Logins!rows, Places, Statuses,
        Logins!F

LEMMA FailQrMoves ==
    ASSUME LoginNames, LoginInv, NEW r \in Requests, Logins!FailQr(r)
    PROVE  LoginInv'
<1> DEFINE f == request[r].flow
<1>1. /\ request[r].at = "failing" /\ Logins!End(r) /\ UNCHANGED <<session, wrote, troubles>>
      /\ LoginTyped /\ f \in Logins!Flows /\ "none" \in Places \ {"connecting", "authorize", "persist"}
    BY LoginsStay DEF LoginInv, Logins!FailQr, Logins!rows, Places
<1>2. CASE Logins!Dropped(f)
    BY <1>1, <1>2, FlowUnlisted, LoginsStay, DetachMoves DEF Logins!Dropped
<1>3. CASE UNCHANGED <<flow, client>>
    BY <1>1, <1>3, AtOnlyMoves
<1>4. CASE flow' = [flow EXCEPT ![f].status = "error"] /\ Logins!Detached(f)
    <2>1. /\ flow' \in [Logins!Flows -> FlowRecord]
          /\ flow'[f].status = "error"
          /\ \A g \in Logins!Flows : g # f => flow'[g] = flow[g]
          /\ \A g \in Logins!Flows :
                /\ flow'[g].account = flow[g].account /\ (flow'[g].live <=> flow[g].live)
                /\ flow'[g].errors = flow[g].errors
        BY <1>1, <1>4, FlowStatus DEF Statuses
    <2> QED BY <1>1, <1>4, <2>1, LoginsStay, DetachMoves
<1> QED BY <1>2, <1>3, <1>4 DEF Logins!FailQr, Logins!F

(* A wrong code or password is counted, and perhaps was the last.          *)
Missed(q, n, b) == [q EXCEPT !.errors = n, !.live = b]

LEMMA FlowMissed ==
    ASSUME NEW q \in FlowRecord, NEW n \in Nat, NEW b \in BOOLEAN
    PROVE  /\ Missed(q, n, b) \in FlowRecord
           /\ Missed(q, n, b).errors = n /\ (Missed(q, n, b).live <=> b)
           /\ Missed(q, n, b).account = q.account /\ Missed(q, n, b).status = q.status
BY DEF FlowRecord, Missed

LEMMA MissMoves ==
    ASSUME LoginNames, LoginInv, NEW r \in Requests, request[r].at \notin {"none", "connecting"},
           Logins!End(r), flow' \in [Logins!Flows -> FlowRecord],
           \A g \in Logins!Flows :
               /\ flow'[g].account = flow[g].account /\ flow'[g].status = flow[g].status
               /\ client[g] = "held" => flow'[g].live
               /\ flow'[g].errors <= troubles',
           UNCHANGED <<client, session, wrote>>, troubles' \in 0..MaxTroubles
    PROVE  LoginInv'
<1>1. LoginTyped /\ request[r].flow \in Logins!Flows /\ "none" \in Places \ {"connecting"}
    BY LoginsStay DEF LoginInv, Places
<1>2. \A g \in Qrs : flow'[g].status = "complete" => flow[g].status = "complete" \/ g \in wrote
    BY DEF Logins!Flows
<1> QED BY <1>1, <1>2, LoginsStay, GoesMoves, SMTT(30)

LEMMA WrongMoves ==
    ASSUME LoginNames, LoginInv, NEW r \in Requests, Logins!Wrong(r)
    PROVE  LoginInv'
<1> DEFINE f == request[r].flow
           over == flow[f].errors + 1 >= MaxErrors
<1>1. /\ request[r].at = "signing" /\ Logins!End(r) /\ Logins!Trouble /\ UNCHANGED <<session, wrote>>
      /\ flow' = [flow EXCEPT ![f].errors = @ + 1, ![f].live = IF over THEN FALSE ELSE @]
      /\ IF over THEN Logins!Detached(f) ELSE UNCHANGED client
    BY DEF Logins!Wrong, Logins!rows, Logins!F
<1>2. /\ LoginTyped /\ f \in Logins!Flows /\ "none" \in Places \ {"connecting", "authorize", "persist"}
      /\ flow \in [Logins!Flows -> FlowRecord] /\ flow[f] \in FlowRecord
    BY <1>1, LoginsStay DEF LoginInv, Places
<1>3. PICK n \in Nat : n = flow[f].errors + 1
    BY <1>2, LoginsStay
<1>4. PICK b \in BOOLEAN : (b <=> flow[f].live /\ ~over) /\ b = IF over THEN FALSE ELSE flow[f].live
    BY <1>2 DEF LoginTyped, FlowRecord
<1>5. flow' = [flow EXCEPT ![f] = Missed(flow[f], n, b)]
    BY <1>1, <1>2, <1>3, <1>4 DEF Missed
<1>6. /\ flow' \in [Logins!Flows -> FlowRecord]
      /\ flow'[f].errors = n /\ (flow'[f].live <=> b)
      /\ \A g \in Logins!Flows : g # f => flow'[g] = flow[g]
      /\ \A g \in Logins!Flows : flow'[g].account = flow[g].account /\ flow'[g].status = flow[g].status
    <2> HIDE DEF f
    <2>1. /\ Missed(flow[f], n, b) \in FlowRecord
          /\ Missed(flow[f], n, b).errors = n /\ (Missed(flow[f], n, b).live <=> b)
          /\ Missed(flow[f], n, b).account = flow[f].account
          /\ Missed(flow[f], n, b).status = flow[f].status
        BY <1>2, FlowMissed
    <2> QED BY <1>2, <1>5, <2>1
<1> HIDE DEF f, over
<1>7. \A g \in Logins!Flows : flow'[g].errors <= troubles'
    BY <1>1, <1>2, <1>3, <1>6, TroubleCounts
<1>8. CASE over
    <2>1. \A g \in Logins!Flows :
             /\ flow'[g].account = flow[g].account
             /\ flow'[g].status = "complete" => flow[g].status = "complete"
             /\ g # f => flow'[g].live = flow[g].live
             /\ flow'[g].errors <= troubles'
        BY <1>6, <1>7
    <2>2. /\ troubles' \in 0..MaxTroubles /\ UNCHANGED <<session, wrote>>
          /\ request[r].at # "none" /\ Logins!End(r)
        BY <1>1, TroubleCounts
    <2>3. /\ Logins!Detached(request[r].flow)
          /\ \A g \in Logins!Flows : g # request[r].flow => flow'[g].live = flow[g].live
        BY <1>1, <1>8, <2>1 DEF f
    <2> QED BY <1>2, <1>6, <2>1, <2>2, <2>3, DetachMoves, SMTT(30)
<1>9. CASE ~over
    BY <1>4, <1>6, <1>9, LoginsStay, <1>1, TroubleCounts, <1>7, MissMoves
<1> QED BY <1>8, <1>9

LEMMA IdentifyMoves ==
    ASSUME LoginNames, LoginInv, NEW r \in Requests, Logins!Identify(r)
    PROVE  LoginInv'
<1> DEFINE f == request[r].flow
<1>1. /\ request[r].at = "identify" /\ UNCHANGED <<client, session, wrote, troubles>>
      /\ LoginTyped /\ f \in Logins!Flows
    BY LoginsStay DEF LoginInv, Logins!Identify, Logins!rows
<1>2. CASE Logins!At(r, "refused") /\ UNCHANGED flow
    BY <1>1, <1>2, AtOnlyMoves DEF Places
<1>3. ASSUME NEW who \in Logins!Accounts, flow[f].account \in {"nobody", who},
             flow' = [flow EXCEPT ![f].account = who], Logins!At(r, "authorize")
      PROVE  LoginInv'
    <2> HIDE DEF f
    <2>1. /\ flow' \in [Logins!Flows -> FlowRecord] /\ flow'[f].account = who
          /\ \A g \in Logins!Flows : g # f => flow'[g] = flow[g]
          /\ \A g \in Logins!Flows :
                 /\ flow'[g].status = flow[g].status /\ (flow'[g].live <=> flow[g].live)
                 /\ flow'[g].errors = flow[g].errors
        BY <1>1, <1>3 DEF LoginTyped, FlowRecord
    <2>2. \A g \in Logins!Flows : flow[g].account \in Logins!Accounts => flow'[g].account = flow[g].account
        BY <1>3, <2>1 DEF Logins!Accounts
    <2>3. "authorize" \in Places \ {"connecting"}
        BY DEF Places
    <2> QED BY <1>1, <1>3, <2>1, <2>2, <2>3, LoginsStay, GoesMoves DEF f, Logins!Flows
<1> QED BY <1>2, <1>3 DEF Logins!Identify, Logins!F, Logins!Nobody

LEMMA AuthorizeMoves ==
    ASSUME LoginNames, LoginInv, NEW r \in Requests, Logins!Authorize(r)
    PROVE  LoginInv'
    BY AtOnlyMoves DEF LoginInv, Logins!Authorize, Logins!rows, Places, RequestKnown,
        Logins!Permitted, Logins!F

(* The row that is written is that of the account the session belongs to.  *)
LEMMA PersistMoves ==
    ASSUME LoginNames, LoginInv, NEW r \in Requests, Logins!Persist(r)
    PROVE  LoginInv'
<1> DEFINE f == request[r].flow
           who == IF f \in Pinned THEN "own" ELSE flow[f].account
<1>1. /\ request[r].at = "persist" /\ UNCHANGED <<flow, client, troubles>>
      /\ LoginTyped /\ RequestKnown(r) /\ f \in Logins!Flows /\ Logins!OwnSessions
    BY LoginsStay DEF LoginInv, Logins!Persist
<1>2. CASE Logins!At(r, "refused") /\ UNCHANGED <<session, wrote>>
    BY <1>1, <1>2, AtOnlyMoves DEF Places
<1>3. CASE /\ session' = [session EXCEPT ![who] = f] /\ wrote' = wrote \cup {f}
           /\ Logins!At(r, "activate")
    <2>1. who = flow[f].account /\ who \in Logins!Accounts
        BY <1>1 DEF RequestKnown
    <2> HIDE DEF who, f
    <2>2. /\ session' \in [Logins!Accounts -> Logins!Flows \cup {"nobody", "deleted"}]
          /\ session'[who] = f /\ \A a \in Logins!Accounts : a # who => session'[a] = session[a]
        BY <1>1, <1>3, <2>1 DEF LoginTyped
    <2>3. Logins!OwnSessions'
        BY <1>1, <2>1, <2>2 DEF Logins!OwnSessions
    <2>4. "activate" \in Places \ {"connecting"}
        BY DEF Places
    <2> QED BY <1>1, <1>3, <2>2, <2>3, <2>4, LoginsStay, GoesMoves DEF f, Logins!Flows
<1> QED BY <1>2, <1>3 DEF Logins!Persist, Logins!F, Logins!rows

LEMMA ActivateMoves ==
    ASSUME LoginNames, LoginInv, NEW r \in Requests, Logins!Activate(r) \/ Logins!Refused(r)
    PROVE  LoginInv'
<1> DEFINE f == request[r].flow
<1>1. /\ request[r].at \in {"activate", "refused"} /\ UNCHANGED <<session, wrote>>
      /\ Logins!Detached(f) /\ LoginTyped /\ RequestKnown(r) /\ f \in Logins!Flows
    BY LoginsStay DEF LoginInv, Logins!Activate, Logins!Refused, Logins!rows, Logins!F
<1>2. CASE /\ request[r].at = "activate"
           /\ flow' = IF f \in Phones THEN [flow EXCEPT ![f].live = FALSE] ELSE flow
           /\ Logins!At(r, "closing") /\ UNCHANGED troubles
    <2>1. /\ flow' \in [Logins!Flows -> FlowRecord]
          /\ \A g \in Logins!Flows : g # f => flow'[g] = flow[g]
          /\ \A g \in Logins!Flows :
                 /\ flow'[g].account = flow[g].account /\ flow'[g].status = flow[g].status
                 /\ flow'[g].errors = flow[g].errors
        BY <1>1, <1>2, FlowUnlisted DEF Logins!Unlisted, LoginTyped
    <2>2. f \in wrote /\ "closing" \in Places \ {"connecting", "authorize", "persist"}
        BY <1>1, <1>2 DEF RequestKnown, Places
    <2>3. \A g \in Logins!Flows :
             /\ flow'[g].account = flow[g].account
             /\ flow'[g].status = "complete" => flow[g].status = "complete"
             /\ g # f => flow'[g].live = flow[g].live
             /\ flow'[g].errors <= troubles'
        <3>1. troubles' = troubles
            BY <1>2
        <3>2. \A g \in Logins!Flows : flow[g].errors <= troubles
            BY LoginsStay
        <3> HIDE DEF f
        <3> QED BY <2>1, <3>1, <3>2
    <2>4. troubles' \in 0..MaxTroubles
        BY <1>2, LoginsStay
    <2> QED BY <1>1, <1>2, <2>1, <2>2, <2>3, <2>4, DetachMoves
<1>3. CASE Logins!Trouble /\ Logins!At(r, "closingFailed") /\ UNCHANGED flow
    BY <1>1, <1>3, LoginsStay, TroubleCounts, DetachMoves DEF Places
<1>4. CASE UNCHANGED <<flow, troubles>> /\ Logins!At(r, "closingFailed")
    BY <1>1, <1>4, LoginsStay, DetachMoves DEF Places
<1> QED BY <1>2, <1>3, <1>4 DEF Logins!Activate, Logins!Refused, Logins!F

LEMMA SettleMoves ==
    ASSUME LoginNames, LoginInv, NEW r \in Requests, Logins!Settle(r)
    PROVE  LoginInv'
    BY AtOnlyMoves, StatusMoves DEF LoginInv, Logins!Settle, Logins!rows, Places, RequestKnown,
        Statuses, Logins!F

(* The end of a client, of a flow and of the account.                      *)
LEMMA FlowMoves ==
    ASSUME LoginNames, LoginInv, NEW f \in Logins!Flows, Logins!Destroyed(f) \/ Logins!Expire(f)
    PROVE  LoginInv'
    BY ClientDetached, FlowUnlisted, LoginsStay, TroubleCounts DEF LoginInv, Logins!Destroyed,
        Logins!Expire, Logins!rows, LoginTyped, Logins!Dropped, RequestKnown, ClientKnown,
        Logins!OwnSessions, Logins!SuccessIsReal, Logins!Flows

LEMMA DeleteMoves ==
    ASSUME LoginNames, LoginInv, Logins!DeleteAccount
    PROVE  LoginInv'
    BY TroubleCounts DEF LoginInv, Logins!DeleteAccount, LoginTyped, LoginNames, RequestKnown,
        ClientKnown, Logins!OwnSessions, Logins!SuccessIsReal

(* No client is lost, no session is written into the row of another        *)
(* account than its own, and success is shown only after it was written:   *)
(* for any flows and requests, however these overlap with ends, renewals   *)
(* and the deletion of the account.                                        *)
THEOREM LoginsTheorem ==
    ASSUME LoginNames
    PROVE  Logins!Spec => [](Logins!TypeOK /\ Logins!LoginKept)
<1>1. Logins!Init => LoginInv
    <2> SUFFICES ASSUME Logins!Init PROVE LoginInv
        OBVIOUS
    <2>1. /\ flow \in [Logins!Flows -> FlowRecord]
          /\ \A f \in Logins!Flows : flow[f].errors = 0 /\ flow[f].status = "none"
        BY DEF Logins!Init, Logins!Nobody, FlowRecord, Statuses
    <2>2. request \in [Requests -> RequestRecord] /\ \A r \in Requests : request[r].at = "none"
        BY DEF Logins!Idle, Logins!Nobody, RequestRecord, Places, Logins!Init
    <2>3. session \in [Logins!Accounts -> Logins!Flows \cup {"nobody", "deleted"}]
          /\ \A a \in Logins!Accounts : session[a] \notin Logins!Flows
        BY DEF Logins!Init, Logins!Nobody, LoginNames
    <2>4. LoginTyped
        <3>1. troubles \in 0..MaxTroubles /\ \A f \in Logins!Flows : flow[f].errors <= troubles
            BY <2>1 DEF Logins!Init, LoginNames
        <3>2. /\ client \in [Logins!Flows -> {"none", "open", "held", "closing", "stuck", "closed"}]
              /\ wrote \subseteq Logins!Flows
            BY DEF Logins!Init
        <3> QED BY <2>1, <2>2, <2>3, <3>1, <3>2 DEF LoginTyped
    <2> QED BY <2>1, <2>2, <2>3, <2>4 DEF Logins!Init, LoginInv, RequestKnown, ClientKnown,
                Logins!OwnSessions, Logins!SuccessIsReal, Logins!Flows
<1>2. LoginInv /\ [Logins!Next]_(Logins!vars) => LoginInv'
    <2> SUFFICES ASSUME LoginInv, [Logins!Next]_(Logins!vars) PROVE LoginInv'
        OBVIOUS
    <2>1. CASE UNCHANGED Logins!vars
        BY <2>1 DEF Logins!vars, LoginInv, LoginTyped, RequestKnown, ClientKnown,
                    Logins!OwnSessions, Logins!SuccessIsReal
    <2>2. ASSUME NEW r \in Requests, Logins!Request(r) PROVE LoginInv'
        BY <2>2, StartMoves, ClearMoves, ConnectMoves, ConnectFailsMoves, ExportMoves,
           ExportedMoves, FailQrMoves, WrongMoves, IdentifyMoves, AuthorizeMoves,
           PersistMoves, ActivateMoves, SettleMoves DEF Logins!Request
    <2> QED BY <2>1, <2>2, FlowMoves, DeleteMoves DEF Logins!Next
<1>3. LoginInv => Logins!TypeOK /\ Logins!LoginKept
    BY LoginsStay DEF LoginNames, LoginInv, LoginTyped, FlowRecord, Statuses, Logins!TypeOK,
        Logins!Nobody, ClientKnown, Logins!ClientsOwned, Logins!Live, Logins!F, Logins!LoginKept
<1> QED BY <1>1, <1>2, <1>3, PTL DEF Logins!Spec

-----------------------------------------------------------------------------
(* The client of an account in the pool.                                   *)

PoolBounds ==
    /\ IsFiniteSet(Pool!Calls) /\ MaxConnections \in Nat \ {0}
    /\ MaxClients \in Nat /\ MaxNow \in Nat /\ MaxTroubles \in Nat

Ends == 0..(MaxNow + 1)
Healths == {"healthy", "degraded", "expired"}
Scopes == {"download", "scan"}
RowRecord == [state : {"on", "off", "gone"}, health : Healths, until : Ends]
EntryRecord ==
    [at : {"connecting", "listed"}, client : 1..MaxClients, up : BOOLEAN, closing : BOOLEAN,
     health : Healths, until : Ends, limit : 1..MaxConnections, active : [Scopes -> Nat],
     flood : BOOLEAN]
WriteRecord == [until : Ends, version : Nat, persisted : Nat, sent : Nat]
LifeOps == {"none", "initialize", "login", "enable", "expire", "delete", "flood", "expired", "other"}
LifeSteps ==
    {"none", "close", "update", "connect", "drain", "read", "deleteRow", "connecting",
     "record", "recorded", "list", "discard", "note", "noted"}
LifeRecord == [op : LifeOps, step : LifeSteps, snap : RowRecord \cup {[state |-> "gone"]}]
CallPlaces ==
    {"none", "waiting", "choosing", "working", "failing", "cooling", "cooled", "resting",
     "denied", "expired", "done"}
CallRecord == [at : CallPlaces, client : 0..MaxClients, slot : BOOLEAN, saw : BOOLEAN]

Made == entry.at # "none"

RowTyped ==
    /\ row \in RowRecord /\ refused \in BOOLEAN /\ refusing \in Nat
    /\ row.state = "gone" => row.until = 0
EntryTyped ==
    /\ Made => entry \in EntryRecord
    /\ ~Made => entry = Pool!NoEntry
WriteTyped ==
    /\ cooldown \in WriteRecord
    /\ cooldown.persisted <= cooldown.version /\ cooldown.sent <= cooldown.version
CallTyped == call \in [Pool!Calls -> CallRecord]
RestTyped ==
    /\ live \subseteq 1..MaxClients /\ quarantine \in 0..MaxClients /\ notBefore \in Ends
    /\ now \in 0..MaxNow

PoolTyped == RowTyped /\ EntryTyped /\ WriteTyped /\ life \in LifeRecord /\ CallTyped /\ RestTyped

(* The operation has read the row it will connect with.                    *)
Snapped ==
    \/ life.op = "initialize" /\ life.step \in {"close", "drain", "update"}
    \/ life.step = "connect"

(* The operation that connects has the entry that is not listed yet, and   *)
(* one that closed the client has none.                                    *)
StepsKnown ==
    /\ life.op = "none" <=> life.step = "none"
    /\ entry.at = "connecting" <=> life.step \in {"connecting", "record", "recorded", "list", "discard"}
    /\ entry.at = "connecting" => ~entry.closing
    /\ life.step \in {"drain", "read", "note"} => ~Made
    /\ life.step = "update" => life.op = "initialize"
    /\ Snapped => life.snap \in RowRecord

(* The client there is belongs to the entry, or to the quarantine.         *)
ClientPlaced ==
    /\ Made => quarantine = 0 /\ live = {entry.client}
    /\ ~Made => live = IF quarantine = 0 THEN {} ELSE {quarantine}

Holders(k, s) == {c \in Pool!Calls : call[c].slot /\ call[c].client = k /\ Pool!Scope(c) = s}
Refusers == {c \in Pool!Calls : call[c].at = "denied"}

SlotsHeld ==
    /\ \A c \in Pool!Calls : call[c].slot =>
           call[c].at \in {"working", "cooling", "cooled"} /\ call[c].client # 0
    /\ Made => \A s \in Scopes :
           /\ entry.active[s] = Cardinality(Holders(entry.client, s))
           /\ entry.active[s] <= IF s = "scan" THEN 1 ELSE MaxConnections

(* What is noted of a cooldown reaches the row, unless an expiry took it   *)
(* out, and the client rests no longer than the row or what is on its way  *)
(* there, unless it is about to be closed.                                 *)
Called == asked \cap {"login", "expire"} # {}
Staying == Made /\ ~entry.closing /\ ~Called
SnapKnown == Snapped /\ ~Called => row.until >= life.snap.until
EntryRests ==
    Staying /\ row.state # "gone" /\ entry.until > now =>
        \/ row.until >= entry.until
        \/ cooldown.until >= entry.until /\ (Pool!Unwritten \/ row.until = 0)
RowRests ==
    cooldown.version # 0 /\ ~Pool!Unwritten => row.until >= cooldown.until \/ row.until = 0

PoolInv ==
    /\ PoolTyped /\ StepsKnown /\ ClientPlaced
    /\ SlotsHeld /\ refusing = Cardinality(Refusers)
    /\ SnapKnown /\ EntryRests /\ RowRests

(* The writes of the row.                                                  *)
LEMMA RowMarked ==
    ASSUME PoolBounds, row \in RowRecord
    PROVE  /\ Pool!MarkHealthy \in RowRecord /\ Pool!MarkHealthy.state = row.state
           /\ Pool!MarkHealthy.until = row.until
           /\ Pool!MarkFailure \in RowRecord /\ Pool!MarkFailure.state = row.state
           /\ Pool!MarkFailure.until = row.until
           /\ Pool!MarkExpired \in RowRecord /\ Pool!MarkExpired.state = row.state
           /\ Pool!MarkExpired.until = 0 \/ (row.state = "gone" /\ Pool!MarkExpired = row)
<1>1. Pool!MarkHealthy \in RowRecord /\ Pool!MarkHealthy.state = row.state
      /\ Pool!MarkHealthy.until = row.until
    BY DEF RowRecord, Pool!Rests, Healths, Pool!MarkHealthy
<1>2. Pool!MarkFailure \in RowRecord /\ Pool!MarkFailure.state = row.state
      /\ Pool!MarkFailure.until = row.until
    BY DEF RowRecord, Healths, Pool!MarkFailure
<1>3. /\ Pool!MarkExpired \in RowRecord /\ Pool!MarkExpired.state = row.state
      /\ Pool!MarkExpired.until = 0 \/ (row.state = "gone" /\ Pool!MarkExpired = row)
    <2>1. CASE row.state = "gone"
        BY <2>1 DEF Pool!MarkExpired
    <2>2. CASE row.state # "gone"
        <3>1. PICK h \in {"expired"}, u \in {0} : Pool!MarkExpired = [row EXCEPT !.health = h, !.until = u]
            BY <2>2 DEF Pool!MarkExpired
        <3>2. h \in Healths /\ u \in Ends
            BY DEF Healths, Ends, PoolBounds
        <3> QED BY <3>1, <3>2 DEF RowRecord
    <2> QED BY <2>1, <2>2
<1> QED BY <1>1, <1>2, <1>3

LEMMA RowCooled ==
    ASSUME PoolBounds, row \in RowRecord, NEW u \in Ends
    PROVE  /\ Pool!MarkCooldown(u) \in RowRecord /\ Pool!MarkCooldown(u).state = row.state
           /\ row.state # "gone" => /\ Pool!MarkCooldown(u).until >= u
                                    /\ Pool!MarkCooldown(u).until >= row.until
           /\ row.state = "gone" => Pool!MarkCooldown(u) = row
<1>1. CASE row.state = "gone"
    BY <1>1 DEF Pool!MarkCooldown
<1>2. CASE row.state # "gone"
    <2>1. row.until \in Ends
        BY DEF RowRecord
    <2>2. PICK v \in Ends : v = Pool!Larger(row.until, u)
        BY <2>1 DEF Pool!Larger
    <2>3. v >= u /\ v >= row.until
        BY <2>1, <2>2 DEF Pool!Larger, Ends, PoolBounds
    <2>4. PICK h \in Healths : Pool!MarkCooldown(u) = [row EXCEPT !.health = h, !.until = v]
        BY <1>2, <2>2 DEF Pool!MarkCooldown, Healths
    <2> QED BY <1>2, <2>3, <2>4 DEF RowRecord
<1> QED BY <1>1, <1>2

(* What is noted is the later end; it is written again unless the end that *)
(* was written last is as late.                                            *)
LEMMA NotedIs ==
    ASSUME WriteTyped, NEW u \in Ends
    PROVE  /\ Pool!Noted(u) \in WriteRecord
           /\ Pool!Noted(u).until >= u /\ Pool!Noted(u).until >= cooldown.until
           /\ Pool!Noted(u).persisted = cooldown.persisted
           /\ Pool!Noted(u).sent <= Pool!Noted(u).version
           /\ Pool!Noted(u).version \in {cooldown.version, cooldown.version + 1}
           /\ Pool!Noted(u).version = cooldown.version =>
                  Pool!Noted(u).until = cooldown.until /\ cooldown.version # 0
<1>1. /\ cooldown \in WriteRecord /\ cooldown.until \in Ends /\ cooldown.version \in Nat
      /\ cooldown.persisted \in Nat /\ cooldown.sent \in Nat /\ cooldown.sent <= cooldown.version
    BY DEF WriteTyped, WriteRecord
<1>2. PICK v \in Nat : v = IF u > cooldown.until \/ cooldown.version = 0
                          THEN cooldown.version + 1 ELSE cooldown.version
    BY <1>1
<1>3. PICK e \in Ends : e = Pool!Larger(cooldown.until, u)
    BY <1>1 DEF Pool!Larger
<1>4. PICK n \in Nat : n = IF cooldown.sent = 0 /\ v # cooldown.persisted THEN v ELSE cooldown.sent
    BY <1>1
<1>5. Pool!Noted(u) = [cooldown EXCEPT !.until = e, !.version = v, !.sent = n]
    BY <1>2, <1>3, <1>4 DEF Pool!Noted
<1>6. /\ [cooldown EXCEPT !.until = e, !.version = v, !.sent = n] \in WriteRecord
      /\ [cooldown EXCEPT !.until = e, !.version = v, !.sent = n].until = e
      /\ [cooldown EXCEPT !.until = e, !.version = v, !.sent = n].version = v
      /\ [cooldown EXCEPT !.until = e, !.version = v, !.sent = n].persisted = cooldown.persisted
      /\ [cooldown EXCEPT !.until = e, !.version = v, !.sent = n].sent = n
    BY <1>1 DEF WriteRecord
<1>7. /\ e >= u /\ e >= cooldown.until /\ v \in {cooldown.version, cooldown.version + 1} /\ n <= v
      /\ v = cooldown.version => e = cooldown.until /\ cooldown.version # 0
    BY <1>1, <1>2, <1>3, <1>4 DEF Pool!Larger, Ends
<1> QED BY <1>5, <1>6, <1>7

LEMMA CooledIs ==
    ASSUME PoolBounds, NEW e \in EntryRecord, NEW u \in Ends, NEW h \in BOOLEAN
    PROVE  LET g == Pool!Cooled(e, u, h) IN
           /\ g \in EntryRecord /\ g.at = e.at /\ g.client = e.client
           /\ (g.closing <=> e.closing) /\ g.active = e.active
           /\ g.until = Pool!Larger(e.until, u)
<1>1. \A x, y \in Ends : Pool!Larger(x, y) \in Ends
    BY DEF Pool!Larger, Ends
<1>2. \A l \in 1..MaxConnections : Pool!Larger(1, l \div 2) \in 1..MaxConnections
    BY DEF Pool!Larger, PoolBounds
<1> QED BY <1>1, <1>2 DEF Pool!Cooled, EntryRecord, Healths

LEMMA EntryFreed ==
    ASSUME EntryTyped, SlotsHeld, CallTyped, NEW c \in Pool!Calls
    PROVE  LET g == Pool!Freed(c) IN
           /\ ~Made => g = entry
           /\ Made => /\ g \in EntryRecord /\ g.at = entry.at /\ g.client = entry.client
                      /\ (g.closing <=> entry.closing) /\ g.until = entry.until
                      /\ \A s \in Scopes : g.active[s] =
                            IF call[c].slot /\ call[c].client = entry.client /\ s = Pool!Scope(c)
                               /\ entry.active[s] # 0
                            THEN entry.active[s] - 1 ELSE entry.active[s]
    BY DEF Pool!Scope, Scopes, Pool!Freed, Pool!Mine, Made, EntryTyped, EntryRecord

LEMMA PoolNumbers ==
    ASSUME PoolInv
    PROVE  /\ row.until \in Nat /\ row.until \in Ends
           /\ cooldown.until \in Nat /\ cooldown.until \in Ends /\ cooldown.version \in Nat
           /\ cooldown.persisted \in Nat /\ cooldown.sent \in Nat /\ now \in Nat
           /\ Snapped => life.snap.until \in Nat /\ life.snap.until \in Ends
           /\ Made => entry.until \in Nat /\ entry.until \in Ends /\ entry.client \in 1..MaxClients
    BY DEF Ends, PoolInv, PoolTyped, RowTyped, RowRecord, WriteTyped, WriteRecord, StepsKnown,
        EntryTyped, EntryRecord, RestTyped

LEMMA LifeTo ==
    ASSUME life \in LifeRecord, NEW x \in LifeSteps, Pool!To(x)
    PROVE  life' \in LifeRecord /\ life'.step = x /\ life'.op = life.op /\ life'.snap = life.snap
BY DEF Pool!To, LifeRecord

LEMMA LifeEnds ==
    Pool!NoLife \in LifeRecord /\ Pool!NoLife.step = "none" /\ Pool!NoLife.op = "none"
BY DEF Pool!NoLife, LifeRecord, LifeOps, LifeSteps

(* The slots are those they were.                                          *)
LEMMA SlotsStay ==
    ASSUME SlotsHeld,
           \A c \in Pool!Calls :
               /\ call'[c].slot <=> call[c].slot
               /\ call[c].slot => call'[c].client = call[c].client
                                  /\ call'[c].at \in {"working", "cooling", "cooled"},
           Made' => /\ Made /\ entry'.client = entry.client
                    /\ \A s \in Scopes : entry'.active[s] = entry.active[s]
    PROVE  SlotsHeld'
<1>1. \A k, s : Holders(k, s)' = Holders(k, s)
    BY DEF Holders, Pool!Scope
<1>2. \A k, s : Cardinality(Holders(k, s)') = Cardinality(Holders(k, s))
    BY <1>1
<1> QED BY <1>1, <1>2 DEF SlotsHeld

LEMMA RefusersStay ==
    ASSUME refusing = Cardinality(Refusers), refusing' = refusing,
           \A c \in Pool!Calls : call'[c].at = "denied" <=> call[c].at = "denied"
    PROVE  refusing' = Cardinality(Refusers)'
    BY DEF Refusers

(* Nothing happens to the row's end or to what is noted.                   *)
LEMMA RestsStay ==
    ASSUME PoolInv, row'.state = row.state, row'.until = row.until, UNCHANGED <<cooldown, now>>,
           Staying' => Staying /\ entry'.until = entry.until
    PROVE  EntryRests' /\ RowRests'
BY DEF PoolInv, EntryRests, RowRests, Pool!Unwritten

LEMMA AskMoves ==
    ASSUME PoolInv, Pool!Ask \/ Pool!Expired
    PROVE  PoolInv'
<1>1. /\ UNCHANGED <<row, refused, refusing, entry, live, quarantine, notBefore, cooldown, call, now>>
      /\ Called <=> Called'
      /\ life' = life \/ (life' = Pool!NoLife /\ life.step = "deleteRow")
    BY DEF Pool!Ask, Pool!Expired, Called, Pool!rowVars, Pool!bound
<1>2. PoolTyped' /\ ClientPlaced'
    BY <1>1, LifeEnds DEF PoolInv, PoolTyped, RowTyped, EntryTyped, WriteTyped, CallTyped, RestTyped,
       ClientPlaced, Made
<1>3. StepsKnown' /\ SnapKnown'
    BY <1>1, LifeEnds DEF PoolInv, StepsKnown, SnapKnown, Snapped, Made
<1>4. SlotsHeld' /\ refusing' = Cardinality(Refusers)'
    BY <1>1 DEF PoolInv, SlotsHeld, Refusers, Holders, Made
<1>5. Staying' => Staying
    BY <1>1 DEF Staying, Made
<1>6. EntryRests' /\ RowRests'
    BY <1>1, <1>5, RestsStay
<1> QED BY <1>2, <1>3, <1>4, <1>6 DEF PoolInv

(* An operation that calls nothing goes on; the entry stays, or goes.      *)
LEMMA LifeMoves ==
    ASSUME PoolInv, life' \in LifeRecord,
           UNCHANGED <<refused, refusing, call, now>>, notBefore' \in Ends, RowTyped', WriteTyped',
           live' \subseteq 1..MaxClients, quarantine' \in 0..MaxClients,
           entry' \in EntryRecord \/ entry' = Pool!NoEntry,
           Made' => /\ Made /\ entry'.client = entry.client
                    /\ \A s \in Scopes : entry'.active[s] = entry.active[s]
    PROVE  PoolTyped' /\ SlotsHeld' /\ refusing' = Cardinality(Refusers)'
    BY SlotsStay DEF EntryTyped, EntryRecord, Pool!NoEntry, Made, PoolInv, PoolTyped, CallTyped,
        RestTyped, SlotsHeld, Refusers

LEMMA EntryClosing ==
    ASSUME PoolInv, Made, NEW b \in BOOLEAN
    PROVE  LET e == [entry EXCEPT !.closing = b] IN
           /\ e \in EntryRecord /\ e.at = entry.at /\ e.client = entry.client
           /\ (e.closing <=> b) /\ e.until = entry.until /\ e.active = entry.active
BY DEF PoolInv, PoolTyped, EntryTyped, EntryRecord

LEMMA InitializeMoves ==
    ASSUME PoolInv, Pool!Initialize
    PROVE  PoolInv'
<1>1. /\ UNCHANGED <<row, refused, refusing, live, quarantine, notBefore, cooldown, call, now>>
      /\ life.op = "none" /\ asked' = asked \ {"initialize"}
    BY DEF Pool!Initialize, Pool!Begins, Pool!rowVars, Pool!bound
<1>2. PICK x \in {"close", "update"} :
         /\ life' = [op |-> "initialize", snap |-> row, step |-> x]
         /\ entry' = entry \/ (entry.at = "listed" /\ x = "close"
                               /\ \E b \in {TRUE} : entry' = [entry EXCEPT !.closing = b])
    BY DEF Pool!Initialize, Pool!Listed
<1>3. row \in RowRecord /\ PoolTyped /\ StepsKnown /\ ClientPlaced
    BY DEF PoolInv, PoolTyped, RowTyped
<1>4. life' \in LifeRecord /\ life'.op = "initialize" /\ life'.step = x /\ life'.snap = row
    BY <1>2, <1>3 DEF LifeRecord, LifeOps, LifeSteps
<1>5. /\ entry' \in EntryRecord \/ entry' = Pool!NoEntry
      /\ entry'.at = entry.at
      /\ Made' => /\ Made /\ entry'.client = entry.client /\ entry'.active = entry.active
                  /\ entry'.until = entry.until /\ (entry.closing => entry'.closing)
    BY <1>3, EntryClosing, <1>2 DEF PoolTyped, EntryTyped, Made
<1>6. PoolTyped' /\ SlotsHeld' /\ refusing' = Cardinality(Refusers)'
    BY <1>1, <1>3, <1>4, <1>5, LifeMoves DEF PoolTyped, RestTyped, RowTyped, WriteTyped
<1>7. StepsKnown'
    BY <1>1, <1>3, <1>4, <1>5 DEF StepsKnown, Snapped
<1>8. ClientPlaced'
    BY <1>1, <1>3, <1>5 DEF ClientPlaced, Made
<1>9. SnapKnown'
    BY <1>1, <1>4, PoolNumbers DEF SnapKnown
<1>10. EntryRests' /\ RowRests'
    BY <1>1, <1>5, RestsStay DEF Staying, Called, Made
<1> QED BY <1>6, <1>7, <1>8, <1>9, <1>10 DEF PoolInv

LEMMA UpdateMoves ==
    ASSUME PoolInv, Pool!Update
    PROVE  PoolInv'
<1>1. /\ UNCHANGED <<row, refused, refusing, live, quarantine, notBefore, cooldown, asked, call, now>>
      /\ life.step = "update" /\ life.op = "initialize"
      /\ PoolTyped /\ StepsKnown /\ ClientPlaced /\ life \in LifeRecord /\ life.snap \in RowRecord
    BY DEF Pool!Update, Pool!rowVars, Pool!bound, PoolInv, PoolTyped, StepsKnown, Snapped
<1>2. PICK x \in {"connect", "close"} : Pool!To(x)
    BY DEF Pool!Update
<1>3. life' \in LifeRecord /\ life'.step = x /\ life'.op = life.op /\ life'.snap = life.snap
    BY <1>1, <1>2, LifeTo DEF LifeSteps
<1>4. \/ entry' = entry
      \/ entry.at = "listed" /\ \E b \in {TRUE} : entry' = [entry EXCEPT !.closing = b]
      \/ entry.at = "listed" /\ \E h \in Healths : entry' = [entry EXCEPT
             !.until = Pool!Larger(entry.until, life.snap.until), !.health = h]
    BY <1>1 DEF RowRecord, Pool!Update, Pool!Listed, Healths
<1>5. /\ entry' \in EntryRecord \/ entry' = Pool!NoEntry
      /\ entry'.at = entry.at
      /\ Made' => /\ Made /\ entry'.client = entry.client /\ entry'.active = entry.active
                  /\ entry'.until \in {entry.until, life.snap.until}
                  /\ (entry.closing => entry'.closing)
    <2>1. CASE entry' = entry
        BY <2>1, <1>1 DEF PoolTyped, EntryTyped, Made
    <2>2. ASSUME NEW b \in {TRUE}, entry' = [entry EXCEPT !.closing = b], entry.at = "listed"
          PROVE  <1>5!:
        BY <2>2, EntryClosing DEF Made
    <2>3. ASSUME NEW h \in Healths, entry.at = "listed",
                 entry' = [entry EXCEPT !.until = Pool!Larger(entry.until, life.snap.until), !.health = h]
          PROVE  <1>5!:
        BY <2>3, <1>1, PoolNumbers DEF Pool!Larger, Snapped, Made, PoolTyped, EntryTyped,
            EntryRecord
    <2> QED BY <1>4, <2>1, <2>2, <2>3
<1>6. PoolTyped' /\ SlotsHeld' /\ refusing' = Cardinality(Refusers)'
    BY <1>1, <1>3, <1>5, LifeMoves DEF PoolTyped, RestTyped, RowTyped, WriteTyped
<1>7. StepsKnown'
    BY <1>1, <1>3, <1>5 DEF StepsKnown, Snapped, Made
<1>8. ClientPlaced'
    BY <1>1, <1>5 DEF ClientPlaced, Made
<1>9. SnapKnown'
    BY <1>1, <1>3 DEF PoolInv, SnapKnown, Snapped, Called
<1>10. EntryRests' /\ RowRests'
    BY <1>1, <1>5 DEF PoolInv, RowRests, Pool!Unwritten, Staying, Called, Made, SnapKnown, Snapped,
        EntryRests
<1> QED BY <1>6, <1>7, <1>8, <1>9, <1>10 DEF PoolInv

LEMMA BeginExpireMoves ==
    ASSUME PoolInv, Pool!BeginExpire
    PROVE  PoolInv'
<1>1. /\ UNCHANGED <<row, refused, refusing, live, quarantine, notBefore, cooldown, call, now>>
      /\ life.op = "none" /\ PoolTyped /\ StepsKnown /\ ClientPlaced
    BY DEF Pool!BeginExpire, Pool!Begins, Pool!rowVars, Pool!bound, PoolInv
<1>2. PICK op \in {"login", "enable", "expire", "delete"} :
         /\ asked' = asked \ {op}
         /\ life' = [op |-> op, step |-> "close", snap |-> [state |-> "gone"]]
         /\ entry' = IF entry.at = "listed" THEN [entry EXCEPT !.closing = TRUE] ELSE entry
    BY DEF Pool!BeginExpire, Pool!Begins, Pool!Listed
<1>4. life' \in LifeRecord /\ life'.op = op /\ life'.step = "close"
    BY <1>2 DEF LifeRecord, LifeOps, LifeSteps
<1>5. /\ entry' \in EntryRecord \/ entry' = Pool!NoEntry
      /\ entry'.at = entry.at
      /\ Made' => /\ Made /\ entry'.client = entry.client /\ entry'.active = entry.active
                  /\ entry'.until = entry.until /\ entry'.closing
    BY <1>1, <1>2, EntryClosing DEF StepsKnown, PoolTyped, EntryTyped, EntryRecord, Made
<1>6. PoolTyped' /\ SlotsHeld' /\ refusing' = Cardinality(Refusers)'
    BY <1>1, <1>4, <1>5, LifeMoves DEF PoolTyped, RestTyped, RowTyped, WriteTyped
<1>7. StepsKnown'
    BY <1>1, <1>4, <1>5 DEF StepsKnown, Snapped
<1>8. ClientPlaced'
    BY <1>1, <1>5 DEF ClientPlaced, Made
<1>9. SnapKnown'
    BY <1>4 DEF SnapKnown, Snapped
<1>10. EntryRests' /\ RowRests'
    BY <1>1, <1>5, RestsStay DEF Staying
<1> QED BY <1>6, <1>7, <1>8, <1>9, <1>10 DEF PoolInv

LEMMA CloseMoves ==
    ASSUME PoolBounds, PoolInv, Pool!Close
    PROVE  PoolInv'
<1>1. /\ UNCHANGED <<row, refused, refusing, notBefore, cooldown, asked, call, now>>
      /\ life.step = "close" /\ PoolTyped /\ StepsKnown /\ ClientPlaced /\ life \in LifeRecord
    BY DEF Pool!Close, Pool!rowVars, Pool!bound, Pool!Trouble, PoolInv, PoolTyped
<1>2. CASE /\ live' = live \ ({quarantine} \cup IF Pool!Listed THEN {entry.client} ELSE {})
           /\ entry' = Pool!NoEntry /\ quarantine' = 0 /\ Pool!To("drain")
    <2>1. life' \in LifeRecord /\ life'.step = "drain" /\ life'.op = life.op /\ life'.snap = life.snap
        BY <1>1, <1>2, LifeTo DEF LifeSteps
    <2>2. ~Made'
        BY <1>2 DEF Made, Pool!NoEntry
    <2>3. live' = {}
        BY <1>1, <1>2 DEF ClientPlaced, StepsKnown, Made, Pool!Listed, PoolTyped, EntryTyped, EntryRecord
    <2>4. PoolTyped' /\ SlotsHeld' /\ refusing' = Cardinality(Refusers)'
        <3>1. quarantine' \in 0..MaxClients /\ live' \subseteq 1..MaxClients
            BY <1>2, <2>3 DEF PoolBounds
        <3>2. RowTyped' /\ WriteTyped' /\ notBefore' \in Ends
            BY <1>1 DEF PoolTyped, RestTyped, RowTyped, WriteTyped
        <3> QED BY <1>1, <1>2, <2>1, <2>2, <3>1, <3>2, LifeMoves
    <2>5. StepsKnown' /\ ClientPlaced'
        BY <1>1, <1>2, <2>1, <2>2, <2>3 DEF StepsKnown, Snapped, ClientPlaced, Made
    <2>6. SnapKnown'
        BY <1>1, <2>1 DEF PoolInv, SnapKnown, Snapped, Called
    <2>7. EntryRests' /\ RowRests'
        BY <1>1, <2>2, RestsStay DEF Staying
    <2> QED BY <2>4, <2>5, <2>6, <2>7 DEF PoolInv
<1>3. CASE life' = Pool!NoLife /\ UNCHANGED <<live, entry, quarantine>>
    BY <1>1, <1>3, LifeEnds, LifeMoves, RestsStay DEF PoolTyped, EntryTyped, RestTyped, RowTyped,
        WriteTyped, Made, StepsKnown, SnapKnown, Snapped, ClientPlaced, Staying, Called, PoolInv
<1> QED BY <1>2, <1>3 DEF Pool!Close

LEMMA DrainMoves ==
    ASSUME PoolBounds, PoolInv, Pool!Drain
    PROVE  PoolInv'
    BY LifeTo, LifeEnds, LifeMoves DEF Pool!Drain, Pool!rowVars, Pool!bound, PoolInv, PoolTyped,
        StepsKnown, LifeSteps, WriteTyped, WriteRecord, Pool!NoWrite, Ends, RowRests, PoolBounds,
        Made, EntryTyped, RestTyped, RowTyped, Snapped, ClientPlaced, SnapKnown, Called, EntryRests,
        Staying

LEMMA ReadRowMoves ==
    ASSUME PoolBounds, PoolInv, Pool!ReadRow
    PROVE  PoolInv'
<1>1. /\ UNCHANGED <<row, refused, refusing, entry, live, quarantine, cooldown, asked, call, now>>
      /\ life.step = "read" /\ life' = [life EXCEPT !.step = "connect", !.snap = row]
      /\ notBefore' \in {0, notBefore}
      /\ PoolTyped /\ StepsKnown /\ ClientPlaced /\ life \in LifeRecord /\ ~Made /\ row \in RowRecord
    BY DEF Pool!ReadRow, Pool!rowVars, Pool!bound, PoolInv, PoolTyped, RowTyped, StepsKnown
<1>2. life' \in LifeRecord /\ life'.op = life.op /\ life'.step = "connect" /\ life'.snap = row
    BY <1>1 DEF LifeSteps, LifeRecord
<1>3. ~Made' /\ notBefore' \in Ends
    BY <1>1 DEF Made, PoolTyped, RestTyped, Ends, PoolBounds
<1>4. PoolTyped' /\ SlotsHeld' /\ refusing' = Cardinality(Refusers)'
    BY <1>1, <1>2, <1>3, LifeMoves DEF PoolTyped, EntryTyped, RestTyped, RowTyped, WriteTyped
<1>5. StepsKnown' /\ ClientPlaced'
    BY <1>1, <1>2, <1>3 DEF StepsKnown, Snapped, ClientPlaced, Made
<1>6. SnapKnown'
    BY <1>1, <1>2, PoolNumbers DEF SnapKnown
<1>7. EntryRests' /\ RowRests'
    BY <1>1, <1>3, RestsStay DEF Staying
<1> QED BY <1>4, <1>5, <1>6, <1>7 DEF PoolInv

(* The row of a deleted account has no end.                                *)
LEMMA DeleteRowMoves ==
    ASSUME PoolBounds, PoolInv, Pool!DeleteRow
    PROVE  PoolInv'
    BY LifeMoves DEF Pool!DeleteRow, Pool!bound, PoolInv, PoolTyped, RowTyped, RowRecord, Healths,
        Ends, PoolBounds, EntryTyped, RestTyped, WriteTyped, Made, StepsKnown, SnapKnown, Snapped,
        ClientPlaced, EntryRests, RowRests

(* A client is made only when there is none, and no call has it.           *)
LEMMA ConnectMakes ==
    ASSUME PoolBounds, PoolInv, Pool!Connect
    PROVE  PoolInv'
<1>1. /\ UNCHANGED <<row, refused, refusing, quarantine, notBefore, cooldown, asked, call, now>>
      /\ life.step = "connect" /\ life.snap \in RowRecord
      /\ PoolTyped /\ StepsKnown /\ ClientPlaced /\ life \in LifeRecord
    BY DEF Pool!Connect, Pool!rowVars, Pool!bound, PoolInv, PoolTyped, StepsKnown, Snapped
<1>2. CASE life' = Pool!NoLife /\ UNCHANGED <<entry, live>>
    BY <1>1, <1>2, LifeEnds, LifeMoves, RestsStay DEF PoolTyped, EntryTyped, RestTyped, RowTyped,
        WriteTyped, Made, StepsKnown, SnapKnown, Snapped, ClientPlaced, Staying, Called, PoolInv
<1>3. ASSUME Pool!Connectable(life.snap), NEW k \in 1..MaxClients,
             \A c \in Pool!Calls : call[c].client # k,
             entry' = Pool!NewEntry(k, life.snap), live' = live \cup {k},
             Pool!To("connecting")
      PROVE  PoolInv'
    <2>1. life' \in LifeRecord /\ life'.step = "connecting" /\ life'.op = life.op /\ life'.snap = life.snap
        BY <1>1, <1>3, LifeTo DEF LifeSteps
    <2>2. /\ entry' \in EntryRecord /\ entry'.at = "connecting" /\ entry'.client = k
          /\ ~entry'.closing /\ entry'.until = life.snap.until
          /\ \A s \in Scopes : entry'.active[s] = 0
        BY <1>1, <1>3 DEF Pool!NewEntry, EntryRecord, RowRecord, Scopes, PoolBounds
    <2>3. ~Made /\ quarantine = 0 /\ live = {} /\ Made'
        BY <1>1, <1>3, <2>2 DEF Pool!Connectable, Pool!Listed, StepsKnown, PoolTyped, EntryTyped,
            EntryRecord, Made, ClientPlaced
    <2>4. live' = {k}
        BY <1>3, <2>3
    <2>5. PoolTyped'
        BY <1>1, <1>3, <2>1, <2>2, <2>3, <2>4 DEF PoolTyped, RowTyped, EntryTyped, WriteTyped, CallTyped, RestTyped
    <2>6. StepsKnown' /\ ClientPlaced'
        BY <1>1, <2>1, <2>2, <2>3, <2>4 DEF StepsKnown, Snapped, ClientPlaced
    <2>7. SlotsHeld'
        <3>1. \A s \in Scopes : Holders(k, s)' = {}
            BY <1>1, <1>3 DEF Holders
        <3>2. \A s \in Scopes : Cardinality(Holders(k, s)') = 0
            BY <3>1, FS_EmptySet
        <3>3. \A s \in Scopes : entry'.active[s] = Cardinality(Holders(entry.client, s))'
            BY <2>2, <3>2
        <3>4. \A s \in Scopes : entry'.active[s] <= IF s = "scan" THEN 1 ELSE MaxConnections
            BY <2>2 DEF PoolBounds
        <3>5. \A c \in Pool!Calls : call'[c].slot =>
                  call'[c].at \in {"working", "cooling", "cooled"} /\ call'[c].client # 0
            BY <1>1 DEF PoolInv, SlotsHeld
        <3> QED BY <3>3, <3>4, <3>5 DEF SlotsHeld
    <2>8. refusing' = Cardinality(Refusers)'
        BY <1>1 DEF PoolInv, Refusers
    <2>9. SnapKnown' /\ RowRests'
        BY <1>1, <2>1 DEF PoolInv, SnapKnown, Snapped, Called, RowRests, Pool!Unwritten
    <2>10. EntryRests'
        BY <1>1, <2>2 DEF Staying, Called, PoolInv, SnapKnown, Snapped, EntryRests
    <2> QED BY <2>5, <2>6, <2>7, <2>8, <2>9, <2>10 DEF PoolInv
<1> QED BY <1>2, <1>3 DEF Pool!Connect

LEMMA UntilIs ==
    ASSUME PoolBounds, PoolInv, NEW n \in {1, 2}
    PROVE  Pool!Until(n) \in Ends
BY DEF PoolInv, PoolTyped, RestTyped, Pool!Until, Ends, PoolBounds

(* What is noted is on its way to the row, with what the client rests now. *)
LEMMA NotedRests ==
    ASSUME PoolInv, NEW u \in Ends, cooldown' = Pool!Noted(u), UNCHANGED <<row, now>>,
           Staying' => Staying, Staying' => entry'.until \in Ends,
           Staying' => entry'.until = entry.until \/ entry'.until <= u
    PROVE  WriteTyped' /\ EntryRests' /\ RowRests'
    BY NotedIs, PoolNumbers DEF PoolInv, PoolTyped, WriteTyped, WriteRecord, Ends, Pool!Unwritten,
        RowRests, EntryRests

LEMMA ConnectedMoves ==
    ASSUME PoolBounds, PoolInv, Pool!Connected
    PROVE  PoolInv'
<1>1. /\ UNCHANGED <<refused, refusing, live, quarantine, notBefore, cooldown, asked, call, now>>
      /\ life.step = "connecting" /\ entry' = [entry EXCEPT !.up = TRUE]
      /\ row' \in {row, Pool!MarkHealthy} /\ Pool!To("record")
      /\ PoolTyped /\ StepsKnown /\ ClientPlaced /\ life \in LifeRecord /\ row \in RowRecord
    BY DEF Pool!Connected, Pool!bound, PoolInv, PoolTyped, RowTyped
<1>2. life' \in LifeRecord /\ life'.step = "record" /\ life'.op = life.op /\ life'.snap = life.snap
    BY <1>1, LifeTo DEF LifeSteps
<1>3. RowTyped' /\ row'.state = row.state /\ row'.until = row.until
    BY <1>1, RowMarked DEF PoolTyped, RowTyped
<1>4. Made /\ entry \in EntryRecord /\ entry.at = "connecting"
    BY <1>1 DEF StepsKnown, Made, PoolTyped, EntryTyped
<1>5. /\ entry' \in EntryRecord /\ entry'.at = entry.at /\ entry'.client = entry.client
      /\ entry'.active = entry.active /\ entry'.until = entry.until
      /\ (entry'.closing <=> entry.closing)
    BY <1>1, <1>4 DEF EntryRecord
<1>6. PoolTyped' /\ SlotsHeld' /\ refusing' = Cardinality(Refusers)'
    BY <1>1, <1>2, <1>3, <1>4, <1>5, LifeMoves DEF PoolTyped, RestTyped, WriteTyped
<1>7. StepsKnown' /\ ClientPlaced'
    BY <1>1, <1>2, <1>4, <1>5 DEF StepsKnown, Snapped, ClientPlaced, Made
<1>8. SnapKnown'
    BY <1>2 DEF SnapKnown, Snapped
<1>9. EntryRests' /\ RowRests'
    BY <1>1, <1>3, <1>4, <1>5, RestsStay DEF Staying, Called, Made
<1> QED BY <1>6, <1>7, <1>8, <1>9 DEF PoolInv

LEMMA RecordMoves ==
    ASSUME PoolBounds, PoolInv, Pool!Record
    PROVE  PoolInv'
    BY LifeTo, RowMarked, RestsStay, NotedRests, LifeMoves DEF Pool!Record, Pool!bound, PoolInv,
        PoolTyped, RowTyped, StepsKnown, Made, EntryTyped, Healths, LifeSteps, EntryRecord, Staying,
        Called, WriteTyped, RestTyped, Snapped, ClientPlaced, SnapKnown

LEMMA ListMoves ==
    ASSUME PoolBounds, PoolInv, Pool!List
    PROVE  PoolInv'
    BY LifeEnds, LifeMoves, RestsStay DEF Pool!List, Pool!rowVars, Pool!bound, PoolInv, StepsKnown,
        Made, PoolTyped, EntryTyped, EntryRecord, RestTyped, RowTyped, WriteTyped, SnapKnown,
        Snapped, ClientPlaced, Staying, Called

LEMMA PoolConnectFails ==
    ASSUME PoolBounds, PoolInv, Pool!ConnectFails
    PROVE  PoolInv'
<1>1. /\ UNCHANGED <<row, refused, refusing, entry, live, quarantine, cooldown, asked, call, now>>
      /\ life.step \in {"connecting", "record", "recorded", "list"}
      /\ PoolTyped /\ StepsKnown /\ ClientPlaced /\ life \in LifeRecord
      /\ notBefore' \in {cooldown.until, Pool!Until(1)}
    BY DEF Pool!ConnectFails, Pool!rowVars, Pool!bound, Pool!Trouble, PoolInv, PoolTyped
<1>2. PICK why \in {"flood", "expired", "other"} : life' = [life EXCEPT !.step = "discard", !.op = why]
    BY DEF Pool!ConnectFails
<1>3. life' \in LifeRecord /\ life'.step = "discard" /\ life'.op = why
    BY <1>2, <1>1 DEF LifeRecord, LifeOps, LifeSteps
<1>4. notBefore' \in Ends
    BY <1>1, PoolNumbers, UntilIs
<1>5. PoolTyped' /\ SlotsHeld' /\ refusing' = Cardinality(Refusers)'
    BY <1>1, <1>3, <1>4, LifeMoves DEF PoolTyped, EntryTyped, RestTyped, RowTyped, WriteTyped, Made
<1>6. StepsKnown' /\ ClientPlaced' /\ SnapKnown'
    BY <1>1, <1>3 DEF StepsKnown, SnapKnown, Snapped, ClientPlaced, Made
<1>7. EntryRests' /\ RowRests'
    BY <1>1, RestsStay DEF Staying, Called, Made
<1> QED BY <1>5, <1>6, <1>7 DEF PoolInv

LEMMA DiscardMoves ==
    ASSUME PoolBounds, PoolInv, Pool!Discard
    PROVE  PoolInv'
    BY LifeTo, LifeEnds, LifeMoves, RestsStay DEF Pool!Discard, Pool!rowVars, Pool!bound,
        Pool!Trouble, PoolInv, PoolTyped, StepsKnown, Made, EntryTyped, EntryRecord, ClientPlaced,
        Pool!NoEntry, LifeSteps, PoolBounds, RestTyped, RowTyped, WriteTyped, SnapKnown, Snapped,
        Staying

LEMMA NoteMoves ==
    ASSUME PoolBounds, PoolInv, Pool!Note
    PROVE  PoolInv'
    BY PoolNumbers, UntilIs, LifeTo, RowMarked, NotedRests, LifeMoves DEF Pool!Note, Pool!bound,
        PoolInv, PoolTyped, RowTyped, StepsKnown, LifeSteps, Made, WriteTyped, EntryRests, RowRests,
        Staying, Pool!Unwritten, EntryTyped, RestTyped, SnapKnown, Snapped, ClientPlaced

LEMMA NoteEnds ==
    ASSUME PoolBounds, PoolInv, Pool!NoteDone
    PROVE  PoolInv'
    BY LifeEnds, LifeMoves, RestsStay DEF Pool!NoteDone, Pool!rowVars, Pool!bound, PoolInv,
        PoolTyped, EntryTyped, RestTyped, RowTyped, WriteTyped, Made, StepsKnown, SnapKnown,
        Snapped, ClientPlaced, Staying, Called

(* A step outside the operations: the entry stays where it is.             *)
LEMMA StepMoves ==
    ASSUME PoolInv, UNCHANGED <<live, quarantine, notBefore, life>>,
           now' \in 0..MaxNow, CallTyped', RowTyped', WriteTyped', SlotsHeld',
           refusing' = Cardinality(Refusers)', EntryRests', RowRests',
           ~Made => entry' = entry,
           Made => /\ entry' \in EntryRecord /\ entry'.at = entry.at
                   /\ entry'.client = entry.client /\ (entry'.closing <=> entry.closing),
           Called' \/ (~Called /\ row'.until >= row.until)
    PROVE  PoolInv'
    BY PoolNumbers DEF Made, PoolInv, PoolTyped, EntryTyped, RestTyped, StepsKnown, Snapped,
        ClientPlaced, RowTyped, RowRecord, Ends, SnapKnown

(* What the calls hold and what they refuse stays when no call moves.      *)
LEMMA CallsStay ==
    ASSUME PoolInv, UNCHANGED <<call, refusing>>,
           ~Made => entry' = entry,
           Made => entry'.client = entry.client /\ entry'.active = entry.active
    PROVE  CallTyped' /\ SlotsHeld' /\ refusing' = Cardinality(Refusers)'
    BY SlotsStay DEF PoolInv, SlotsHeld, Made, PoolTyped, CallTyped, Refusers

LEMMA EntryStays ==
    ASSUME PoolInv, entry' = entry
    PROVE  Made => /\ entry' \in EntryRecord /\ entry'.at = entry.at
                   /\ entry'.client = entry.client /\ (entry'.closing <=> entry.closing)
BY DEF PoolInv, PoolTyped, EntryTyped

LEMMA WrittenMoves ==
    ASSUME PoolBounds, PoolInv, Pool!Written
    PROVE  PoolInv'
<1>1. /\ UNCHANGED <<refused, refusing, entry, live, quarantine, notBefore, life, asked, call, now>>
      /\ cooldown.sent # 0 /\ row' = Pool!MarkCooldown(cooldown.until)
      /\ cooldown \in WriteRecord /\ WriteTyped /\ RowTyped /\ row \in RowRecord /\ now' \in 0..MaxNow
    BY DEF Pool!Written, Pool!Flying, Pool!bound, PoolInv, PoolTyped, WriteTyped, RowTyped, RestTyped
<1>2. PICK n \in Nat : n = IF cooldown.sent = cooldown.version THEN 0 ELSE cooldown.version
    BY <1>1 DEF WriteRecord
<1>3. cooldown' = [cooldown EXCEPT !.persisted = cooldown.sent, !.sent = n]
    BY <1>2 DEF Pool!Written
<1>4. /\ cooldown' \in WriteRecord /\ cooldown'.persisted = cooldown.sent /\ cooldown'.sent = n
      /\ cooldown'.until = cooldown.until /\ cooldown'.version = cooldown.version
    BY <1>1, <1>3 DEF WriteRecord
<1>5. WriteTyped'
    BY <1>1, <1>2, <1>4 DEF WriteTyped, WriteRecord
<1>6. /\ row' \in RowRecord /\ row'.state = row.state
      /\ row.state # "gone" => row'.until >= cooldown.until /\ row'.until >= row.until
      /\ row.state = "gone" => row' = row
    BY <1>1, RowCooled, PoolNumbers
<1>7. RowTyped' /\ row'.until \in Nat /\ row.until \in Nat /\ row'.until >= row.until
    BY <1>1, <1>6 DEF RowTyped, RowRecord, Ends
<1>8. row'.until >= cooldown.until \/ row'.until = 0
    BY <1>1, <1>6 DEF RowTyped
<1>9. RowRests'
    BY <1>4, <1>8 DEF RowRests
<1>10. EntryRests'
    BY <1>1, <1>6, PoolNumbers, <1>7 DEF EntryRests, Staying, Called, Made, PoolInv
<1>11. CallTyped' /\ SlotsHeld' /\ refusing' = Cardinality(Refusers)'
    BY <1>1, CallsStay
<1>12. Called' \/ (~Called /\ row'.until >= row.until)
    BY <1>1, <1>7 DEF Called
<1> QED BY <1>1, <1>5, <1>7, <1>9, <1>10, <1>11, <1>12, EntryStays, StepMoves

LEMMA WriteFailsMoves ==
    ASSUME PoolBounds, PoolInv, Pool!WriteFails
    PROVE  PoolInv'
    BY CallsStay, PoolNumbers, EntryStays, StepMoves DEF Pool!WriteFails, Pool!Trouble,
        Pool!rowVars, PoolInv, PoolTyped, WriteTyped, RestTyped, WriteRecord, RowRests, EntryRests,
        Staying, Called, Made, Pool!Unwritten, RowTyped

LEMMA FloodedMoves ==
    ASSUME PoolBounds, PoolInv, NEW n \in {1, 2}, Pool!Flooded(n)
    PROVE  PoolInv'
<1>1. /\ UNCHANGED <<row, refused, refusing, live, quarantine, notBefore, life, asked, call, now>>
      /\ Made /\ entry \in EntryRecord /\ RowTyped /\ now' \in 0..MaxNow /\ Pool!Until(n) \in Ends
    BY UntilIs DEF Pool!Flooded, Pool!Trouble, Pool!rowVars, PoolInv, PoolTyped, RestTyped, EntryTyped, Made
<1>2. PICK h \in BOOLEAN, f \in {TRUE} :
         entry' = [Pool!Cooled(entry, Pool!Until(n), h) EXCEPT !.flood = f]
    BY DEF Pool!Flooded
<1>3. PICK g \in EntryRecord :
         /\ g = Pool!Cooled(entry, Pool!Until(n), h)
         /\ g.at = entry.at /\ g.client = entry.client /\ (g.closing <=> entry.closing)
         /\ g.active = entry.active
    BY <1>1, CooledIs
<1>4. /\ entry' \in EntryRecord /\ entry'.at = entry.at /\ entry'.client = entry.client
      /\ (entry'.closing <=> entry.closing) /\ entry'.active = entry.active
    BY <1>2, <1>3 DEF EntryRecord
<1>5. entry'.until \in Ends /\ cooldown' = Pool!Noted(entry'.until)
    BY <1>4 DEF EntryRecord, Pool!Flooded
<1>6. Staying' => Staying /\ entry'.until \in Ends /\ entry'.until <= entry'.until
    BY <1>1, <1>4, <1>5 DEF Staying, Called, Made, Ends
<1>7. WriteTyped' /\ EntryRests' /\ RowRests'
    BY <1>5, <1>6, <1>1, NotedRests
<1>8. CallTyped' /\ SlotsHeld' /\ refusing' = Cardinality(Refusers)'
    BY <1>1, <1>4, CallsStay
<1>9. Called' \/ (~Called /\ row'.until >= row.until)
    BY <1>1, PoolNumbers DEF Called
<1>10. RowTyped'
    BY <1>1 DEF RowTyped
<1> QED BY <1>1, <1>4, <1>7, <1>8, <1>9, <1>10, StepMoves

LEMMA WorkerMoves ==
    ASSUME PoolBounds, PoolInv, Pool!ReadsWell \/ Pool!WorkerExits
    PROVE  PoolInv'
<1>1. /\ UNCHANGED <<row, refused, refusing, live, quarantine, notBefore, cooldown, life, asked, call, now>>
      /\ Made /\ entry \in EntryRecord /\ RowTyped /\ WriteTyped /\ now' \in 0..MaxNow
    BY DEF Pool!ReadsWell, Pool!WorkerExits, Pool!Open, Pool!Listed, Pool!Trouble, Pool!rowVars,
       Pool!bound, PoolInv, PoolTyped, RestTyped, EntryTyped, Made
<1>2. \/ \E l \in 1..MaxConnections : entry' = [entry EXCEPT !.limit = l]
      \/ \E b \in {FALSE} : entry' = [entry EXCEPT !.up = b]
    BY <1>1 DEF EntryRecord, Pool!ReadsWell, PoolBounds, Pool!WorkerExits
<1>3. /\ entry' \in EntryRecord /\ entry'.at = entry.at /\ entry'.client = entry.client
      /\ (entry'.closing <=> entry.closing) /\ entry'.active = entry.active
      /\ entry'.until = entry.until
    BY <1>1, <1>2 DEF EntryRecord
<1>4. EntryRests' /\ RowRests'
    BY <1>1, <1>3, RestsStay DEF Staying, Called, Made
<1>5. CallTyped' /\ SlotsHeld' /\ refusing' = Cardinality(Refusers)'
    BY <1>1, <1>3, CallsStay
<1>6. Called' \/ (~Called /\ row'.until >= row.until)
    BY <1>1, PoolNumbers DEF Called
<1>7. RowTyped' /\ WriteTyped'
    BY <1>1 DEF RowTyped, WriteTyped
<1> QED BY <1>1, <1>3, <1>4, <1>5, <1>6, <1>7, StepMoves

(* The user and the time.                                                  *)
LEMMA UserMoves ==
    ASSUME PoolBounds, PoolInv, Pool!Login \/ Pool!Enable \/ Pool!Disable \/ Pool!Delete \/ Pool!Tick
    PROVE  PoolInv'
    BY PoolNumbers, CallsStay, EntryStays, StepMoves DEF Pool!Login, Pool!Enable, Pool!Disable,
        Pool!Delete, Pool!Tick, Pool!Trouble, Pool!rowVars, PoolInv, PoolTyped, RowTyped, RestTyped,
        PoolBounds, Pool!Rests, Healths, RowRecord, Called, EntryRests, Staying, Made,
        Pool!Unwritten, RowRests, WriteTyped

(* A call goes to another place, and keeps or gives back its slot.         *)
LEMMA CallIs ==
    ASSUME CallTyped, NEW c \in Pool!Calls, NEW x \in CallPlaces, Pool!At(c, x) \/ Pool!Leave(c, x)
    PROVE  /\ CallTyped'
           /\ \A d \in Pool!Calls :
                  /\ call'[d].client = call[d].client
                  /\ call'[d].at = IF d = c THEN x ELSE call[d].at
                  /\ d # c => (call'[d].slot <=> call[d].slot)
           /\ Pool!At(c, x) => (call'[c].slot <=> call[c].slot)
           /\ Pool!Leave(c, x) => ~call'[c].slot
<1>1. call \in [Pool!Calls -> CallRecord]
    BY DEF CallTyped
<1>2. CASE Pool!At(c, x)
    <2>1. call' = [call EXCEPT ![c].at = x]
        BY <1>2 DEF Pool!At
    <2>2. call' \in [Pool!Calls -> CallRecord]
        BY <1>1, <2>1 DEF CallRecord
    <2>3. \A d \in Pool!Calls :
              /\ call'[d].client = call[d].client
              /\ call'[d].at = IF d = c THEN x ELSE call[d].at
              /\ call'[d].slot <=> call[d].slot
        BY <1>1, <2>1 DEF CallRecord
    <2>4. Pool!Leave(c, x) => ~call[c].slot
        BY <2>3, <1>1 DEF Pool!Leave, CallRecord
    <2> QED BY <2>2, <2>3, <2>4 DEF CallTyped
<1>3. CASE Pool!Leave(c, x) /\ ~Pool!At(c, x)
    <2>1. PICK b \in {FALSE} : call' = [call EXCEPT ![c].at = x, ![c].slot = b]
        BY <1>3 DEF Pool!Leave
    <2>2. call' \in [Pool!Calls -> CallRecord]
        BY <1>1, <2>1 DEF CallRecord
    <2>3. \A d \in Pool!Calls :
              /\ call'[d].client = call[d].client
              /\ call'[d].at = IF d = c THEN x ELSE call[d].at
              /\ d # c => (call'[d].slot <=> call[d].slot)
              /\ d = c => ~call'[d].slot
        BY <1>1, <2>1 DEF CallRecord
    <2> QED BY <1>3, <2>2, <2>3 DEF CallTyped
<1> QED BY <1>2, <1>3

LEMMA HoldersFinite ==
    ASSUME PoolBounds
    PROVE  /\ \A k, s : IsFiniteSet(Holders(k, s)) /\ Cardinality(Holders(k, s)) \in Nat
           /\ IsFiniteSet(Refusers) /\ Cardinality(Refusers) \in Nat
           /\ Cardinality(Refusers) <= Cardinality(Pool!Calls)
    BY FS_Subset, FS_CardinalityType DEF Holders, Refusers, PoolBounds

LEMMA RefusersAfter ==
    ASSUME PoolBounds, PoolInv, NEW c \in Pool!Calls, NEW x,
           \A d \in Pool!Calls : call'[d].at = IF d = c THEN x ELSE call[d].at
    PROVE  /\ (x = "denied" <=> call[c].at = "denied") => Cardinality(Refusers)' = refusing
           /\ x = "denied" /\ call[c].at # "denied" => Cardinality(Refusers)' = refusing + 1
           /\ x # "denied" /\ call[c].at = "denied" =>
                  Cardinality(Refusers)' = refusing - 1 /\ refusing - 1 \in Nat
<1>1. refusing = Cardinality(Refusers) /\ IsFiniteSet(Refusers) /\ refusing \in Nat
    BY HoldersFinite DEF PoolInv
<1>2. CASE x = "denied" <=> call[c].at = "denied"
    BY <1>2, <1>1 DEF Refusers
<1>3. CASE x = "denied" /\ call[c].at # "denied"
    <2>1. Refusers' = Refusers \cup {c} /\ c \notin Refusers
        BY <1>3 DEF Refusers
    <2>2. Cardinality(Refusers \cup {c}) = Cardinality(Refusers) + 1
        BY <1>1, <2>1, FS_AddElement
    <2> QED BY <1>1, <1>3, <2>1, <2>2
<1>4. CASE x # "denied" /\ call[c].at = "denied"
    <2>1. Refusers' = Refusers \ {c} /\ c \in Refusers
        BY <1>4 DEF Refusers
    <2>2. Cardinality(Refusers \ {c}) = Cardinality(Refusers) - 1
        BY <1>1, <2>1, FS_RemoveElement
    <2>3. IsFiniteSet(Refusers \ {c})
        BY <1>1, FS_RemoveElement
    <2>4. Cardinality(Refusers \ {c}) \in Nat
        BY <2>3, FS_CardinalityType
    <2> QED BY <1>1, <1>4, <2>1, <2>2, <2>4
<1> QED BY <1>2, <1>3, <1>4

(* A call that keeps what it has.                                          *)
LEMMA AtMoves ==
    ASSUME PoolBounds, PoolInv, NEW c \in Pool!Calls, NEW x \in CallPlaces, Pool!At(c, x),
           UNCHANGED <<live, quarantine, notBefore, life, now>>,
           x # "denied", call[c].slot => x \in {"working", "cooling", "cooled"},
           refusing' = IF call[c].at = "denied" THEN refusing - 1 ELSE refusing,
           row' \in RowRecord, refused' \in BOOLEAN, row'.state = "gone" => row'.until = 0,
           WriteTyped', EntryRests', RowRests',
           ~Made => entry' = entry,
           Made => /\ entry' \in EntryRecord /\ entry'.at = entry.at
                   /\ entry'.client = entry.client /\ (entry'.closing <=> entry.closing)
                   /\ entry'.active = entry.active,
           Called' \/ (~Called /\ row'.until >= row.until)
    PROVE  PoolInv'
    BY CallIs, RefusersAfter, SlotsStay, StepMoves DEF PoolInv, PoolTyped, RowTyped, RestTyped,
        SlotsHeld, Made

(* A call that gives its slot back.                                        *)
LEMMA LeaveMoves ==
    ASSUME PoolBounds, PoolInv, NEW c \in Pool!Calls, NEW x \in CallPlaces, Pool!Leave(c, x),
           UNCHANGED <<row, refused, live, quarantine, notBefore, life, asked, now>>,
           call[c].at # "denied", refusing' = IF x = "denied" THEN refusing + 1 ELSE refusing,
           WriteTyped', EntryRests', RowRests',
           ~Made => entry' = entry,
           Made => /\ entry' \in EntryRecord /\ entry'.at = entry.at
                   /\ entry'.client = entry.client /\ (entry'.closing <=> entry.closing)
                   /\ entry'.active = Pool!Freed(c).active
    PROVE  PoolInv'
<1>1. /\ CallTyped /\ SlotsHeld /\ RowTyped /\ refusing \in Nat /\ now' \in 0..MaxNow
      /\ EntryTyped
    BY DEF PoolInv, PoolTyped, RowTyped, RestTyped
<1>2. /\ CallTyped'
      /\ \A d \in Pool!Calls :
             /\ call'[d].client = call[d].client
             /\ call'[d].at = IF d = c THEN x ELSE call[d].at
             /\ d # c => (call'[d].slot <=> call[d].slot)
      /\ ~call'[c].slot
    BY <1>1, CallIs
<1>3. refusing' = Cardinality(Refusers)' /\ refusing' \in Nat
    BY <1>1, <1>2, RefusersAfter
<1>4. SlotsHeld'
    <2>1. \A d \in Pool!Calls : call'[d].slot =>
              call'[d].at \in {"working", "cooling", "cooled"} /\ call'[d].client # 0
        BY <1>1, <1>2 DEF SlotsHeld
    <2>2. ASSUME Made', NEW s \in Scopes
          PROVE  /\ entry'.active[s] = Cardinality(Holders(entry.client, s))'
                 /\ entry'.active[s] <= IF s = "scan" THEN 1 ELSE MaxConnections
        <3>1. Made /\ entry'.client = entry.client
            BY <2>2 DEF Made
        <3>2. entry'.active[s] =
                IF call[c].slot /\ call[c].client = entry.client /\ s = Pool!Scope(c)
                   /\ entry.active[s] # 0
                THEN entry.active[s] - 1 ELSE entry.active[s]
            BY <1>1, <3>1, EntryFreed
        <3>3. /\ entry.active[s] = Cardinality(Holders(entry.client, s))
              /\ entry.active[s] <= IF s = "scan" THEN 1 ELSE MaxConnections
              /\ entry.active[s] \in Nat
            BY <1>1, <3>1, HoldersFinite DEF SlotsHeld
        <3>4. CASE c \in Holders(entry.client, s)
            <4>1. Holders(entry.client, s)' = Holders(entry.client, s) \ {c}
                BY <1>2, <3>1 DEF Holders, Pool!Scope
            <4>2. /\ Cardinality(Holders(entry.client, s) \ {c}) = Cardinality(Holders(entry.client, s)) - 1
                  /\ Cardinality(Holders(entry.client, s)) # 0
                BY <3>4, HoldersFinite, FS_RemoveElement, FS_EmptySet
            <4>3. call[c].slot /\ call[c].client = entry.client /\ s = Pool!Scope(c)
                BY <3>4 DEF Holders
            <4>4. entry.active[s] - 1 <= IF s = "scan" THEN 1 ELSE MaxConnections
                BY <3>3 DEF PoolBounds
            <4> QED BY <3>2, <3>3, <4>1, <4>2, <4>3, <4>4
        <3>5. CASE c \notin Holders(entry.client, s)
            <4>1. Holders(entry.client, s)' = Holders(entry.client, s)
                BY <1>2, <3>1, <3>5 DEF Holders, Pool!Scope
            <4>2. ~(call[c].slot /\ call[c].client = entry.client /\ s = Pool!Scope(c))
                BY <3>5 DEF Holders
            <4> QED BY <3>2, <3>3, <4>1, <4>2
        <3> QED BY <3>4, <3>5
    <2> QED BY <2>1, <2>2 DEF SlotsHeld
<1>5. RowTyped'
    BY <1>1, <1>3 DEF RowTyped
<1>6. Called' \/ (~Called /\ row'.until >= row.until)
    BY PoolNumbers DEF Called
<1> QED BY <1>1, <1>2, <1>3, <1>4, <1>5, <1>6, StepMoves

(* A call that waits holds nothing, and reads the access again.            *)
LEMMA ReadAccessMoves ==
    ASSUME PoolBounds, PoolInv, NEW c \in Pool!Calls, Pool!ReadAccess(c)
    PROVE  PoolInv'
<1>1. /\ UNCHANGED <<row, refused, refusing, entry, live, quarantine, notBefore, cooldown, life, asked, now>>
      /\ CallTyped /\ SlotsHeld /\ RowTyped /\ WriteTyped /\ now' \in 0..MaxNow
      /\ call[c].at \in {"none", "waiting"} /\ call \in [Pool!Calls -> CallRecord] /\ refused \in BOOLEAN
    BY DEF Pool!ReadAccess, Pool!rowVars, Pool!bound, PoolInv, PoolTyped, RestTyped, CallTyped, RowTyped
<1>2. PICK q \in CallRecord :
         /\ call' = [call EXCEPT ![c] = q]
         /\ q.at = "choosing" /\ ~q.slot
    <2>1. PICK x \in {"choosing"} : x = "choosing"
        OBVIOUS
    <2>2. call' = [call EXCEPT ![c] = [Pool!NoSlot EXCEPT !.at = x, !.saw = refused]]
        BY <2>1 DEF Pool!ReadAccess
    <2>3. /\ [Pool!NoSlot EXCEPT !.at = x, !.saw = refused] \in CallRecord
          /\ [Pool!NoSlot EXCEPT !.at = x, !.saw = refused].at = x
          /\ ~[Pool!NoSlot EXCEPT !.at = x, !.saw = refused].slot
        <3>1. Pool!NoSlot \in CallRecord /\ ~Pool!NoSlot.slot
            BY DEF Pool!NoSlot, CallRecord, CallPlaces, PoolBounds
        <3>2. x \in CallPlaces
            BY DEF CallPlaces
        <3> QED BY <1>1, <3>1, <3>2 DEF CallRecord
    <2> QED BY <2>1, <2>2, <2>3
<1>3. CallTyped' /\ \A d \in Pool!Calls : call'[d] = IF d = c THEN q ELSE call[d]
    BY <1>1, <1>2 DEF CallTyped
<1>4. ~call[c].slot
    BY <1>1 DEF SlotsHeld
<1>5. \A d \in Pool!Calls :
          /\ call'[d].slot <=> call[d].slot
          /\ call[d].slot => call'[d].client = call[d].client
                             /\ call'[d].at \in {"working", "cooling", "cooled"}
    BY <1>1, <1>2, <1>3, <1>4 DEF SlotsHeld
<1>6. SlotsHeld'
    BY <1>1, <1>5, SlotsStay DEF Made
<1>7. \A d \in Pool!Calls : call'[d].at = "denied" <=> call[d].at = "denied"
    BY <1>1, <1>2, <1>3
<1>8. refusing' = Cardinality(Refusers)'
    BY <1>1, <1>7, RefusersStay DEF PoolInv
<1>9. EntryRests' /\ RowRests'
    BY <1>1, RestsStay DEF Staying, Called, Made
<1>10. Called' \/ (~Called /\ row'.until >= row.until)
    BY <1>1, PoolNumbers DEF Called
<1>11. RowTyped' /\ WriteTyped'
    BY <1>1 DEF RowTyped, WriteTyped
<1> QED BY <1>1, <1>3, <1>6, <1>8, <1>9, <1>10, <1>11, EntryStays, StepMoves

(* A slot is taken only below the limit of its scope.                      *)
LEMMA AcquireMoves ==
    ASSUME PoolBounds, PoolInv, NEW c \in Pool!Calls, Pool!Acquire(c)
    PROVE  PoolInv'
<1>1. /\ UNCHANGED <<row, refused, refusing, live, quarantine, notBefore, cooldown, life, asked, now>>
      /\ CallTyped /\ SlotsHeld /\ RowTyped /\ WriteTyped /\ now' \in 0..MaxNow /\ EntryTyped
      /\ call[c].at = "choosing" /\ call \in [Pool!Calls -> CallRecord] /\ row \in RowRecord
    BY DEF Pool!Acquire, Pool!rowVars, Pool!bound, PoolInv, PoolTyped, RestTyped, CallTyped, RowTyped
<1>2. ~call[c].slot
    BY <1>1 DEF SlotsHeld
<1>3. CASE ~Pool!Runnable(c)
    BY <1>3, <1>1, RestsStay, PoolNumbers, <1>2, EntryStays, AtMoves DEF Pool!Acquire, Staying,
        Called, Made, WriteTyped, CallPlaces, RowTyped
<1>4. CASE Pool!Runnable(c)
    <2>1. /\ Made /\ entry \in EntryRecord
          /\ entry.active[Pool!Scope(c)] < IF Pool!Scope(c) = "scan" THEN 1 ELSE entry.limit
        BY <1>1, <1>4 DEF Pool!Runnable, Pool!Open, Pool!Listed, Pool!Limit, Made, EntryTyped
    <2>2. PICK t \in Scopes : t = Pool!Scope(c)
        BY DEF Pool!Scope, Scopes
    <2>3. PICK n \in Nat : n = entry.active[t] + 1
        BY <2>1 DEF EntryRecord
    <2>4. entry' = [entry EXCEPT !.active[t] = n]
        BY <1>4, <2>2, <2>3 DEF Pool!Acquire
    <2>5. /\ entry' \in EntryRecord /\ entry'.at = entry.at /\ entry'.client = entry.client
          /\ (entry'.closing <=> entry.closing) /\ entry'.until = entry.until
          /\ entry'.active = [entry.active EXCEPT ![t] = n]
        BY <2>1, <2>4 DEF EntryRecord
    <2>6. \A s \in Scopes : entry'.active[s] = IF s = t THEN entry.active[s] + 1 ELSE entry.active[s]
        BY <2>1, <2>3, <2>5 DEF EntryRecord
    <2>7. PICK x \in {"working"}, b \in {TRUE}, k \in 1..MaxClients :
             /\ k = entry.client
             /\ call' = [call EXCEPT ![c].at = x, ![c].slot = b, ![c].client = k]
        BY <1>4, <2>1 DEF Pool!Acquire, EntryRecord
    <2>8. /\ CallTyped'
          /\ \A d \in Pool!Calls :
                 /\ d # c => call'[d] = call[d]
                 /\ d = c => call'[d].at = x /\ call'[d].slot /\ call'[d].client = k
        <3>1. x \in CallPlaces /\ k \in 0..MaxClients /\ b \in BOOLEAN
            BY DEF CallPlaces, PoolBounds
        <3>2. call' \in [Pool!Calls -> CallRecord]
            <4>1. PICK q \in CallRecord : q = [call[c] EXCEPT !.at = x, !.slot = b, !.client = k]
                BY <1>1, <3>1 DEF CallRecord
            <4>2. call' = [call EXCEPT ![c] = q]
                BY <1>1, <2>7, <4>1
            <4> QED BY <1>1, <4>1, <4>2
        <3>3. \A d \in Pool!Calls :
                 /\ d # c => call'[d] = call[d]
                 /\ d = c => call'[d].at = x /\ call'[d].slot /\ call'[d].client = k
            BY <1>1, <2>7, <3>1 DEF CallRecord
        <3> QED BY <3>2, <3>3 DEF CallTyped
    <2>9. SlotsHeld'
        <3>1. \A d \in Pool!Calls : call'[d].slot =>
                  call'[d].at \in {"working", "cooling", "cooled"} /\ call'[d].client # 0
            BY <1>1, <2>8 DEF SlotsHeld
        <3>2. ASSUME NEW s \in Scopes
              PROVE  /\ entry'.active[s] = Cardinality(Holders(entry.client, s))'
                     /\ entry'.active[s] <= IF s = "scan" THEN 1 ELSE MaxConnections
            <4>1. /\ entry.active[s] = Cardinality(Holders(entry.client, s))
                  /\ entry.active[s] <= IF s = "scan" THEN 1 ELSE MaxConnections
                  /\ entry.active[s] \in Nat
                BY <1>1, <2>1, HoldersFinite DEF SlotsHeld
            <4>2. CASE s = t
                <5>1. Holders(entry.client, s)' = Holders(entry.client, s) \cup {c}
                    BY <1>1, <2>2, <2>5, <2>7, <2>8, <4>2 DEF Holders, Pool!Scope
                <5>2. c \notin Holders(entry.client, s)
                    BY <1>2 DEF Holders
                <5>3. Cardinality(Holders(entry.client, s) \cup {c}) = Cardinality(Holders(entry.client, s)) + 1
                    BY <5>2, HoldersFinite, FS_AddElement
                <5>4. entry.active[s] + 1 <= IF s = "scan" THEN 1 ELSE MaxConnections
                    BY <2>1, <2>2, <4>1, <4>2 DEF EntryRecord, PoolBounds
                <5> QED BY <2>6, <4>1, <4>2, <5>1, <5>3, <5>4
            <4>3. CASE s # t
                <5>1. Holders(entry.client, s)' = Holders(entry.client, s)
                    BY <1>1, <1>2, <2>2, <2>5, <2>8, <4>3 DEF Holders, Pool!Scope
                <5> QED BY <2>6, <4>1, <4>3, <5>1
            <4> QED BY <4>2, <4>3
        <3> QED BY <3>1, <3>2 DEF SlotsHeld
    <2>10. refusing' = Cardinality(Refusers)'
        BY <1>1, <2>7, <2>8, RefusersStay DEF PoolInv
    <2>11. EntryRests' /\ RowRests'
        BY <1>1, <2>1, <2>5, RestsStay DEF Staying, Called, Made
    <2>12. Called' \/ (~Called /\ row'.until >= row.until)
        BY <1>1, PoolNumbers DEF Called
    <2>13. RowTyped' /\ WriteTyped'
        BY <1>1 DEF RowTyped, WriteTyped
    <2> QED BY <1>1, <2>1, <2>5, <2>8, <2>9, <2>10, <2>11, <2>12, <2>13, StepMoves
<1> QED BY <1>3, <1>4

(* What a call writes into the row.                                        *)
LEMMA RecordedMoves ==
    ASSUME PoolBounds, PoolInv, NEW c \in Pool!Calls,
           Pool!RecordFailure(c) \/ Pool!RecordDenied(c) \/ Pool!RecordExpired(c)
    PROVE  PoolInv'
<1>1. /\ UNCHANGED <<entry, live, quarantine, notBefore, cooldown, life, now>>
      /\ CallTyped /\ SlotsHeld /\ RowTyped /\ WriteTyped /\ row \in RowRecord
      /\ call[c].at \in {"failing", "denied", "expired"}
      /\ refusing' = IF call[c].at = "denied" THEN refusing - 1 ELSE refusing
      /\ refused' \in BOOLEAN
    BY DEF Pool!RecordFailure, Pool!RecordDenied, Pool!RecordExpired, Pool!Trouble, Pool!bound, PoolInv,
       PoolTyped, RowTyped
<1>2. PICK x \in {"waiting", "done"} : Pool!At(c, x)
    BY DEF Pool!RecordFailure, Pool!RecordDenied, Pool!RecordExpired
<1>3. ~call[c].slot /\ x \in CallPlaces /\ WriteTyped'
    BY <1>1 DEF SlotsHeld, CallPlaces, WriteTyped
<1>4. /\ row' \in RowRecord /\ row'.state = row.state /\ (row'.state = "gone" => row'.until = 0)
      /\ row'.until = row.until \/ row'.until = 0
      /\ Called' \/ (row'.until = row.until /\ (Called' <=> Called))
    BY <1>1, RowMarked DEF Pool!RecordFailure, Called, RowTyped, Pool!RecordDenied,
        Pool!RecordExpired
<1>5. RowRests'
    BY <1>1, <1>4 DEF PoolInv, RowRests, Pool!Unwritten
<1>6. EntryRests'
    BY <1>1, <1>4 DEF PoolInv, EntryRests, Staying, Made, Pool!Unwritten
<1>7. Called' \/ (~Called /\ row'.until >= row.until)
    BY <1>4, PoolNumbers
<1> QED BY <1>1, <1>2, <1>3, <1>4, <1>5, <1>6, <1>7, EntryStays, AtMoves

LEMMA CooldownNotedMoves ==
    ASSUME PoolBounds, PoolInv, NEW c \in Pool!Calls, Pool!CooldownNoted(c)
    PROVE  PoolInv'
    BY RestsStay, PoolNumbers, EntryStays, AtMoves DEF Pool!CooldownNoted, Pool!rowVars, Pool!bound,
        PoolInv, PoolTyped, RowTyped, SlotsHeld, CallPlaces, WriteTyped, Staying, Called, Made

LEMMA ExhaustedMoves ==
    ASSUME PoolBounds, PoolInv, NEW c \in Pool!Calls, Pool!Exhausted(c)
    PROVE  PoolInv'
<1>1. /\ UNCHANGED <<row, refused, refusing, live, quarantine, notBefore, life, asked, now>>
      /\ RowTyped /\ row \in RowRecord /\ refused \in BOOLEAN /\ EntryTyped
      /\ call[c].at = "working" /\ Pool!At(c, "cooling") /\ Pool!Until(1) \in Ends
    BY UntilIs DEF Pool!Exhausted, Pool!rowVars, Pool!Trouble, PoolInv, PoolTyped, RowTyped
<1>2. PICK x \in {"cooling"} : Pool!At(c, x)
    BY <1>1
<1>3. /\ ~Made => entry' = entry
      /\ Made => /\ entry' \in EntryRecord /\ entry'.at = entry.at
                 /\ entry'.client = entry.client /\ (entry'.closing <=> entry.closing)
                 /\ entry'.active = entry.active
      /\ \E u \in Ends : cooldown' = Pool!Noted(u) /\ (Staying' => entry'.until = entry.until \/ entry'.until <= u)
    <2>1. CASE ~Pool!Listed
        BY <2>1, <1>1, EntryStays DEF Pool!Exhausted
    <2>2. CASE Pool!Listed
        <3>1. Made /\ entry \in EntryRecord
            BY <1>1, <2>2 DEF Pool!Listed, Made, EntryTyped
        <3>2. PICK h \in {FALSE} : entry' = Pool!Cooled(entry, Pool!Until(1), h)
            BY <2>2 DEF Pool!Exhausted
        <3>3. h \in BOOLEAN
            OBVIOUS
        <3>4. /\ entry' \in EntryRecord /\ entry'.at = entry.at
              /\ entry'.client = entry.client /\ (entry'.closing <=> entry.closing)
              /\ entry'.active = entry.active
            BY <1>1, <3>1, <3>2, <3>3, CooledIs
        <3>5. entry'.until \in Ends /\ entry'.until <= entry'.until
            BY <3>4 DEF EntryRecord, Ends
        <3>6. cooldown' = Pool!Noted(entry'.until)
            BY <2>2 DEF Pool!Exhausted
        <3> QED BY <3>1, <3>4, <3>5, <3>6
    <2> QED BY <2>1, <2>2
<1>4. PICK u \in Ends : cooldown' = Pool!Noted(u)
                        /\ (Staying' => entry'.until = entry.until \/ entry'.until <= u)
    BY <1>3
<1>5. Staying' => Staying /\ entry'.until \in Ends
    BY <1>1, <1>3 DEF Staying, Called, Made, EntryRecord
<1>6. WriteTyped' /\ EntryRests' /\ RowRests'
    BY <1>1, <1>4, <1>5, NotedRests
<1>7. row' \in RowRecord /\ refused' \in BOOLEAN /\ (row'.state = "gone" => row'.until = 0)
    BY <1>1 DEF RowTyped
<1>8. Called' \/ (~Called /\ row'.until >= row.until)
    BY <1>1, PoolNumbers DEF Called
<1>9. x \in CallPlaces
    BY DEF CallPlaces
<1> QED BY <1>1, <1>2, <1>3, <1>6, <1>7, <1>8, <1>9, AtMoves

(* The calls that end, with what they say of the client.                   *)
LEMMA EndedMoves ==
    ASSUME PoolBounds, PoolInv, NEW c \in Pool!Calls,
           Pool!Finish(c) \/ Pool!Transient(c) \/ Pool!Denied(c) \/ Pool!SessionExpired(c)
    PROVE  PoolInv'
    BY EntryFreed, RestsStay, LeaveMoves DEF Pool!Finish, Pool!Transient, Pool!Denied,
        Pool!SessionExpired, Pool!rowVars, Pool!bound, Pool!Trouble, PoolInv, PoolTyped,
        Pool!Listed, Made, Healths, EntryRecord, Staying, Called, WriteTyped, CallPlaces

LEMMA FloodWaitMoves ==
    ASSUME PoolBounds, PoolInv, NEW c \in Pool!Calls, Pool!FloodWait(c)
    PROVE  PoolInv'
<1>1. /\ UNCHANGED <<row, refused, refusing, live, quarantine, notBefore, life, asked, now>>
      /\ EntryTyped /\ SlotsHeld /\ CallTyped
      /\ call[c].at = "working" /\ Pool!Leave(c, "resting") /\ Pool!Until(1) \in Ends
    BY UntilIs DEF Pool!FloodWait, Pool!rowVars, Pool!Trouble, PoolInv, PoolTyped
<1>2. PICK x \in {"resting"} : Pool!Leave(c, x)
    BY <1>1
<1>3. \/ ~Pool!Listed /\ entry' = Pool!Freed(c) /\ cooldown' = Pool!Noted(Pool!Until(1))
      \/ /\ Pool!Listed /\ cooldown' = Pool!Noted(entry'.until)
         /\ \/ entry' = Pool!Freed(c)
            \/ \E h \in {FALSE} : entry' = Pool!Cooled(Pool!Freed(c), Pool!Until(1), h)
    BY DEF Pool!FloodWait
<1>4. /\ ~Made => entry' = entry
      /\ Made => /\ entry' \in EntryRecord /\ entry'.at = entry.at
                 /\ entry'.client = entry.client /\ (entry'.closing <=> entry.closing)
                 /\ entry'.active = Pool!Freed(c).active
                 /\ Pool!Listed \/ entry'.until = entry.until
    <2>1. CASE ~Made
        BY <1>1, <1>3, <2>1, EntryFreed DEF Pool!Listed, Made
    <2>2. CASE Made
        <3>1. PICK g \in EntryRecord :
                 /\ g = Pool!Freed(c) /\ g.at = entry.at /\ g.client = entry.client
                 /\ (g.closing <=> entry.closing) /\ g.until = entry.until
            BY <1>1, <2>2, EntryFreed
        <3>2. entry' = g \/ (Pool!Listed /\ \E h \in {FALSE} : entry' = Pool!Cooled(g, Pool!Until(1), h))
            BY <1>3, <3>1
        <3>3. /\ entry' \in EntryRecord /\ entry'.at = g.at
              /\ entry'.client = g.client /\ (entry'.closing <=> g.closing)
              /\ entry'.active = g.active /\ (Pool!Listed \/ entry'.until = g.until)
            <4>1. CASE entry' = g
                BY <4>1
            <4>2. ASSUME Pool!Listed, NEW h \in BOOLEAN, entry' = Pool!Cooled(g, Pool!Until(1), h)
                  PROVE  <3>3!:
                BY <1>1, <4>2, CooledIs
            <4> QED BY <3>2, <4>1, <4>2
        <3> QED BY <2>2, <3>1, <3>3
    <2> QED BY <2>1, <2>2
<1>5. Staying' => Staying /\ entry'.until \in Ends
    BY <1>1, <1>4 DEF Staying, Called, Made, EntryRecord
<1>6. \E u \in Ends : cooldown' = Pool!Noted(u)
                      /\ (Staying' => entry'.until = entry.until \/ entry'.until <= u)
    <2>1. CASE ~Pool!Listed
        BY <1>1, <1>3, <1>4, <1>5, <2>1 DEF Staying
    <2>2. CASE Pool!Listed
        BY <2>2, <1>4, <1>3 DEF Pool!Listed, Made, EntryRecord, Ends
    <2> QED BY <2>1, <2>2
<1>7. PICK u \in Ends : cooldown' = Pool!Noted(u)
                        /\ (Staying' => entry'.until = entry.until \/ entry'.until <= u)
    BY <1>6
<1>8. WriteTyped' /\ EntryRests' /\ RowRests'
    BY <1>1, <1>5, <1>7, NotedRests
<1>9. x \in CallPlaces /\ x # "denied" /\ call[c].at # "denied"
    BY <1>1 DEF CallPlaces
<1> QED BY <1>1, <1>2, <1>4, <1>8, <1>9, LeaveMoves

LEMMA PoolStarts ==
    ASSUME PoolBounds, Pool!Init
    PROVE  PoolInv
<1>1. /\ row = [state |-> "on", health |-> "healthy", until |-> 0] /\ refused = FALSE /\ refusing = 0
      /\ entry = Pool!NoEntry /\ live = {} /\ quarantine = 0 /\ notBefore = 0
      /\ cooldown = Pool!NoWrite /\ life = Pool!NoLife /\ asked = {}
      /\ call = [c \in Pool!Calls |-> Pool!NoSlot] /\ now = 0
    BY DEF Pool!Init
<1>2. 0 \in Ends /\ 0 \in 0..MaxClients /\ 0 \in 0..MaxNow
    BY DEF Ends, PoolBounds
<1>3. ~Made /\ entry.at = "none"
    BY <1>1 DEF Made, Pool!NoEntry
<1>4. RowTyped
    BY <1>1, <1>2 DEF RowTyped, RowRecord, Healths
<1>5. WriteTyped
    BY <1>1, <1>2 DEF WriteTyped, WriteRecord, Pool!NoWrite
<1>6. Pool!NoSlot \in CallRecord /\ ~Pool!NoSlot.slot /\ Pool!NoSlot.at = "none"
    BY <1>2 DEF Pool!NoSlot, CallRecord, CallPlaces
<1>7. CallTyped /\ \A c \in Pool!Calls : call[c] = Pool!NoSlot
    BY <1>1, <1>6 DEF CallTyped
<1>8. PoolTyped
    BY <1>1, <1>2, <1>3, <1>4, <1>5, <1>7, LifeEnds DEF PoolTyped, EntryTyped, RestTyped
<1>9. StepsKnown /\ ClientPlaced /\ SnapKnown /\ EntryRests
    BY <1>1, <1>3, LifeEnds DEF StepsKnown, Snapped, ClientPlaced, SnapKnown, EntryRests, Staying
<1>10. SlotsHeld
    BY <1>3, <1>6, <1>7 DEF SlotsHeld
<1>11. refusing = Cardinality(Refusers)
    BY <1>6, <1>7, <1>1, FS_EmptySet DEF Refusers
<1>12. RowRests
    BY <1>1 DEF RowRests, Pool!NoWrite
<1> QED BY <1>8, <1>9, <1>10, <1>11, <1>12 DEF PoolInv

LEMMA PoolMoves ==
    ASSUME PoolBounds, PoolInv, [Pool!Next]_(Pool!vars)
    PROVE  PoolInv'
<1>1. CASE Pool!Life
    BY <1>1, InitializeMoves, UpdateMoves, BeginExpireMoves, CloseMoves, DrainMoves, AskMoves,
       DeleteRowMoves, ReadRowMoves, ConnectMakes, ConnectedMoves, RecordMoves, ListMoves,
       PoolConnectFails, DiscardMoves, NoteMoves, NoteEnds DEF Pool!Life
<1>2. CASE Pool!Ask
    BY <1>2, AskMoves
<1>3. CASE Pool!Written \/ Pool!WriteFails \/ Pool!ReadsWell \/ Pool!WorkerExits
    BY <1>3, WrittenMoves, WriteFailsMoves, WorkerMoves
<1>4. ASSUME NEW n \in {1, 2}, Pool!Flooded(n)
      PROVE  PoolInv'
    BY <1>4, FloodedMoves
<1>5. ASSUME NEW c \in Pool!Calls, Pool!Call(c)
      PROVE  PoolInv'
    BY <1>5, ReadAccessMoves, AcquireMoves, RecordedMoves, CooldownNotedMoves, ExhaustedMoves,
       EndedMoves, FloodWaitMoves DEF Pool!Call
<1>6. CASE Pool!Login \/ Pool!Enable \/ Pool!Disable \/ Pool!Delete \/ Pool!Tick
    BY <1>6, UserMoves
<1>7. CASE UNCHANGED Pool!vars
    BY <1>7, CallsStay, RestsStay DEF Pool!vars, PoolInv, PoolTyped, RowTyped, EntryTyped,
        WriteTyped, CallTyped, RestTyped, Made, StepsKnown, Snapped, ClientPlaced, SnapKnown,
        Called, Staying
<1> QED BY <1>1, <1>2, <1>3, <1>4, <1>5, <1>6, <1>7 DEF Pool!Next

(* The pool counts as this module does.                                    *)
LEMMA PoolCounts ==
    ASSUME NEW S
    PROVE  Pool!Cardinality(S) = Cardinality(S)
BY Zenon DEF Pool!Cardinality, Cardinality

(* There is one client, which belongs to the entry or the quarantine.      *)
LEMMA OneIsKept ==
    ASSUME PoolInv
    PROVE  Pool!OneClient
<1>1. ClientPlaced
    BY DEF PoolInv
<1>2. CASE Made
    <2>1. quarantine = 0 /\ live = {entry.client}
        BY <1>1, <1>2 DEF ClientPlaced
    <2>2. {quarantine : x \in {q \in {quarantine} : q # 0}} = {}
        BY <2>1
    <2>3. {entry.client : x \in {e \in {entry} : e.at # "none"}} = {entry.client}
        BY <1>2 DEF Made
    <2>4. Cardinality(live) = 1
        BY <2>1, FS_Singleton
    <2> QED BY <2>1, <2>2, <2>3, <2>4, PoolCounts DEF Pool!OneClient
<1>3. CASE ~Made
    <2>1. {entry.client : x \in {e \in {entry} : e.at # "none"}} = {}
        BY <1>3 DEF Made
    <2>2. CASE quarantine = 0
        BY <1>1, <1>3, <2>2, FS_EmptySet, <2>1, PoolCounts DEF ClientPlaced, Pool!OneClient
    <2>3. CASE quarantine # 0
        <3>1. live = {quarantine} /\ {quarantine : x \in {q \in {quarantine} : q # 0}} = {quarantine}
            BY <1>1, <1>3, <2>3 DEF ClientPlaced
        <3>2. Cardinality(live) = 1
            BY <3>1, FS_Singleton
        <3> QED BY <2>1, <3>1, <3>2, PoolCounts DEF Pool!OneClient
    <2> QED BY <2>2, <2>3
<1> QED BY <1>2, <1>3

LEMMA SlotsAreCounted ==
    ASSUME PoolInv
    PROVE  Pool!SlotsCounted
    BY PoolCounts DEF Pool!SlotsCounted, Pool!Listed, Made, PoolInv, SlotsHeld, Scopes, Holders

LEMMA RestsAreKept ==
    ASSUME PoolInv
    PROVE  Pool!CooldownSurvives
    BY DEF Pool!CooldownSurvives, Called, Staying, Made, Pool!Listed, PoolInv, EntryRests

LEMMA TypesAreKept ==
    ASSUME PoolBounds, PoolInv
    PROVE  Pool!TypeOK
    BY HoldersFinite, FS_CardinalityType, PoolCounts DEF PoolInv, PoolTyped, RowTyped, RowRecord,
        Healths, Ends, PoolBounds, EntryTyped, EntryRecord, Pool!NoEntry, Made, RestTyped,
        ClientPlaced, WriteTyped, SlotsHeld, Pool!TypeOK

(* In every execution the variables of the pool keep their types, and with *)
(* them PoolKept: an account never has two clients, and the one it has     *)
(* belongs to the entry or to the quarantine; the slots an entry counts    *)
(* are those that calls hold, and never more than the row allows; and a    *)
(* cooldown that was noted outlasts a restart, unless the session expired. *)
THEOREM PoolTheorem ==
    ASSUME PoolBounds
    PROVE  Pool!Spec => [](Pool!TypeOK /\ Pool!PoolKept)
<1>1. Pool!Init => PoolInv
    BY PoolStarts
<1>2. PoolInv /\ [Pool!Next]_(Pool!vars) => PoolInv'
    BY PoolMoves
<1>3. PoolInv => Pool!TypeOK /\ Pool!PoolKept
    BY OneIsKept, SlotsAreCounted, RestsAreKept, TypesAreKept DEF Pool!PoolKept
<1> QED BY <1>1, <1>2, <1>3, PTL DEF Pool!Spec

-----------------------------------------------------------------------------
(* The sender of a user account, whose connections replace each other: what*)
(* a request was entered for, sent and answered, and the slots of the gate.*)

(* There is room for a read at least, and the bounds are numbers.          *)
TransportBounds ==
    /\ IsFiniteSet(Transport!Requests) /\ MaxFragments \in Nat \ {0}
    /\ MaxReplays \in Nat /\ MaxConnections \in Nat

Positions == {"none", "gate", "joined", "repairing", "ready", "waiting", "answered",
              "failing", "done", "failed"}
Errors == {"none", "lost", "timeout", "server", "other", "abort", "closed", "flood"}
ReadRecord ==
    [at : Positions, error : Errors, slot : BOOLEAN, gen : Nat, saw : Nat, replays : Nat,
     recovered : BOOLEAN, episode : Nat]
LoopRecord == [gen : Nat, batch : SUBSET Transport!Requests]

WireTyped ==
    /\ flight \in [at : {"none", "stop", "try", "open"}, attempt : Nat]
    /\ open \subseteq 1..MaxConnections /\ made \in 0..MaxConnections
    /\ queue \subseteq Transport!Requests /\ pending \subseteq Transport!Requests
    /\ sent \in [Transport!Requests -> Nat]
    /\ loop = {} \/ \E l \in LoopRecord : loop = {l}

CountsTyped ==
    /\ generation \in Nat /\ episode \in Nat /\ responses \in Nat
    /\ limit \in 1..MaxFragments /\ active \in 0..MaxFragments

TransportTyped ==
    /\ request \in [Transport!Requests -> ReadRecord]
    /\ WireTyped /\ CountsTyped

(* How often a request was or may still be sent, and how often it was      *)
(* entered.  A request that timed out in a batch and was entered again is  *)
(* in the batch and in the queue.                                          *)
Entry == {"waiting", "answered", "failing", "done", "failed"}
Slotless == {"none", "gate", "repairing", "done", "failed"}
OneIf(P) == IF P THEN 1 ELSE 0
InBatch(k) == \E l \in loop : k \in l.batch
Weight(k) == sent[k] + OneIf(k \in queue) + OneIf(InBatch(k))
Entered(k) == request[k].replays + OneIf(request[k].at \in Entry)

RequestsKnown ==
    \A k \in Transport!Requests :
        /\ request[k].replays <= (IF k \in Files THEN MaxReplays ELSE 0)
        /\ request[k].at \in Slotless => ~request[k].slot
        /\ Weight(k) <= Entered(k)
        /\ k \in pending => request[k].at = "waiting" /\ sent[k] # 0

OwnerKnown ==
    /\ open = {} \/ \E n \in 1..MaxConnections : open = {n}
    /\ flight.at = "try" => open = {}
    /\ up => ~closed
    /\ closing # "none" => terminal /\ closed
    /\ closing = "closed" => open = {} /\ Transport!Quiet

TransportInv == TransportTyped /\ RequestsKnown /\ OwnerKnown /\ Transport!SlotsHeld

(* What a step does to a request ...                                       *)
Simple(k) ==
    /\ request'[k].slot <=> request[k].slot
    /\ request'[k].replays = request[k].replays
    /\ request[k].at \in Entry => request'[k].at \in Entry
    /\ request'[k].at \in Slotless => request[k].at \in Slotless

Takes(k) ==
    /\ request[k].at = "gate" /\ request'[k].at \in {"ready", "joined", "failing"}
    /\ request'[k].slot <=> k \in Files
    /\ request'[k].replays = request[k].replays
    /\ k \in Files => active < limit
    /\ active' = active + OneIf(k \in Files)

Frees(k) ==
    /\ request[k].at \in {"answered", "failing"} /\ ~request'[k].slot
    /\ active' = active - OneIf(request[k].slot)
    /\ \/ /\ request'[k].replays = request[k].replays /\ request'[k].at \in {"done", "failed"}
       \/ /\ k \in Files /\ request[k].replays < MaxReplays
          /\ request'[k].replays = request[k].replays + 1
          /\ request'[k].at \in {"gate", "repairing", "failing"}

RequestsMove ==
    /\ request' \in [Transport!Requests -> ReadRecord]
    /\ \/ active' = active /\ \A k \in Transport!Requests : Simple(k)
       \/ \E r \in Transport!Requests :
              /\ \A k \in Transport!Requests \ {r} : Simple(k)
              /\ Takes(r) \/ Frees(r)

(* ... and to what is queued, packed and sent.                             *)
Queues(k) ==
    \/ Weight(k)' <= Weight(k)
    \/ /\ request[k].at = "ready" /\ request'[k].at = "waiting"
       /\ Weight(k)' <= Weight(k) + 1

Pends(k) ==
    k \in pending' =>
        \/ k \in pending /\ request'[k].at = request[k].at /\ sent'[k] = sent[k]
        \/ /\ request[k].at = "waiting" /\ request'[k].at = "waiting"
           /\ sent'[k] # 0

WireMove ==
    /\ WireTyped'
    /\ \A k \in Transport!Requests : Queues(k) /\ Pends(k)

Turned(q, a) == [q EXCEPT !.at = a]
Broken(q, e) == [q EXCEPT !.at = "failing", !.error = e]

LEMMA Read ==
    ASSUME NEW q \in ReadRecord, NEW a \in Positions, NEW e \in Errors
    PROVE  /\ Turned(q, a) \in ReadRecord /\ Turned(q, a).at = a
           /\ Turned(q, a).slot = q.slot /\ Turned(q, a).replays = q.replays
           /\ Broken(q, e) \in ReadRecord /\ Broken(q, e).at = "failing"
           /\ Broken(q, e).slot = q.slot /\ Broken(q, e).replays = q.replays
BY DEF ReadRecord, Positions, Turned, Broken

(* A request is admitted at the gate, gives its slot back, and is counted  *)
(* as one that is sent again.                                              *)
Admitted(q, b, e) == [q EXCEPT !.slot = b, !.episode = e]
Slotted(q) == [q EXCEPT !.slot = FALSE]
Counted(q) == [q EXCEPT !.replays = @ + 1]
Repaired(q) == [q EXCEPT !.recovered = TRUE]

LEMMA ReadSlots ==
    ASSUME NEW q \in ReadRecord, NEW b \in BOOLEAN, NEW e \in Nat
    PROVE  /\ Admitted(q, b, e) \in ReadRecord /\ Admitted(q, b, e).at = q.at
           /\ (Admitted(q, b, e).slot <=> b) /\ Admitted(q, b, e).replays = q.replays
           /\ Slotted(q) \in ReadRecord /\ Slotted(q).at = q.at /\ ~Slotted(q).slot
           /\ Slotted(q).replays = q.replays
    BY DEF ReadRecord, Admitted, Slotted

LEMMA ReadCounts ==
    ASSUME NEW q \in ReadRecord, ~q.slot
    PROVE  /\ Counted(q) \in ReadRecord /\ ~Counted(q).slot
           /\ Counted(q).replays = q.replays + 1
           /\ Repaired(q) \in ReadRecord /\ ~Repaired(q).slot
           /\ Repaired(q).at = q.at /\ Repaired(q).replays = q.replays
<1>1. /\ Counted(q) \in ReadRecord /\ ~Counted(q).slot
      /\ Counted(q).replays = q.replays + 1
    BY DEF ReadRecord, Counted
<1>2. /\ Repaired(q) \in ReadRecord /\ ~Repaired(q).slot
      /\ Repaired(q).at = q.at /\ Repaired(q).replays = q.replays
    BY DEF ReadRecord, Repaired
<1> QED BY <1>1, <1>2

LEMMA ReadParts ==
    ASSUME TransportTyped, NEW k \in Transport!Requests
    PROVE  /\ request[k] \in ReadRecord /\ request[k].at \in Positions
           /\ request[k].slot \in BOOLEAN /\ request[k].replays \in Nat
BY DEF TransportTyped, ReadRecord

(* rejectStates                                                            *)
LEMMA RejectKeeps ==
    ASSUME NEW old \in [Transport!Requests -> ReadRecord], NEW e \in Errors
    PROVE  /\ Transport!Rejected(old, e) \in [Transport!Requests -> ReadRecord]
           /\ \A k \in Transport!Requests :
                 /\ Transport!Rejected(old, e)[k].slot = old[k].slot
                 /\ Transport!Rejected(old, e)[k].replays = old[k].replays
                 /\ Transport!Rejected(old, e)[k].at =
                        IF old[k].at = "waiting" THEN "failing" ELSE old[k].at
<1> DEFINE new == Transport!Rejected(old, e)
<1>1. new = [k \in Transport!Requests |-> IF old[k].at = "waiting"
                 THEN [old[k] EXCEPT !.at = "failing", !.error = e] ELSE old[k]]
    BY DEF Transport!Rejected
<1> HIDE DEF new
<1>2. ASSUME NEW k \in Transport!Requests
      PROVE  /\ new[k] \in ReadRecord /\ new[k].slot = old[k].slot
             /\ new[k].replays = old[k].replays
             /\ new[k].at = IF old[k].at = "waiting" THEN "failing" ELSE old[k].at
    <2>1. "failing" \in Positions /\ old[k] \in ReadRecord
        BY DEF Positions
    <2>2. CASE old[k].at = "waiting"
        <3>1. new[k] = Broken(old[k], e)
            BY <1>1, <2>2 DEF Broken
        <3>2. /\ Broken(old[k], e) \in ReadRecord /\ Broken(old[k], e).at = "failing"
              /\ Broken(old[k], e).slot = old[k].slot
              /\ Broken(old[k], e).replays = old[k].replays
            BY <2>1, Read
        <3> QED BY <2>2, <3>1, <3>2
    <2>3. CASE old[k].at # "waiting"
        BY <1>1, <2>3, <2>1
    <2> QED BY <2>2, <2>3
<1>3. new \in [Transport!Requests -> ReadRecord]
    BY <1>1, <1>2
<1> QED BY <1>2, <1>3 DEF new

LEMMA RejectSimple ==
    ASSUME TransportTyped, NEW e \in Errors, request' = Transport!Rejected(request, e)
    PROVE  /\ request' \in [Transport!Requests -> ReadRecord]
           /\ \A k \in Transport!Requests : Simple(k)
    BY RejectKeeps DEF TransportTyped, Simple, Entry, Slotless

LEMMA UnchangedSimple ==
    ASSUME TransportTyped, request' = request
    PROVE  /\ request' \in [Transport!Requests -> ReadRecord]
           /\ \A k \in Transport!Requests : Simple(k)
BY DEF TransportTyped, Simple

(* One request moves, the others stay.                                     *)
LEMMA OneMoves ==
    ASSUME TransportTyped, NEW r \in Transport!Requests, NEW q \in ReadRecord,
           request' = [request EXCEPT ![r] = q]
    PROVE  /\ request' \in [Transport!Requests -> ReadRecord]
           /\ request'[r] = q
           /\ \A k \in Transport!Requests \ {r} : request'[k] = request[k] /\ Simple(k)
BY DEF TransportTyped, Simple

LEMMA OneSimple ==
    ASSUME TransportTyped, NEW r \in Transport!Requests, NEW q \in ReadRecord,
           request' = [request EXCEPT ![r] = q],
           q.slot = request[r].slot, q.replays = request[r].replays,
           request[r].at \in Entry => q.at \in Entry,
           q.at \in Slotless => request[r].at \in Slotless
    PROVE  /\ request' \in [Transport!Requests -> ReadRecord]
           /\ \A k \in Transport!Requests : Simple(k)
    BY OneMoves DEF Simple

(* Fails                                                                   *)
LEMMA FailSimple ==
    ASSUME TransportTyped, NEW r \in Transport!Requests, NEW e \in Errors,
           request[r].at \notin {"done", "failed"}, Transport!Fails(r, e)
    PROVE  /\ request' \in [Transport!Requests -> ReadRecord]
           /\ \A k \in Transport!Requests : Simple(k)
           /\ request'[r].at = "failing"
           /\ \A k \in Transport!Requests \ {r} : request'[k] = request[k]
<1>1. "failing" \in Positions /\ request[r] \in ReadRecord
    BY ReadParts DEF Positions
<1> DEFINE q == Broken(request[r], e)
<1>2. /\ q \in ReadRecord /\ q.at = "failing" /\ q.slot = request[r].slot
      /\ q.replays = request[r].replays
    BY <1>1, Read
<1>3. request' = [request EXCEPT ![r] = q]
    BY DEF Transport!Fails, TransportTyped, Broken
<1> HIDE DEF q
<1>4. (request[r].at \in Entry => q.at \in Entry) /\ (q.at \in Slotless => request[r].at \in Slotless)
    BY <1>2 DEF Entry, Slotless
<1> QED BY <1>2, <1>3, <1>4, OneSimple, OneMoves

(* A request turns to another step.                                        *)
LEMMA TurnSimple ==
    ASSUME TransportTyped, NEW r \in Transport!Requests, NEW a \in Positions,
           request' = [request EXCEPT ![r].at = a],
           request[r].at \in Entry => a \in Entry,
           a \in Slotless => request[r].at \in Slotless
    PROVE  /\ request' \in [Transport!Requests -> ReadRecord]
           /\ \A k \in Transport!Requests : Simple(k)
           /\ request'[r].at = a
           /\ \A k \in Transport!Requests \ {r} : request'[k] = request[k]
<1>1. request[r] \in ReadRecord /\ "none" \in Errors
    BY ReadParts DEF Errors
<1> DEFINE q == Turned(request[r], a)
<1>2. /\ q \in ReadRecord /\ q.at = a /\ q.slot = request[r].slot
      /\ q.replays = request[r].replays
    BY <1>1, Read
<1>3. request' = [request EXCEPT ![r] = q]
    BY DEF TransportTyped, Turned
<1> HIDE DEF q
<1> QED BY <1>2, <1>3, OneSimple, OneMoves

-----------------------------------------------------------------------------
(* The requests.                                                           *)

LEMMA ConnectionRequests ==
    ASSUME TransportTyped, RequestsKnown, Transport!Connection
    PROVE  RequestsMove
<1>1. CASE Transport!Stopped \/ Transport!Try \/ Transport!Retryable
    BY <1>1, UnchangedSimple DEF Transport!Stopped, Transport!Try, Transport!Retryable,
        Transport!states, Transport!gate, RequestsMove
<1>2. CASE Transport!OpenFails \/ Transport!ConnectionLost \/ Transport!BadAuthKey
    BY <1>2, RejectSimple DEF Transport!OpenFails, Transport!ConnectionLost, Transport!BadAuthKey,
        Transport!Launched, Transport!gate, Errors, RequestsMove
<1>3. CASE Transport!Opened
    <2> DEFINE to == [joined |-> "ready", repairing |-> "gate"]
    <2>1. /\ request' = [k \in Transport!Requests |->
                 IF request[k].at \in {"joined", "repairing"}
                 THEN [request[k] EXCEPT !.at = to[request[k].at]] ELSE request[k]]
          /\ active' = active
        BY <1>3 DEF Transport!Opened, Transport!Settled, Transport!gate
    <2>2. ASSUME NEW k \in Transport!Requests PROVE request'[k] \in ReadRecord /\ Simple(k)
        <3>1. request[k] \in ReadRecord /\ "none" \in Errors
            BY ReadParts DEF Errors
        <3>2. CASE request[k].at = "joined"
            <4>1. request'[k] = Turned(request[k], "ready") /\ "ready" \in Positions
                BY <2>1, <3>2 DEF Positions, Turned
            <4> QED BY <3>1, <3>2, <4>1, Read DEF Simple, Entry, Slotless
        <3>3. CASE request[k].at = "repairing"
            <4>1. request'[k] = Turned(request[k], "gate") /\ "gate" \in Positions
                BY <2>1, <3>3 DEF Positions, Turned
            <4> QED BY <3>1, <3>3, <4>1, Read DEF Simple, Entry, Slotless
        <3>4. CASE request[k].at \notin {"joined", "repairing"}
            BY <2>1, <3>1, <3>4 DEF Simple
        <3> QED BY <3>2, <3>3, <3>4
    <2>3. request' \in [Transport!Requests -> ReadRecord]
        BY <2>1, <2>2
    <2> QED BY <2>1, <2>2, <2>3 DEF RequestsMove
<1>4. CASE Transport!GivesUp
    <2>1. /\ request' = [k \in Transport!Requests |->
                 IF request[k].at \in {"joined", "repairing"}
                 THEN [request[k] EXCEPT !.at = "failing", !.error = "other"]
                 ELSE Transport!Rejected(request, "lost")[k]]
          /\ active' = active
        BY <1>4 DEF Transport!GivesUp, Transport!gate
    <2>2. "other" \in Errors /\ "lost" \in Errors /\ "failing" \in Positions
          /\ request \in [Transport!Requests -> ReadRecord]
        BY DEF Errors, Positions, TransportTyped
    <2>3. ASSUME NEW k \in Transport!Requests PROVE request'[k] \in ReadRecord /\ Simple(k)
        <3>1. CASE request[k].at \in {"joined", "repairing"}
            <4>1. request'[k] = Broken(request[k], "other")
                BY <2>1, <3>1 DEF Broken
            <4>2. request[k] \in ReadRecord
                BY <2>2
            <4> QED BY <2>2, <3>1, <4>1, <4>2, Read DEF Simple, Entry, Slotless
        <3>2. CASE request[k].at \notin {"joined", "repairing"}
            <4>1. request'[k] = Transport!Rejected(request, "lost")[k]
                BY <2>1, <3>2
            <4> QED BY <2>2, <4>1, RejectKeeps DEF Simple, Entry, Slotless
        <3> QED BY <3>1, <3>2
    <2>4. request' \in [Transport!Requests -> ReadRecord]
        BY <2>1, <2>3
    <2> QED BY <2>1, <2>3, <2>4 DEF RequestsMove
<1> QED BY <1>1, <1>2, <1>3, <1>4 DEF Transport!Connection

LEMMA SendingRequests ==
    ASSUME TransportTyped, RequestsKnown,
           Transport!Sending \/ Transport!FloodEnds \/ Transport!Close \/ Transport!CloseEnds
    PROVE  RequestsMove
<1>1. CASE \/ Transport!Pack \/ Transport!Repack \/ Transport!Transmit \/ Transport!LoopEnds
           \/ Transport!FloodEnds \/ Transport!CloseEnds
    BY <1>1, UnchangedSimple DEF Transport!Pack, Transport!Repack, Transport!Transmit,
        Transport!LoopEnds, Transport!FloodEnds, Transport!CloseEnds, Transport!states,
        Transport!gate, RequestsMove
<1>2. CASE Transport!TransmitFails
    BY <1>2, RejectSimple DEF Transport!TransmitFails, Transport!Launched, Transport!gate, Errors,
        RequestsMove
<1>3. CASE Transport!Close
    <2>1. /\ request' = [k \in Transport!Requests |->
                 IF request[k].at \in {"gate", "joined", "repairing", "ready", "waiting"}
                 THEN [request[k] EXCEPT !.at = "failing", !.error = "closed"] ELSE request[k]]
          /\ active' = active
        BY <1>3 DEF Transport!Close, Transport!gate
    <2>2. ASSUME NEW k \in Transport!Requests PROVE request'[k] \in ReadRecord /\ Simple(k)
        <3>1. request[k] \in ReadRecord /\ "closed" \in Errors /\ "failing" \in Positions
            BY ReadParts DEF Errors, Positions
        <3>2. CASE request[k].at \in {"gate", "joined", "repairing", "ready", "waiting"}
            <4>1. request'[k] = Broken(request[k], "closed")
                BY <2>1, <3>2 DEF Broken
            <4> QED BY <3>1, <3>2, <4>1, Read DEF Simple, Entry, Slotless
        <3>3. CASE request[k].at \notin {"gate", "joined", "repairing", "ready", "waiting"}
            BY <2>1, <3>1, <3>3 DEF Simple
        <3> QED BY <3>2, <3>3
    <2>3. request' \in [Transport!Requests -> ReadRecord]
        BY <2>1, <2>2
    <2> QED BY <2>1, <2>2, <2>3 DEF RequestsMove
<1> QED BY <1>1, <1>2, <1>3 DEF Transport!Sending

LEMMA InvokedRequests ==
    ASSUME TransportTyped, RequestsKnown, NEW r \in Transport!Requests,
           \/ Transport!Invoke(r) \/ Transport!Enqueue(r) \/ Transport!Abort(r)
           \/ Transport!Timeout(r) \/ Transport!Answer(r) \/ Transport!Recover(r)
           \/ Transport!AnswerError(r) \/ Transport!BadSalt(r) \/ Transport!Flooded(r)
    PROVE  RequestsMove
<1>0. r \in pending => request[r].at = "waiting"
    BY DEF RequestsKnown
<1>1. CASE Transport!Invoke(r)
    BY <1>1, TurnSimple DEF Transport!Invoke, Transport!gate, Positions, RequestsMove, Entry,
        Slotless
<1>2. CASE Transport!Enqueue(r)
    <2> DEFINE q == [request[r] EXCEPT !.at = "waiting", !.gen = generation, !.saw = responses]
    <2>1. /\ request' = [request EXCEPT ![r] = q] /\ request[r].at = "ready" /\ active' = active
        BY <1>2 DEF Transport!Enqueue, Transport!gate, TransportTyped
    <2>2. /\ q \in ReadRecord /\ q.at = "waiting" /\ q.slot = request[r].slot
          /\ q.replays = request[r].replays
        BY ReadParts DEF ReadRecord, Positions, TransportTyped, CountsTyped
    <2> HIDE DEF q
    <2>3. (request[r].at \in Entry => q.at \in Entry) /\ (q.at \in Slotless => request[r].at \in Slotless)
        BY <2>1, <2>2 DEF Entry, Slotless
    <2> QED BY <2>1, <2>2, <2>3, OneSimple DEF RequestsMove
<1>3. CASE \/ Transport!Abort(r) \/ Transport!Timeout(r) \/ Transport!AnswerError(r)
           \/ Transport!Flooded(r)
    BY <1>0, <1>3, FailSimple DEF Transport!Abort, Transport!Timeout, Transport!AnswerError,
        Transport!Flooded, Transport!Halved, Transport!Waits, Errors, Transport!gate, RequestsMove
<1>4. CASE Transport!Answer(r)
    BY <1>0, <1>4, TurnSimple DEF Transport!Answer, Positions, RequestsMove, Entry, Slotless
<1>5. CASE Transport!Recover(r) \/ Transport!BadSalt(r)
    BY <1>5, UnchangedSimple DEF Transport!Recover, Transport!BadSalt, Transport!states,
        Transport!gate, RequestsMove
<1> QED BY <1>1, <1>2, <1>3, <1>4, <1>5

(* A request that joins a reconnection, or begins one.                     *)
LEMMA ReconnectsKeeps ==
    ASSUME NEW r \in Transport!Requests, NEW to \in Positions \ {"waiting"},
           NEW old \in [Transport!Requests -> ReadRecord],
           Transport!Reconnects(r, old, to)
    PROVE  /\ request' \in [Transport!Requests -> ReadRecord]
           /\ request'[r].at \in {to, "failing"}
           /\ request'[r].slot = old[r].slot /\ request'[r].replays = old[r].replays
           /\ \A k \in Transport!Requests \ {r} :
                 /\ request'[k].slot = old[k].slot /\ request'[k].replays = old[k].replays
                 /\ request'[k].at = old[k].at
                    \/ (old[k].at = "waiting" /\ request'[k].at = "failing")
<1> DEFINE q == Broken(old[r], "other")
           p == Turned(old[r], to)
<1>1. /\ q \in ReadRecord /\ q.at = "failing" /\ q.slot = old[r].slot /\ q.replays = old[r].replays
      /\ p \in ReadRecord /\ p.at = to /\ p.slot = old[r].slot /\ p.replays = old[r].replays
    BY Read DEF Errors
<1>2. \/ request' = [old EXCEPT ![r] = q]
      \/ request' = [old EXCEPT ![r] = p]
      \/ request' = Transport!Rejected([old EXCEPT ![r] = p], "lost")
    BY DEF Broken, Turned, Transport!Reconnects, Transport!Launched
<1> HIDE DEF q, p
<1>3. CASE request' = [old EXCEPT ![r] = q]
    BY <1>1, <1>3
<1>4. CASE request' = [old EXCEPT ![r] = p]
    BY <1>1, <1>4
<1>5. CASE request' = Transport!Rejected([old EXCEPT ![r] = p], "lost")
    <2> DEFINE f == [old EXCEPT ![r] = p]
    <2>1. /\ f \in [Transport!Requests -> ReadRecord] /\ f[r] = p
          /\ \A k \in Transport!Requests \ {r} : f[k] = old[k]
        BY <1>1
    <2>2. "lost" \in Errors /\ request' = Transport!Rejected(f, "lost")
        BY <1>5 DEF Errors
    <2> HIDE DEF f
    <2>3. /\ request' \in [Transport!Requests -> ReadRecord]
          /\ \A k \in Transport!Requests :
                 /\ request'[k].slot = f[k].slot /\ request'[k].replays = f[k].replays
                 /\ request'[k].at = IF f[k].at = "waiting" THEN "failing" ELSE f[k].at
        BY <2>1, <2>2, RejectKeeps
    <2> QED BY <1>1, <2>1, <2>3
<1> QED BY <1>2, <1>3, <1>4, <1>5

LEMMA EndedRequests ==
    ASSUME TransportTyped, RequestsKnown, NEW r \in Transport!Requests,
           Transport!Acquire(r) \/ Transport!Succeed(r) \/ Transport!Fail(r)
    PROVE  RequestsMove
<1>0. request[r] \in ReadRecord /\ request \in [Transport!Requests -> ReadRecord]
    BY ReadParts DEF TransportTyped
<1>1. CASE Transport!Acquire(r)
    <2> DEFINE q == Admitted(request[r], r \in Files, episode)
               admitted == [request EXCEPT ![r].slot = (r \in Files), ![r].episode = episode]
    <2>1. /\ q \in ReadRecord /\ q.at = request[r].at /\ (q.slot <=> r \in Files)
          /\ q.replays = request[r].replays
        <3>1. \E b \in BOOLEAN : b = (r \in Files)
            <4>1. (r \in Files) \in BOOLEAN
                BY SMT
            <4> WITNESS (r \in Files) \in BOOLEAN
            <4> QED OBVIOUS
        <3>2. PICK b \in BOOLEAN : b = (r \in Files)
            BY <3>1
        <3>3. \A c \in BOOLEAN : c = (r \in Files) => q = Admitted(request[r], c, episode)
            BY Zenon
        <3>4. q = Admitted(request[r], b, episode)
            BY <3>2, <3>3
        <3>5. b <=> r \in Files
            BY <3>2
        <3>6. episode \in Nat
            BY DEF TransportTyped, CountsTyped
        <3> HIDE DEF q
        <3> QED BY <1>0, <3>4, <3>5, <3>6, ReadSlots
    <2>2. admitted = [request EXCEPT ![r] = q]
        BY <1>0 DEF Admitted
    <2>3. /\ admitted \in [Transport!Requests -> ReadRecord] /\ admitted[r] = q
          /\ \A k \in Transport!Requests \ {r} : admitted[k] = request[k]
        <3> HIDE DEF q
        <3> QED BY <1>0, <2>1, <2>2
    <2>4. /\ request[r].at = "gate" /\ (r \in Files => active < limit)
          /\ active' = active + OneIf(r \in Files)
          /\ \/ request' = [admitted EXCEPT ![r].at = "ready"]
             \/ Transport!Reconnects(r, admitted, "joined")
        BY <1>1 DEF Transport!Acquire, OneIf
    <2> HIDE DEF q, admitted
    <2>5. CASE request' = [admitted EXCEPT ![r].at = "ready"]
        <3> DEFINE p == Turned(q, "ready")
        <3>1. "ready" \in Positions /\ "lost" \in Errors
            BY DEF Positions, Errors
        <3>2. /\ p \in ReadRecord /\ p.at = "ready" /\ (p.slot <=> r \in Files)
              /\ p.replays = request[r].replays
            BY <2>1, <3>1, Read
        <3>3. request' = [admitted EXCEPT ![r] = p]
            BY <2>3, <2>5 DEF Turned
        <3> HIDE DEF p
        <3>4. /\ request' \in [Transport!Requests -> ReadRecord] /\ request'[r] = p
              /\ \A k \in Transport!Requests \ {r} : request'[k] = request[k]
            BY <2>3, <3>2, <3>3
        <3>5. Takes(r) /\ \A k \in Transport!Requests \ {r} : Simple(k)
            BY <2>4, <3>2, <3>4 DEF Takes, Simple
        <3> QED BY <3>4, <3>5 DEF RequestsMove
    <2>6. CASE Transport!Reconnects(r, admitted, "joined")
        BY <2>3, <2>6, ReconnectsKeeps, <2>1, <2>4 DEF Positions, Takes, Simple, Entry, Slotless,
            RequestsMove
    <2> QED BY <2>4, <2>5, <2>6
<1>2. CASE Transport!Succeed(r)
    <2> DEFINE q == [request[r] EXCEPT !.at = "done", !.slot = FALSE]
    <2>1. /\ q \in ReadRecord /\ q.at = "done" /\ ~q.slot /\ q.replays = request[r].replays
        BY <1>0 DEF ReadRecord, Positions
    <2>2. /\ request' = [request EXCEPT ![r] = q] /\ request[r].at = "answered"
          /\ active' = active - OneIf(request[r].slot)
        BY <1>0, <1>2 DEF Transport!Succeed, Transport!Freed, OneIf
    <2> HIDE DEF q
    <2>3. /\ request' \in [Transport!Requests -> ReadRecord] /\ request'[r] = q
          /\ \A k \in Transport!Requests \ {r} : Simple(k)
        BY <2>1, <2>2, OneMoves
    <2>4. Frees(r)
        BY <2>1, <2>2, <2>3 DEF Frees
    <2> QED BY <2>3, <2>4 DEF RequestsMove
<1>3. CASE Transport!Fail(r)
    <2> DEFINE q == Slotted(request[r])
               p == Turned(Counted(q), "gate")
               s == Repaired(p)
               freed == [request EXCEPT ![r].slot = FALSE]
               retried == [freed EXCEPT ![r].replays = @ + 1, ![r].at = "gate"]
               repaired == [retried EXCEPT ![r].recovered = TRUE]
    <2>0. "gate" \in Positions /\ "none" \in Errors /\ FALSE \in BOOLEAN /\ 0 \in Nat
        BY DEF Positions, Errors
    <2>1. /\ q \in ReadRecord /\ q.at = request[r].at /\ ~q.slot /\ q.replays = request[r].replays
        BY <1>0, <2>0, ReadSlots
    <2>2. /\ p \in ReadRecord /\ p.at = "gate" /\ ~p.slot /\ p.replays = request[r].replays + 1
        <3> HIDE DEF q
        <3>1. /\ Counted(q) \in ReadRecord /\ ~Counted(q).slot
              /\ Counted(q).replays = request[r].replays + 1
            BY <2>1, ReadCounts
        <3> QED BY <2>0, <3>1, Read
    <2>3. /\ s \in ReadRecord /\ s.at = "gate" /\ ~s.slot /\ s.replays = request[r].replays + 1
        <3> HIDE DEF p
        <3> QED BY <2>2, ReadCounts
    <2>4. freed = [request EXCEPT ![r] = q]
        BY <1>0 DEF Slotted
    <2>5. retried = [request EXCEPT ![r] = p]
        BY <1>0 DEF Slotted, Counted, Turned
    <2>6. repaired = [request EXCEPT ![r] = s]
        BY <1>0 DEF Slotted, Counted, Turned, Repaired
    <2>7. request[r].at = "failing" /\ active' = active - OneIf(request[r].slot)
        BY <1>3 DEF Transport!Fail, Transport!Freed, OneIf
    <2>8. \/ request' = [freed EXCEPT ![r].at = "failed"]
          \/ /\ Transport!Replayable(r)
             /\ \/ Transport!Reconnects(r, repaired, "repairing")
                \/ request' = [retried EXCEPT ![r].at = "repairing"]
                \/ request' = retried
        BY <1>3 DEF Transport!Fail
    <2>9. Transport!Replayable(r) => r \in Files /\ request[r].replays < MaxReplays
        BY DEF Transport!Replayable
    <2> HIDE DEF q, p, s, freed, retried, repaired
    <2>10. /\ "failed" \in Positions /\ "repairing" \in Positions \ {"waiting"} /\ "lost" \in Errors
        BY DEF Positions, Errors
    <2>11. CASE request' = [freed EXCEPT ![r].at = "failed"]
        <3> DEFINE u == Turned(q, "failed")
        <3>1. u \in ReadRecord /\ u.at = "failed" /\ ~u.slot /\ u.replays = request[r].replays
            BY <2>1, <2>10, Read
        <3>2. request' = [request EXCEPT ![r] = u]
            BY <1>0, <2>4, <2>11 DEF Turned
        <3> HIDE DEF u
        <3>3. /\ request' \in [Transport!Requests -> ReadRecord] /\ request'[r] = u
              /\ \A k \in Transport!Requests \ {r} : Simple(k)
            BY <3>1, <3>2, OneMoves
        <3>4. Frees(r)
            BY <2>7, <3>1, <3>3 DEF Frees
        <3> QED BY <3>3, <3>4 DEF RequestsMove
    <2>12. CASE Transport!Replayable(r) /\ request' = retried
        BY <2>2, <2>5, <2>12, OneMoves, <2>7, <2>9 DEF Frees, RequestsMove
    <2>13. CASE Transport!Replayable(r) /\ request' = [retried EXCEPT ![r].at = "repairing"]
        <3> DEFINE u == Turned(p, "repairing")
        <3>1. /\ u \in ReadRecord /\ u.at = "repairing" /\ ~u.slot
              /\ u.replays = request[r].replays + 1
            BY <2>2, <2>10, Read
        <3>2. request' = [request EXCEPT ![r] = u]
            BY <1>0, <2>5, <2>13 DEF Turned
        <3> HIDE DEF u
        <3>3. /\ request' \in [Transport!Requests -> ReadRecord] /\ request'[r] = u
              /\ \A k \in Transport!Requests \ {r} : Simple(k)
            BY <3>1, <3>2, OneMoves
        <3>4. Frees(r)
            BY <2>7, <2>9, <2>13, <3>1, <3>3 DEF Frees
        <3> QED BY <3>3, <3>4 DEF RequestsMove
    <2>14. CASE Transport!Replayable(r) /\ Transport!Reconnects(r, repaired, "repairing")
        <3>1. /\ repaired \in [Transport!Requests -> ReadRecord] /\ repaired[r] = s
              /\ \A k \in Transport!Requests \ {r} : repaired[k] = request[k]
            BY <1>0, <2>3, <2>6
        <3>2. /\ request' \in [Transport!Requests -> ReadRecord]
              /\ request'[r].at \in {"repairing", "failing"}
              /\ request'[r].slot = repaired[r].slot
              /\ request'[r].replays = repaired[r].replays
              /\ \A k \in Transport!Requests \ {r} :
                     /\ request'[k].slot = repaired[k].slot
                     /\ request'[k].replays = repaired[k].replays
                     /\ request'[k].at = repaired[k].at
                        \/ (repaired[k].at = "waiting" /\ request'[k].at = "failing")
            BY <2>10, <2>14, <3>1, ReconnectsKeeps
        <3>3. Frees(r)
            BY <2>3, <2>7, <2>9, <2>14, <3>1, <3>2 DEF Frees
        <3>4. \A k \in Transport!Requests \ {r} : Simple(k)
            BY <3>1, <3>2 DEF Simple, Entry, Slotless
        <3> QED BY <3>2, <3>3, <3>4 DEF RequestsMove
    <2> QED BY <2>8, <2>11, <2>12, <2>13, <2>14
<1> QED BY <1>1, <1>2, <1>3

LEMMA RequestsStep ==
    ASSUME TransportTyped, RequestsKnown, [Transport!Next]_(Transport!vars)
    PROVE  RequestsMove
    BY UnchangedSimple, ConnectionRequests, SendingRequests, InvokedRequests, EndedRequests DEF
        Transport!vars, Transport!states, Transport!gate, RequestsMove, Transport!Next

-----------------------------------------------------------------------------
(* What is queued, packed and sent.                                        *)

Linked ==
    /\ flight' \in [at : {"none", "stop", "try", "open"}, attempt : Nat]
    /\ open' \subseteq 1..MaxConnections /\ made' \in 0..MaxConnections

(* Nothing is entered, and nothing new waits for its answer.               *)
Calm ==
    /\ sent' = sent /\ queue' \subseteq queue /\ pending' \subseteq pending
    /\ \/ loop' = loop \/ loop' = {}
       \/ \E l \in LoopRecord : l.batch = {} /\ loop' = {l}
    /\ \A k \in pending' : request'[k].at = request[k].at

LEMMA LinkedStep ==
    ASSUME TransportBounds, TransportTyped, [Transport!Next]_(Transport!vars)
    PROVE  Linked
<1> USE DEF WireTyped, TransportTyped
<1>1. CASE UNCHANGED <<flight, open, made>>
    BY <1>1 DEF Linked
<1>2. CASE Transport!Stopped
    BY <1>2 DEF Linked, Transport!Stopped
<1>3. CASE Transport!Try
    BY <1>3 DEF Transport!Try, TransportBounds, Linked
<1>4. CASE Transport!Opened \/ Transport!GivesUp
    <2>1. flight' = [at |-> "none", attempt |-> 0] /\ open' = open /\ made' = made
        BY <1>4 DEF Transport!Opened, Transport!GivesUp, Transport!NoFlight
    <2> QED BY <2>1 DEF Linked
<1>5. CASE Transport!OpenFails
    BY <1>5 DEF Linked, Transport!OpenFails
<1>6. CASE /\ flight' = [at |-> "stop", attempt |-> 0] /\ open' = open /\ made' = made
    BY <1>6 DEF Linked
<1>7. CASE Transport!CloseEnds
    BY <1>7 DEF Linked, Transport!CloseEnds
<1>8. ASSUME \/ Transport!Retryable \/ Transport!ConnectionLost \/ Transport!BadAuthKey
             \/ Transport!Sending \/ Transport!FloodEnds \/ Transport!Close
      PROVE  \/ UNCHANGED <<flight, open, made>>
             \/ flight' = [at |-> "stop", attempt |-> 0] /\ open' = open /\ made' = made
    BY <1>8 DEF Transport!Retryable, Transport!ConnectionLost, Transport!BadAuthKey,
        Transport!Sending, Transport!Pack, Transport!Repack, Transport!Transmit,
        Transport!TransmitFails, Transport!LoopEnds, Transport!FloodEnds, Transport!Close,
        Transport!Launched, Transport!wire
<1>9. ASSUME NEW r \in Transport!Requests,
             \/ Transport!Invoke(r) \/ Transport!Enqueue(r) \/ Transport!Abort(r)
             \/ Transport!Timeout(r) \/ Transport!Answer(r) \/ Transport!Recover(r)
             \/ Transport!AnswerError(r) \/ Transport!BadSalt(r) \/ Transport!Flooded(r)
             \/ Transport!Succeed(r)
      PROVE  UNCHANGED <<flight, open, made>>
    BY <1>9 DEF Transport!Invoke, Transport!Enqueue, Transport!Abort, Transport!Timeout,
        Transport!Answer, Transport!Recover, Transport!AnswerError, Transport!BadSalt,
        Transport!Flooded, Transport!Halved, Transport!Succeed, Transport!wire
<1>10. ASSUME NEW r \in Transport!Requests, Transport!Acquire(r) \/ Transport!Fail(r)
       PROVE  \/ UNCHANGED <<flight, open, made>>
              \/ flight' = [at |-> "stop", attempt |-> 0] /\ open' = open /\ made' = made
    BY <1>10 DEF Transport!Acquire, Transport!Fail, Transport!Reconnects,
        Transport!Launched, Transport!wire
<1>11. CASE UNCHANGED Transport!vars
    BY <1>1, <1>11 DEF Transport!vars, Transport!wire
<1> QED BY <1>1, <1>2, <1>3, <1>4, <1>5, <1>6, <1>7, <1>8, <1>9, <1>10, <1>11
    DEF Transport!Next, Transport!Connection

LEMMA CalmWire ==
    ASSUME TransportTyped, Linked, Calm
    PROVE  WireMove
    BY DEF Linked, Calm, TransportTyped, WireTyped, InBatch, Weight, OneIf, Pends, Queues, WireMove

LEMMA ConnectionCalm ==
    ASSUME TransportTyped, RequestsKnown,
           \/ UNCHANGED Transport!vars \/ Transport!Connection
           \/ Transport!FloodEnds \/ Transport!Close \/ Transport!CloseEnds
           \/ Transport!TransmitFails \/ Transport!LoopEnds
    PROVE  Calm
    BY DEF Transport!vars, Transport!Stopped, Transport!Try, Transport!Retryable,
        Transport!FloodEnds, Transport!CloseEnds, Transport!LoopEnds, Transport!states,
        Transport!wire, Calm, Transport!OpenFails, Transport!GivesUp, Transport!ConnectionLost,
        Transport!BadAuthKey, Transport!Close, Transport!TransmitFails, Transport!Launched,
        Transport!Opened, Transport!Settled, LoopRecord, TransportTyped, CountsTyped, RequestsKnown,
        WireTyped, Transport!Connection

LEMMA InvokedCalm ==
    ASSUME TransportTyped, RequestsKnown, NEW r \in Transport!Requests,
           \/ Transport!Invoke(r) \/ Transport!Abort(r) \/ Transport!Timeout(r)
           \/ Transport!Answer(r) \/ Transport!Recover(r) \/ Transport!AnswerError(r)
           \/ Transport!Flooded(r) \/ Transport!Succeed(r)
    PROVE  Calm
    BY DEF RequestsKnown, TransportTyped, WireTyped, Calm, Transport!Recover, Transport!wire,
        Transport!states, Transport!Invoke, Transport!Succeed, Transport!Abort, Transport!Timeout,
        Transport!Answer, Transport!AnswerError, Transport!Flooded, Transport!Halved, Transport!Fails,
        Transport!Removed

LEMMA ReconnectsCalm ==
    ASSUME TransportTyped, RequestsKnown, NEW r \in Transport!Requests,
           request[r].at # "waiting", NEW to, NEW old,
           DOMAIN old = Transport!Requests,
           \A k \in Transport!Requests \ {r} : old[k] = request[k],
           Transport!Reconnects(r, old, to), sent' = sent
    PROVE  Calm
    BY DEF RequestsKnown, TransportTyped, WireTyped, Calm, Transport!Reconnects, Transport!Launched

LEMMA EndedCalm ==
    ASSUME TransportTyped, RequestsKnown, NEW r \in Transport!Requests,
           Transport!Acquire(r) \/ Transport!Fail(r)
    PROVE  Calm
<1>1. /\ DOMAIN request = Transport!Requests
      /\ \A k \in pending : k \in Transport!Requests /\ request[k].at = "waiting"
    BY DEF RequestsKnown, TransportTyped, WireTyped
<1>2. request[r].at # "waiting" /\ sent' = sent
    BY DEF Transport!Acquire, Transport!Fail
<1>3. ASSUME UNCHANGED <<loop, queue, pending>>,
             \A k \in Transport!Requests \ {r} : request'[k] = request[k]
      PROVE  Calm
    BY <1>1, <1>2, <1>3 DEF Calm
<1>4. ASSUME NEW old, NEW to, DOMAIN old = Transport!Requests,
             \A k \in Transport!Requests \ {r} : old[k] = request[k],
             \/ /\ request' = old \/ request' = [old EXCEPT ![r].at = to]
                /\ UNCHANGED <<loop, queue, pending>>
             \/ Transport!Reconnects(r, old, to)
      PROVE  Calm
    BY <1>2, <1>4, ReconnectsCalm, <1>3
<1>5. CASE Transport!Acquire(r)
    <2> DEFINE admitted == [request EXCEPT ![r].slot = (r \in Files), ![r].episode = episode]
    <2>1. \/ /\ request' = [admitted EXCEPT ![r].at = "ready"]
             /\ UNCHANGED <<loop, queue, pending>>
          \/ Transport!Reconnects(r, admitted, "joined")
        BY <1>5 DEF Transport!Acquire, Transport!wire
    <2>2. /\ DOMAIN admitted = Transport!Requests
          /\ \A k \in Transport!Requests \ {r} : admitted[k] = request[k]
        BY <1>1
    <2> HIDE DEF admitted
    <2>3. CASE Transport!Reconnects(r, admitted, "joined")
        BY <1>4, <2>2, <2>3
    <2>4. CASE /\ request' = [admitted EXCEPT ![r].at = "ready"]
               /\ UNCHANGED <<loop, queue, pending>>
        BY <1>4, <2>2, <2>4
    <2> QED BY <2>1, <2>3, <2>4
<1>6. CASE Transport!Fail(r)
    <2> DEFINE freed == [request EXCEPT ![r].slot = FALSE]
               retried == [freed EXCEPT ![r].replays = @ + 1, ![r].at = "gate"]
               repaired == [retried EXCEPT ![r].recovered = TRUE]
    <2>1. \/ /\ UNCHANGED <<loop, queue, pending>>
             /\ \/ request' = [freed EXCEPT ![r].at = "failed"]
                \/ request' = [retried EXCEPT ![r].at = "repairing"]
                \/ request' = retried
          \/ Transport!Reconnects(r, repaired, "repairing")
        BY <1>6 DEF Transport!Fail, Transport!wire
    <2>2. /\ DOMAIN freed = Transport!Requests
          /\ \A k \in Transport!Requests \ {r} : freed[k] = request[k]
        BY <1>1
    <2>3. /\ DOMAIN retried = Transport!Requests
          /\ \A k \in Transport!Requests \ {r} : retried[k] = request[k]
        BY <2>2
    <2>4. /\ DOMAIN repaired = Transport!Requests
          /\ \A k \in Transport!Requests \ {r} : repaired[k] = request[k]
        BY <2>3
    <2> HIDE DEF freed, retried, repaired
    <2>5. CASE /\ UNCHANGED <<loop, queue, pending>>
               /\ request' = [freed EXCEPT ![r].at = "failed"]
        BY <1>4, <2>2, <2>5
    <2>6. CASE /\ UNCHANGED <<loop, queue, pending>>
               /\ request' = retried \/ request' = [retried EXCEPT ![r].at = "repairing"]
        BY <1>4, <2>3, <2>6
    <2>7. CASE Transport!Reconnects(r, repaired, "repairing")
        BY <1>4, <2>4, <2>7
    <2> QED BY <2>1, <2>5, <2>6, <2>7
<1> QED BY <1>5, <1>6

(* The steps by which a request is entered, packed, sent or queued anew.   *)
LEMMA EnqueueWire ==
    ASSUME TransportTyped, RequestsKnown, Linked, NEW r \in Transport!Requests,
           Transport!Enqueue(r)
    PROVE  WireMove
    BY DEF Transport!Enqueue, Transport!wire, TransportTyped, Linked, WireTyped, InBatch, Weight,
        OneIf, RequestsKnown, Queues, Pends, WireMove

LEMMA PackWire ==
    ASSUME TransportTyped, RequestsKnown, Linked,
           Transport!Pack \/ Transport!Repack \/ Transport!Transmit
    PROVE  WireMove
<1>1. request' = request /\ sent \in [Transport!Requests -> Nat]
      /\ queue \subseteq Transport!Requests /\ pending \subseteq Transport!Requests
    BY DEF Transport!Pack, Transport!Repack, Transport!Transmit, Transport!states,
           TransportTyped, WireTyped
<1>2. PICK l \in loop :
          \/ /\ loop' = {[l EXCEPT !.batch = queue]} /\ queue' = {} /\ l.batch = {}
             /\ UNCHANGED <<pending, sent>>
          \/ /\ loop' = {[l EXCEPT !.batch = {}]}
             /\ queue' = queue \cup {k \in l.batch : Transport!Waits(k)}
             /\ UNCHANGED <<pending, sent>>
          \/ /\ loop' = {[l EXCEPT !.batch = {}]} /\ ~Transport!Abandoned(l)
             /\ pending' = pending \cup l.batch /\ queue' = queue
             /\ sent' = [k \in Transport!Requests |-> sent[k] + IF k \in l.batch THEN 1 ELSE 0]
    BY DEF Transport!Pack, Transport!Repack, Transport!Transmit
<1>3. /\ l \in LoopRecord /\ loop = {l} /\ l.batch \subseteq Transport!Requests
      /\ \A k : InBatch(k) <=> k \in l.batch
    BY <1>2 DEF TransportTyped, WireTyped, LoopRecord, InBatch
<1>4. CASE /\ loop' = {[l EXCEPT !.batch = queue]} /\ queue' = {} /\ l.batch = {}
           /\ UNCHANGED <<pending, sent>>
    BY <1>1, <1>3, <1>4 DEF LoopRecord, InBatch, Linked, WireTyped, Weight, OneIf, Queues, Pends,
        WireMove
<1>5. ASSUME loop' = {[l EXCEPT !.batch = {}]}
      PROVE  /\ \E n \in LoopRecord : loop' = {n}
             /\ \A k : ~InBatch(k)'
    BY <1>3, <1>5 DEF LoopRecord, InBatch
<1>6. CASE /\ loop' = {[l EXCEPT !.batch = {}]}
           /\ queue' = queue \cup {k \in l.batch : Transport!Waits(k)}
           /\ UNCHANGED <<pending, sent>>
    BY <1>1, <1>3, <1>5, <1>6 DEF Linked, WireTyped, Weight, OneIf, Queues, Pends, WireMove
<1>7. CASE /\ loop' = {[l EXCEPT !.batch = {}]} /\ ~Transport!Abandoned(l)
           /\ pending' = pending \cup l.batch /\ queue' = queue
           /\ sent' = [k \in Transport!Requests |-> sent[k] + IF k \in l.batch THEN 1 ELSE 0]
    BY <1>1, <1>3, <1>5, <1>7 DEF Linked, WireTyped, Weight, OneIf, Transport!Abandoned,
        Transport!Waits, Queues, Pends, WireMove
<1> QED BY <1>2, <1>4, <1>6, <1>7

LEMMA BadSaltWire ==
    ASSUME TransportTyped, RequestsKnown, Linked, NEW r \in Transport!Requests,
           Transport!BadSalt(r)
    PROVE  WireMove
    BY DEF Transport!BadSalt, Transport!wire, TransportTyped, WireTyped, RequestsKnown, Linked,
        InBatch, Weight, OneIf, Pends, Queues, WireMove

LEMMA WireStep ==
    ASSUME TransportBounds, TransportTyped, RequestsKnown, [Transport!Next]_(Transport!vars)
    PROVE  WireMove
    BY LinkedStep, ConnectionCalm, InvokedCalm, EndedCalm, EnqueueWire, PackWire, BadSaltWire,
        CalmWire DEF Transport!Next, Transport!Sending

-----------------------------------------------------------------------------
(* The invariant, step by step.                                            *)

LEMMA KnownStep ==
    ASSUME TransportBounds, TransportTyped, RequestsKnown, RequestsMove, WireMove
    PROVE  RequestsKnown'
    BY ReadParts DEF RequestsKnown, RequestsMove, Simple, Entered, OneIf, Takes, Entry, Slotless,
        Frees, TransportBounds, TransportTyped, WireTyped, WireMove, Weight, Queues, Pends

(* The slots.                                                              *)
SlotHolders == {k \in Transport!Requests : request[k].slot}

LEMMA TransportCardinality ==
    ASSUME NEW S
    PROVE  Transport!Cardinality(S) = Cardinality(S)
BY Zenon DEF Transport!Cardinality, Cardinality

LEMMA SlotsStep ==
    ASSUME TransportBounds, TransportTyped, RequestsKnown, RequestsMove, Transport!SlotsHeld
    PROVE  /\ Transport!SlotsHeld'
           /\ active' \in 0..MaxFragments
<1>1. active = Cardinality(SlotHolders) /\ active \in 0..MaxFragments /\ limit \in 1..MaxFragments
    BY TransportCardinality DEF Transport!SlotsHeld, SlotHolders, TransportTyped, CountsTyped
<1>2. SUFFICES active' = Cardinality(SlotHolders') /\ active' \in 0..MaxFragments
    BY TransportCardinality DEF Transport!SlotsHeld, SlotHolders
<1>3. IsFiniteSet(SlotHolders) /\ MaxFragments \in Nat
    BY FS_Subset DEF SlotHolders, TransportBounds
<1>4. CASE active' = active /\ \A k \in Transport!Requests : Simple(k)
    BY <1>4, <1>1 DEF SlotHolders, Simple
<1>5. ASSUME NEW r \in Transport!Requests, \A k \in Transport!Requests \ {r} : Simple(k),
             Takes(r)
      PROVE  active' = Cardinality(SlotHolders') /\ active' \in 0..MaxFragments
    <2>1. r \notin SlotHolders
        BY <1>5 DEF Takes, SlotHolders, RequestsKnown, Slotless
    <2>2. \A k \in Transport!Requests \ {r} : k \in SlotHolders' <=> k \in SlotHolders
        BY <1>5 DEF Simple, SlotHolders
    <2>3. CASE r \in Files
        <3>1. SlotHolders' = SlotHolders \cup {r}
            BY <1>5, <2>1, <2>2, <2>3 DEF Takes, SlotHolders
        <3>2. active' = active + 1 /\ active < limit
            BY <1>5, <2>3 DEF Takes, OneIf
        <3>3. Cardinality(SlotHolders \cup {r}) = Cardinality(SlotHolders) + 1
            BY <1>3, <2>1, FS_AddElement
        <3> QED BY <1>1, <1>3, <3>1, <3>2, <3>3
    <2>4. CASE r \notin Files
        <3>1. SlotHolders' = SlotHolders
            BY <1>5, <2>1, <2>2, <2>4 DEF Takes, SlotHolders
        <3>2. active' = active
            BY <1>1, <1>5, <2>4 DEF Takes, OneIf
        <3> QED BY <1>1, <3>1, <3>2
    <2> QED BY <2>3, <2>4
<1>6. ASSUME NEW r \in Transport!Requests, \A k \in Transport!Requests \ {r} : Simple(k),
             Frees(r)
      PROVE  active' = Cardinality(SlotHolders') /\ active' \in 0..MaxFragments
    <2>1. r \notin SlotHolders'
        BY <1>6 DEF Frees, SlotHolders
    <2>2. \A k \in Transport!Requests \ {r} : k \in SlotHolders' <=> k \in SlotHolders
        BY <1>6 DEF Simple, SlotHolders
    <2>3. CASE r \in SlotHolders
        <3>1. SlotHolders' = SlotHolders \ {r}
            BY <2>1, <2>2, <2>3 DEF SlotHolders
        <3>2. active' = active - 1
            BY <1>6, <2>3 DEF Frees, OneIf, SlotHolders
        <3>3. Cardinality(SlotHolders \ {r}) = Cardinality(SlotHolders) - 1 /\ Cardinality(SlotHolders \ {r}) \in Nat
            BY <1>3, <2>3, FS_RemoveElement, FS_CardinalityType
        <3> QED BY <1>1, <1>3, <3>1, <3>2, <3>3
    <2>4. CASE r \notin SlotHolders
        <3>1. SlotHolders' = SlotHolders
            BY <2>1, <2>2, <2>4 DEF SlotHolders
        <3>2. active' = active
            BY <1>1, <1>6, <2>4 DEF Frees, OneIf, SlotHolders
        <3> QED BY <1>1, <3>1, <3>2
    <2> QED BY <2>3, <2>4
<1> QED BY <1>4, <1>5, <1>6 DEF RequestsMove

(* The counters.                                                           *)
LEMMA CountsStep ==
    ASSUME TransportBounds, TransportTyped, [Transport!Next]_(Transport!vars),
           active' \in 0..MaxFragments
    PROVE  CountsTyped'
<1>1. /\ generation \in Nat /\ episode \in Nat /\ responses \in Nat
      /\ limit \in 1..MaxFragments /\ MaxFragments \in Nat
    BY DEF TransportTyped, CountsTyped, TransportBounds
<1> DEFINE Goal == /\ generation' \in Nat /\ episode' \in Nat /\ responses' \in Nat
                   /\ limit' \in 1..MaxFragments
<1>2. ASSUME generation' = generation \/ generation' = generation + 1,
             UNCHANGED <<episode, responses, limit>>
      PROVE  Goal
    BY <1>1, <1>2
<1>3. ASSUME \/ UNCHANGED Transport!vars \/ Transport!Connection \/ Transport!Sending
             \/ Transport!FloodEnds \/ Transport!Close \/ Transport!CloseEnds
      PROVE  Goal
    BY <1>3, <1>2 DEF Transport!vars, Transport!Connection, Transport!Sending, Transport!FloodEnds,
        Transport!Close, Transport!CloseEnds, Transport!Stopped, Transport!Try, Transport!Opened,
        Transport!OpenFails, Transport!GivesUp, Transport!Retryable, Transport!ConnectionLost,
        Transport!BadAuthKey, Transport!Pack, Transport!Repack, Transport!Transmit,
        Transport!TransmitFails, Transport!LoopEnds, Transport!gate, Transport!owner,
        Transport!Launched
<1>4. ASSUME NEW r \in Transport!Requests,
             \/ Transport!Invoke(r) \/ Transport!Acquire(r) \/ Transport!Enqueue(r)
             \/ Transport!Abort(r) \/ Transport!Timeout(r) \/ Transport!AnswerError(r)
             \/ Transport!BadSalt(r) \/ Transport!Succeed(r) \/ Transport!Fail(r)
      PROVE  Goal
    BY <1>4, <1>2 DEF Transport!Invoke, Transport!Acquire, Transport!Enqueue, Transport!Abort,
        Transport!Timeout, Transport!AnswerError, Transport!BadSalt, Transport!Succeed,
        Transport!Fail, Transport!gate, Transport!owner, Transport!Reconnects, Transport!Launched
<1>5. ASSUME NEW r \in Transport!Requests, Transport!Answer(r) \/ Transport!Recover(r)
      PROVE  Goal
    BY <1>5, <1>1 DEF Transport!Answer, Transport!Recover, Transport!owner
<1>6. ASSUME NEW r \in Transport!Requests, Transport!Flooded(r)
      PROVE  Goal
    BY <1>6, <1>1 DEF Transport!Flooded, Transport!Halved, Transport!owner
<1>7. Goal
    BY <1>3, <1>4, <1>5, <1>6 DEF Transport!Next
<1> QED BY <1>7 DEF CountsTyped

(* The owner of the sender, its connections, and the end of everything.    *)
LEMMA OpenStep ==
    ASSUME TransportBounds, TransportTyped, OwnerKnown, [Transport!Next]_(Transport!vars)
    PROVE  /\ open' = {} \/ \E n \in 1..MaxConnections : open' = {n}
           /\ flight'.at = "try" => open' = {}
<1>1. /\ open = {} \/ \E n \in 1..MaxConnections : open = {n}
      /\ flight.at = "try" => open = {}
      /\ flight \in [at : {"none", "stop", "try", "open"}, attempt : Nat]
    BY DEF OwnerKnown, TransportTyped, WireTyped
<1>2. CASE Transport!Stopped
    BY <1>2 DEF Transport!Stopped
<1>3. CASE Transport!Try
    <2>1. made + 1 \in 1..MaxConnections
        BY <1>3 DEF Transport!Try, TransportBounds, TransportTyped, WireTyped
    <2>2. open' = {made + 1}
        BY <1>1, <1>3 DEF Transport!Try
    <2>3. flight'.at = "open"
        BY <1>3 DEF Transport!Try
    <2> QED BY <2>1, <2>2, <2>3
<1>4. CASE Transport!CloseEnds
    BY <1>4 DEF Transport!CloseEnds
<1>5. CASE open' = open /\ (flight' = flight \/ flight'.at # "try")
    BY <1>1, <1>5
<1>6. ASSUME \/ Transport!Opened \/ Transport!OpenFails \/ Transport!GivesUp \/ Transport!Retryable
             \/ Transport!ConnectionLost \/ Transport!BadAuthKey \/ Transport!Sending
             \/ Transport!FloodEnds \/ Transport!Close
      PROVE  open' = open /\ (flight' = flight \/ flight'.at # "try")
    <2>1. open' = open
        BY <1>6 DEF Transport!Opened, Transport!OpenFails, Transport!GivesUp, Transport!Retryable,
            Transport!ConnectionLost, Transport!BadAuthKey, Transport!Sending, Transport!Pack,
            Transport!Repack, Transport!Transmit, Transport!TransmitFails, Transport!LoopEnds,
            Transport!FloodEnds, Transport!Close, Transport!wire
    <2>2. \/ flight' = flight \/ flight' = [at |-> "stop", attempt |-> 0]
          \/ flight' = [at |-> "none", attempt |-> 0] \/ flight' = [flight EXCEPT !.at = "stop"]
        BY <1>6 DEF Transport!Opened, Transport!OpenFails, Transport!GivesUp, Transport!Retryable,
            Transport!ConnectionLost, Transport!BadAuthKey, Transport!Sending, Transport!Pack,
            Transport!Repack, Transport!Transmit, Transport!TransmitFails, Transport!LoopEnds,
            Transport!FloodEnds, Transport!Close, Transport!wire, Transport!Launched,
            Transport!NoFlight
    <2> QED BY <1>1, <2>1, <2>2
<1>7. ASSUME NEW r \in Transport!Requests,
             \/ Transport!Invoke(r) \/ Transport!Enqueue(r) \/ Transport!Abort(r)
             \/ Transport!Timeout(r) \/ Transport!Answer(r) \/ Transport!Recover(r)
             \/ Transport!AnswerError(r) \/ Transport!BadSalt(r) \/ Transport!Flooded(r)
             \/ Transport!Succeed(r)
      PROVE  open' = open /\ flight' = flight
    BY <1>7 DEF Transport!Invoke, Transport!Enqueue, Transport!Abort, Transport!Timeout,
        Transport!Answer, Transport!Recover, Transport!AnswerError, Transport!BadSalt,
        Transport!Flooded, Transport!Halved, Transport!Succeed, Transport!wire
<1>8. ASSUME NEW r \in Transport!Requests, Transport!Acquire(r) \/ Transport!Fail(r)
      PROVE  open' = open /\ (flight' = flight \/ flight'.at # "try")
    <2>1. open' = open /\ (flight' = flight \/ flight' = [at |-> "stop", attempt |-> 0])
        BY <1>8 DEF Transport!Acquire, Transport!Fail, Transport!Reconnects,
            Transport!Launched, Transport!wire
    <2> QED BY <2>1
<1>9. CASE UNCHANGED Transport!vars
    BY <1>5, <1>9 DEF Transport!vars, Transport!wire
<1> QED BY <1>2, <1>3, <1>4, <1>5, <1>6, <1>7, <1>8, <1>9
    DEF Transport!Next, Transport!Connection

LEMMA UpStep ==
    ASSUME OwnerKnown, [Transport!Next]_(Transport!vars)
    PROVE  /\ up' => ~closed'
           /\ closing' # "none" => terminal' /\ closed'
<1>1. (up => ~closed) /\ (closing # "none" => terminal /\ closed)
    BY DEF OwnerKnown
<1>2. CASE Transport!Opened
    BY <1>1, <1>2 DEF Transport!Opened, Transport!Superseded, Transport!owner, Transport!end
<1>3. CASE Transport!Close
    BY <1>3 DEF Transport!Close
<1>4. CASE Transport!CloseEnds
    BY <1>1, <1>4 DEF Transport!CloseEnds, Transport!owner
<1>5. CASE /\ terminal' = terminal /\ closing' = closing /\ (closed => closed')
           /\ ~up' \/ (up' = up /\ closed' = closed)
    BY <1>1, <1>5
<1>6. ASSUME \/ Transport!Stopped \/ Transport!Try \/ Transport!OpenFails \/ Transport!GivesUp
             \/ Transport!Retryable \/ Transport!ConnectionLost \/ Transport!BadAuthKey
             \/ Transport!Sending \/ Transport!FloodEnds \/ UNCHANGED Transport!vars
      PROVE  /\ terminal' = terminal /\ closing' = closing /\ (closed => closed')
             /\ ~up' \/ (up' = up /\ closed' = closed)
    <2>1. CASE \/ Transport!Stopped \/ Transport!Try \/ Transport!OpenFails
               \/ Transport!FloodEnds
        BY <2>1 DEF Transport!Stopped, Transport!Try, Transport!OpenFails,
            Transport!FloodEnds, Transport!owner, Transport!wire, Transport!end
    <2>4. CASE Transport!GivesUp \/ Transport!Retryable
        <3>1. UNCHANGED <<closed, up, terminal, closing>>
            BY <2>4 DEF Transport!GivesUp, Transport!Retryable, Transport!wire, Transport!end
        <3> QED BY <3>1
    <2>5. CASE UNCHANGED Transport!vars
        BY <2>5 DEF Transport!vars, Transport!owner, Transport!wire, Transport!end
    <2>2. CASE \/ Transport!ConnectionLost \/ Transport!BadAuthKey
               \/ Transport!TransmitFails
        BY <2>2 DEF Transport!ConnectionLost, Transport!BadAuthKey, Transport!TransmitFails,
            Transport!end, Transport!Launched
    <2>3. CASE \/ Transport!Pack \/ Transport!Repack \/ Transport!Transmit \/ Transport!LoopEnds
        BY <2>3 DEF Transport!Pack, Transport!Repack, Transport!Transmit, Transport!LoopEnds,
            Transport!owner, Transport!end
    <2> QED BY <1>6, <2>1, <2>2, <2>3, <2>4, <2>5 DEF Transport!Sending
<1>7. ASSUME NEW r \in Transport!Requests,
             \/ Transport!Invoke(r) \/ Transport!Enqueue(r) \/ Transport!Abort(r)
             \/ Transport!Timeout(r) \/ Transport!Answer(r) \/ Transport!Recover(r)
             \/ Transport!AnswerError(r) \/ Transport!BadSalt(r) \/ Transport!Flooded(r)
             \/ Transport!Succeed(r)
      PROVE  UNCHANGED <<terminal, closing, closed, up>>
    BY <1>7 DEF Transport!Invoke, Transport!Enqueue, Transport!Abort, Transport!Timeout,
        Transport!Answer, Transport!Recover, Transport!AnswerError, Transport!BadSalt,
        Transport!Flooded, Transport!Halved, Transport!Succeed, Transport!wire, Transport!owner, Transport!end
<1>8. ASSUME NEW r \in Transport!Requests, Transport!Acquire(r) \/ Transport!Fail(r)
      PROVE  /\ terminal' = terminal /\ closing' = closing /\ closed' = closed
             /\ ~up' \/ up' = up
    BY <1>8 DEF Transport!Acquire, Transport!Fail, Transport!Reconnects,
        Transport!Launched, Transport!wire, Transport!owner, Transport!end
<1> QED BY <1>2, <1>3, <1>4, <1>5, <1>6, <1>7, <1>8 DEF Transport!Next, Transport!Connection

(* After close no step but the answering of a flood is left.               *)
LEMMA QuietStep ==
    ASSUME TransportTyped, RequestsKnown, OwnerKnown, [Transport!Next]_(Transport!vars),
           closing' = "closed"
    PROVE  open' = {} /\ Transport!Quiet'
<1>1. CASE Transport!CloseEnds
    BY <1>1 DEF Transport!CloseEnds, Transport!Quiet, Transport!states
<1>2. CASE closing = "closed"
    <2>1. /\ open = {} /\ terminal /\ closed /\ loop = {} /\ flight.at = "none"
          /\ \A r \in Transport!Requests : request[r].at \in {"none", "done", "failed"}
        BY <1>2 DEF OwnerKnown, Transport!Quiet
    <2>2. pending = {}
        BY <2>1 DEF RequestsKnown, TransportTyped, WireTyped
    <2>3. ~Transport!Sending
        BY <2>1 DEF Transport!Sending, Transport!Pack, Transport!Repack, Transport!Transmit,
            Transport!TransmitFails, Transport!LoopEnds
    <2>4. Transport!Connection => Transport!Retryable
        BY <2>1 DEF Transport!Connection, Transport!Stopped, Transport!Try, Transport!Opened,
            Transport!OpenFails, Transport!GivesUp, Transport!ConnectionLost,
            Transport!BadAuthKey, Transport!Usable
    <2>5. ~Transport!Close
        BY <1>2 DEF Transport!Close
    <2>6. ASSUME NEW r \in Transport!Requests,
                 \/ Transport!Invoke(r) \/ Transport!Acquire(r) \/ Transport!Enqueue(r)
                 \/ Transport!Abort(r) \/ Transport!Timeout(r) \/ Transport!Answer(r)
                 \/ Transport!Recover(r) \/ Transport!AnswerError(r) \/ Transport!BadSalt(r)
                 \/ Transport!Flooded(r) \/ Transport!Succeed(r) \/ Transport!Fail(r)
          PROVE  FALSE
        BY <2>1, <2>2, <2>6 DEF Transport!Invoke, Transport!Acquire, Transport!Enqueue,
            Transport!Abort, Transport!Timeout, Transport!Answer, Transport!Recover,
            Transport!AnswerError, Transport!BadSalt, Transport!Flooded, Transport!Halved, Transport!Succeed,
            Transport!Fail, Transport!Waits
    <2>7. CASE Transport!Retryable \/ Transport!FloodEnds \/ UNCHANGED Transport!vars
        BY <2>1, <2>7 DEF Transport!Retryable, Transport!FloodEnds, Transport!vars,
            Transport!wire, Transport!states, Transport!Quiet
    <2> QED BY <1>1, <2>3, <2>4, <2>5, <2>6, <2>7 DEF Transport!Next
<1>3. CASE closing # "closed" /\ ~Transport!CloseEnds
    BY <1>3 DEF Transport!Close, Transport!Connection, Transport!Stopped, Transport!Try,
        Transport!Opened, Transport!OpenFails, Transport!GivesUp, Transport!Retryable,
        Transport!ConnectionLost, Transport!BadAuthKey, Transport!Sending, Transport!Pack,
        Transport!Repack, Transport!Transmit, Transport!TransmitFails, Transport!LoopEnds,
        Transport!FloodEnds, Transport!vars, Transport!end, Transport!Invoke, Transport!Acquire,
        Transport!Enqueue, Transport!Abort, Transport!Timeout, Transport!Answer, Transport!Recover,
        Transport!AnswerError, Transport!BadSalt, Transport!Flooded, Transport!Halved,
        Transport!Succeed, Transport!Fail, Transport!Next
<1> QED BY <1>1, <1>2, <1>3

LEMMA OwnerStep ==
    ASSUME TransportBounds, TransportTyped, RequestsKnown, OwnerKnown,
           [Transport!Next]_(Transport!vars)
    PROVE  OwnerKnown'
BY OpenStep, UpStep, QuietStep DEF OwnerKnown

LEMMA TransportInit ==
    ASSUME TransportBounds, Transport!Init
    PROVE  TransportInv
<1>1. /\ generation = 1 /\ closed = FALSE /\ flight = [at |-> "try", attempt |-> 0] /\ open = {}
      /\ made = 0 /\ up = FALSE /\ loop = {} /\ queue = {} /\ pending = {}
      /\ active = 0 /\ episode = 0 /\ limit = MaxFragments /\ responses = 0 /\ closing = "none"
      /\ sent = [r \in Transport!Requests |-> 0]
      /\ request = [r \in Transport!Requests |-> Transport!Fresh]
    BY DEF Transport!Init
<1>2. /\ Transport!Fresh \in ReadRecord /\ Transport!Fresh.at = "none" /\ ~Transport!Fresh.slot
      /\ Transport!Fresh.replays = 0
    BY DEF Transport!Fresh, ReadRecord, Positions, Errors
<1>3. TransportTyped
    BY <1>1, <1>2 DEF TransportTyped, WireTyped, CountsTyped, TransportBounds
<1>4. RequestsKnown
    BY <1>1, <1>2 DEF RequestsKnown, Weight, Entered, OneIf, InBatch, Entry, TransportBounds
<1>5. OwnerKnown
    BY <1>1 DEF OwnerKnown
<1>6. Transport!SlotsHeld
    BY <1>1, <1>2, FS_EmptySet, TransportCardinality DEF SlotHolders, Transport!SlotsHeld
<1> QED BY <1>3, <1>4, <1>5, <1>6 DEF TransportInv

LEMMA TransportStep ==
    ASSUME TransportBounds, TransportInv, [Transport!Next]_(Transport!vars)
    PROVE  TransportInv'
    BY RequestsStep, WireStep, SlotsStep, CountsStep, KnownStep, OwnerStep DEF TransportInv,
        TransportTyped, RequestsMove, WireMove

LEMMA TransportHolds ==
    ASSUME TransportBounds, TransportInv
    PROVE  Transport!TypeOK /\ Transport!TransportKept
<1>1. TransportTyped /\ RequestsKnown /\ OwnerKnown /\ Transport!SlotsHeld
    BY DEF TransportInv
<1>2. ASSUME NEW S, S = {} \/ \E x : S = {x}
      PROVE  Transport!Cardinality(S) \in 0..1
    BY TransportCardinality, FS_EmptySet, FS_Singleton, <1>2
<1>3. Transport!TypeOK
    BY <1>1, <1>2 DEF TransportTyped, WireTyped, Transport!TypeOK, CountsTyped
<1>4. Transport!OnlyOwned
    BY <1>1, ReadParts DEF RequestsKnown, Transport!Waits, TransportTyped, WireTyped,
        TransportBounds, Weight, Entered, OneIf, Transport!OnlyOwned
<1>5. Transport!OneConnection
    <2>1. Transport!Cardinality(open) \in 0..1
        BY <1>1, <1>2 DEF OwnerKnown
    <2> QED BY <2>1 DEF Transport!OneConnection
<1>6. Transport!ClosedIsQuiet
    BY <1>1 DEF OwnerKnown, Transport!ClosedIsQuiet, Transport!Quiet
<1> QED BY <1>1, <1>3, <1>4, <1>5, <1>6 DEF Transport!TransportKept

(* In every execution the variables of a sender keep their types, and with *)
(* them TransportKept: what has ended is neither sent nor awaited, only    *)
(* reads of files are repeated, and those MaxReplays times; there is one   *)
(* connection at a time; the reads counted at the gate are those that hold *)
(* a slot of it; and after close nothing is open or under way.             *)
THEOREM TransportTheorem ==
    ASSUME TransportBounds
    PROVE  Transport!Spec => [](Transport!TypeOK /\ Transport!TransportKept)
<1>1. Transport!Init => TransportInv
    BY TransportInit
<1>2. TransportInv /\ [Transport!Next]_(Transport!vars) => TransportInv'
    BY TransportStep
<1>3. TransportInv => Transport!TypeOK /\ Transport!TransportKept
    BY TransportHolds
<1> QED BY <1>1, <1>2, <1>3, PTL DEF Transport!Spec

-----------------------------------------------------------------------------
(* OneDrive.                                                               *)

SizesAreNumbers == Sizes \subseteq Nat /\ Attempts \in Nat

Early == {"folder", "make", "look"}
Under == OneDrive!NoRequest   \* no request is under way

(* The file is there exactly when this upload made it, which closes the    *)
(* session of a large one.                                                 *)
MadeIsThere ==
    /\ made \in {0, 1} /\ (made = 1 <=> target = "ours")
    /\ other => target = "theirs"
    /\ made = 1 => fragments = 0 \/ session.state = "done"

(* A small file has no session, and before the first request nothing is    *)
(* made or on its way; a request is made again only after a try.           *)
SmallKnown ==
    fragments = 0 =>
        /\ session = OneDrive!NoSession
        /\ pc \in OneDrive!Final \cup Early \cup {"put", "check"}
        /\ pc = "put" => tries > 0 \/ (made = 0 /\ late = Under)

(* A request under way is one that was sent before: what the session has   *)
(* is past it, unless the upload has tried since.                          *)
LargeKnown ==
    fragments > 0 =>
        /\ pc \notin {"put", "check"}
        /\ pc \in {"send", "ask"} =>
               /\ at < fragments /\ at <= session.got /\ session.state # "none"
               /\ pc = "ask" => tries > 0
        /\ late # Under => late <= at + 1 /\ late <= fragments
        /\ pc = "send" => tries > 0 \/ (made = 0 /\ (late = Under \/ late <= session.got))

(* Before a file was sent in this attempt there is none.                   *)
NothingMade ==
    /\ pc \in Early \cup {"open"} => made = 0 /\ late = Under
    /\ pc \in Early => session = OneDrive!NoSession

(* An upload that fails has made nothing, or could not look.               *)
FailsKnown ==
    /\ pc = "close" => session.state # "none" /\ (made > 0 => blind)
    /\ pc = "finished" => fragments > 0 /\ session.got = fragments

(* The types, in parts that the provers can do with.                       *)
Flags ==
    /\ folder \in BOOLEAN /\ other \in BOOLEAN /\ blind \in BOOLEAN
    /\ left \in BOOLEAN

Values ==
    /\ fragments \in Sizes /\ target \in {"none", "ours", "theirs"}
    /\ made \in Nat /\ strays \in Nat /\ at \in Nat /\ tries \in Nat
    /\ restarts \in Nat /\ late \in Nat
    /\ pc \in OneDrive!Final \cup Early
              \cup {"put", "check", "open", "send", "ask", "expired", "finished", "close"}
    /\ cause \in {OneDrive!None, OneDrive!Conflict, OneDrive!Transient}

Sessions ==
    /\ session \in [state : {"none", "open", "gone", "done"}, got : Nat]
    /\ session.got <= fragments

Facts ==
    /\ Values /\ Sessions /\ OneDrive!OneDriveKept /\ MadeIsThere
    /\ SmallKnown /\ LargeKnown /\ NothingMade /\ FailsKnown

OneDriveInv == Flags /\ Facts

LEMMA OneDriveTypes == OneDriveInv => OneDrive!TypeOK
  BY DEF OneDriveInv, Facts, Flags, Values, Sessions, Early, OneDrive!TypeOK,
     OneDrive!None, OneDrive!Final

(* What a fragment does to the session and the target.                     *)
LEMMA FragmentDoes ==
    ASSUME OneDriveInv, NEW f \in Nat, OneDrive!Fragment(f), f < fragments,
           SizesAreNumbers
    PROVE  /\ session' \in [state : {"none", "open", "gone", "done"}, got : Nat]
           /\ session'.got \in 0..fragments
           /\ \/ /\ OneDrive!Commits(f) /\ session'.state = "done"
                 /\ session'.got = f + 1 /\ f + 1 = fragments
                 /\ target = "none" /\ target' = "ours" /\ made = 0 /\ made' = 1
                 /\ session.state = "open" /\ session.got = f
              \/ /\ ~OneDrive!Commits(f) /\ OneDrive!Takes(f) /\ session.state = "open"
                 /\ session'.state = "open"
                 /\ session.got = f /\ session'.got = f + 1
                 /\ UNCHANGED <<target, made>>
              \/ ~OneDrive!Takes(f) /\ UNCHANGED <<session, target, made>>
  BY DEF OneDriveInv, Facts, OneDrive!Fragment, OneDrive!Takes, OneDrive!Commits,
     OneDrive!Created, OneDrive!Create, OneDrive!None, Values, Sessions,
     MadeIsThere, SizesAreNumbers

LEMMA TriedOrNot ==
    ASSUME tries \in Nat, blind' = (tries > 0)
    PROVE  blind' \in BOOLEAN /\ (tries > 0 => blind')
<1>1. blind' \in BOOLEAN
  BY SMT
<1>2. tries > 0 => blind'
  BY Zenon
<1>3. QED
  BY <1>1, <1>2

LEMMA BlindAfterTheEnd ==
    ASSUME blind \in BOOLEAN, NEW e, blind' = (blind \/ pc \in e)
    PROVE  (blind => blind') /\ (pc \in e => blind')
  BY Zenon

LEMMA OneDriveStep ==
    ASSUME SizesAreNumbers, OneDriveInv, [OneDrive!Next]_OneDrive!vars
    PROVE  OneDriveInv'
<1> USE DEF OneDriveInv, Facts, Flags, Values, Sessions, OneDrive!OneDriveKept,
            OneDrive!StoredIsThere, OneDrive!OneObject, OneDrive!FailureIsKnown,
            OneDrive!SessionsClosed, MadeIsThere, SmallKnown, LargeKnown, NothingMade,
            FailsKnown, Under, Early, OneDrive!Final, OneDrive!None,
            OneDrive!NoSession, OneDrive!NoRequest, OneDrive!local, OneDrive!remote,
            OneDrive!Failed, OneDrive!Fail, OneDrive!Conflict, OneDrive!Transient
<1>0. fragments \in Nat /\ Attempts \in Nat
  BY DEF SizesAreNumbers
<1>1. CASE OneDrive!EnsureFolder
  <2>1. Flags'
    BY <1>1 DEF OneDrive!EnsureFolder
  <2>2. Facts'
    BY <1>0, <1>1 DEF OneDrive!EnsureFolder
  <2>3. QED
    BY <2>1, <2>2
<1>2. CASE OneDrive!Look
  BY <1>2, <1>0 DEF OneDrive!Look
<1>3. CASE OneDrive!Put
  BY <1>3, TriedOrNot, <1>0 DEF OneDrive!Put, OneDrive!Created, OneDrive!Create
<1>4. CASE OneDrive!Check
  <2>1. Flags'
    BY <1>4 DEF OneDrive!Check, OneDrive!Matches, OneDrive!Again
  <2>2. Facts'
    BY <1>0, <1>4 DEF OneDrive!Check, OneDrive!Matches, OneDrive!Again
  <2>3. QED
    BY <2>1, <2>2
<1>5. CASE OneDrive!Open
  BY <1>5, <1>0 DEF OneDrive!Open
<1>6. CASE OneDrive!Send
  BY <1>0, <1>6, TriedOrNot, FragmentDoes DEF OneDrive!Send
<1>7. CASE OneDrive!Ask
  <2>1. Flags'
    BY <1>7 DEF OneDrive!Ask, OneDrive!Progressed
  <2>2. Facts'
    BY <1>0, <1>7 DEF OneDrive!Ask, OneDrive!Progressed
  <2>3. QED
    BY <2>1, <2>2
<1>8. CASE OneDrive!Verify
  <2>1. Flags'
    BY <1>8 DEF OneDrive!Verify, OneDrive!Matches, OneDrive!Restartable
  <2>2. Facts'
    BY <1>0, <1>8 DEF OneDrive!Verify, OneDrive!Matches, OneDrive!Restartable
  <2>3. QED
    BY <2>1, <2>2
<1>9. CASE OneDrive!Close
  <2>1. Flags'
    BY <1>9 DEF OneDrive!Close
  <2>2. Facts'
    BY <1>0, <1>9 DEF OneDrive!Close
  <2>3. QED
    BY <2>1, <2>2
<1>10. CASE OneDrive!Late
  <2>1. Flags'
    BY <1>10 DEF OneDrive!Late
  <2>0. (blind => blind') /\ (pc \in OneDrive!Final \union {"close"} => blind')
    BY <1>10, BlindAfterTheEnd DEF OneDrive!Late
  <2>2. CASE fragments = 0
    BY <1>0, <1>10, <2>0, <2>2, <2>1 DEF OneDrive!Late, OneDrive!Created, OneDrive!Create
  <2>3. CASE fragments > 0
    <3> DEFINE f == late - 1
    <3>1. f \in Nat /\ f < fragments /\ f <= at /\ OneDrive!Fragment(f)
      BY <1>0, <1>10, <2>3 DEF OneDrive!Late
    <3> HIDE DEF f
    <3>2. /\ session' \in [state : {"none", "open", "gone", "done"}, got : Nat]
          /\ session'.got \in 0..fragments
          /\ \/ /\ session'.state = "done"
                 /\ session'.got = f + 1 /\ f + 1 = fragments
                 /\ target = "none" /\ target' = "ours" /\ made = 0 /\ made' = 1
                 /\ session.state = "open" /\ session.got = f
             \/ /\ session.state = "open" /\ session'.state = "open"
                 /\ session.got = f /\ session'.got = f + 1
                 /\ UNCHANGED <<target, made>>
             \/ UNCHANGED <<session, target, made>>
      BY <3>1, FragmentDoes
    <3>3. Values' /\ Sessions'
      BY <1>0, <1>10, <2>0, <2>3, <3>1, <3>2 DEF OneDrive!Late, f
    <3>4. OneDrive!OneDriveKept'
      BY <1>0, <1>10, <2>0, <2>3, <3>1, <3>2 DEF OneDrive!Late, f
    <3>5. MadeIsThere'
      BY <1>0, <1>10, <2>0, <2>3, <3>1, <3>2 DEF OneDrive!Late, f
    <3>6. SmallKnown'
      BY <1>0, <1>10, <2>0, <2>3, <3>1, <3>2 DEF OneDrive!Late, f
    <3>7. LargeKnown'
      BY <1>0, <1>10, <2>0, <2>3, <3>1, <3>2 DEF OneDrive!Late, f
    <3>8. NothingMade' /\ FailsKnown'
      BY <1>0, <1>10, <2>0, <2>3, <3>1, <3>2 DEF OneDrive!Late, f
    <3>9. QED
      BY <2>1, <3>3, <3>4, <3>5, <3>6, <3>7, <3>8
  <2>4. QED
    BY <1>0, <2>2, <2>3
<1>11. CASE OneDrive!Other
  <2>1. Flags'
    BY <1>11 DEF OneDrive!Other
  <2>2. Facts'
    BY <1>0, <1>11 DEF OneDrive!Other
  <2>3. QED
    BY <2>1, <2>2
<1>12. CASE OneDrive!Expire
  BY <1>12, <1>0 DEF OneDrive!Expire
<1>13. CASE OneDrive!Abort
  BY <1>13, <1>0 DEF OneDrive!Abort
<1>14. CASE UNCHANGED OneDrive!vars
  BY <1>14, <1>0 DEF OneDrive!vars
<1>15. QED
  BY <1>1, <1>2, <1>3, <1>4, <1>5, <1>6, <1>7, <1>8, <1>9, <1>10, <1>11, <1>12,
     <1>13, <1>14 DEF OneDrive!Next, OneDrive!Upload

LEMMA OneDriveInit == SizesAreNumbers /\ OneDrive!Init => OneDriveInv
<1> SUFFICES ASSUME SizesAreNumbers, OneDrive!Init PROVE OneDriveInv
  OBVIOUS
<1> USE DEF OneDrive!Init, OneDrive!None, OneDrive!NoSession, OneDrive!NoRequest,
            OneDrive!Final, Early, Under
<1>1. Flags
  BY DEF Flags
<1>2. Values /\ Sessions
  BY DEF Values, Sessions, SizesAreNumbers
<1>3. OneDrive!OneDriveKept /\ MadeIsThere
  BY DEF OneDrive!OneDriveKept, OneDrive!StoredIsThere, OneDrive!OneObject,
     OneDrive!FailureIsKnown, OneDrive!SessionsClosed, MadeIsThere
<1>4. SmallKnown /\ LargeKnown /\ NothingMade /\ FailsKnown
  BY DEF SmallKnown, LargeKnown, NothingMade, FailsKnown
<1>5. QED
  BY <1>1, <1>2, <1>3, <1>4 DEF OneDriveInv, Facts

(* An upload that reports success has its file at the target, which it     *)
(* made once and not in the place of another's; one that fails after it    *)
(* made the file could not look; no session stays open unless its DELETE   *)
(* failed.  For files of any size, any number of attempts and of lost and  *)
(* late answers (oneDriveUpload.ts).                                       *)
THEOREM OneDriveKeeps ==
    SizesAreNumbers => (OneDrive!Spec => [](OneDrive!TypeOK /\ OneDrive!OneDriveKept))
<1> SUFFICES ASSUME SizesAreNumbers
             PROVE  OneDrive!Spec => [](OneDrive!TypeOK /\ OneDrive!OneDriveKept)
  OBVIOUS
<1>1. OneDrive!Init => OneDriveInv
  BY OneDriveInit
<1>2. OneDriveInv /\ [OneDrive!Next]_OneDrive!vars => OneDriveInv'
  BY OneDriveStep
<1>3. OneDriveInv => OneDrive!TypeOK /\ OneDrive!OneDriveKept
  BY OneDriveTypes DEF OneDriveInv, Facts
<1>4. QED
  BY <1>1, <1>2, <1>3, PTL DEF OneDrive!Spec

-----------------------------------------------------------------------------
(* Google Drive.                                                           *)

PathsAreNested ==
    Depth \in Nat \ {0} /\ Providers \in Nat \ {0} /\ "nobody" \notin Writes

Seeking == {"new", "path", "wait", "find", "make"}
Making == {"find", "make"}
Sending == {"create", "inspect", "pause"}
Uploads ==
    [pc : Google!Final \union Seeking \union Sending \union {"id"}, by : Google!Objects,
     level : Nat \ {0}, parent : 0..born, seen : 0..born, tries : Nat,
     first : {"none", "transient", "quota", "denied", "missing", "conflict"},
     conflict : BOOLEAN]
Folders ==
    [id : 1..born, level : Google!Levels, parent : 0..born, by : Google!Objects,
     seen : 0..born, late : BOOLEAN]

FolderTypes ==
    /\ born \in Nat /\ troubles \in Nat /\ provider \in Google!Objects
    /\ folders \subseteq Folders
    /\ cache \in [Google!Keys -> 0..born]
    /\ lock \in [Google!Keys -> Writes \union {"nobody"}]
    /\ makes \subseteq Writes
    /\ w \in [Writes -> Uploads]
    /\ \A i \in Writes : w[i].pc \in Seeking \/ i \in makes => w[i].level \in Google!Levels
    /\ \A i \in makes : w[i].pc = "failed"

StoreTypes ==
    /\ files \in [Writes -> 0..born] /\ copies \in [Writes -> Nat]
    /\ late \subseteq Writes /\ blind \subseteq Writes

(* A promise is kept by the upload that looks for or makes its folder, and *)
(* whoever waits has one to wait for.                                      *)
LockOwners ==
    /\ \A i \in Writes :
           /\ w[i].pc \in Making => lock[Google!Key(i)] = i
           /\ w[i].pc = "wait" => lock[Google!Key(i)] # "nobody"
    /\ \A k \in Google!Keys :
           lock[k] # "nobody" => w[lock[k]].pc \in Making /\ Google!Key(lock[k]) = k

(* The parent of an upload is the folder cached for the level before, and  *)
(* a folder is looked for as long as none is cached.                       *)
Above(i) == <<w[i].by, w[i].level - 1>>
ParentsCached ==
    \A i \in Writes :
        /\ w[i].pc \in Making => cache[Google!Key(i)] = 0
        /\ w[i].pc = "new" \/ w[i].level = 1 => w[i].level = 1 /\ w[i].parent = 0
        /\ w[i].level > 1 =>
               Above(i) \in Google!Keys /\ cache[Above(i)] = w[i].parent /\ w[i].parent # 0

(* A folder that is there when another is to be made was not there when    *)
(* its upload looked, and comes from another provider object or late.      *)
Beside(f, i) == f.level = w[i].level /\ f.parent = w[i].parent
NotMadeYet ==
    \A i \in Writes, f \in folders : Beside(f, i) =>
        /\ w[i].pc = "make" \/ i \in makes => w[i].seen < f.id
        /\ w[i].pc = "make" => f.by # w[i].by \/ f.late

(* Before the first request there is no file and none under way.           *)
FilesKnown ==
    \A i \in Writes :
        /\ copies[i] <= 1 /\ (copies[i] = 0 => files[i] = 0)
        /\ w[i].pc \in Seeking \union {"id"} \/ (w[i].pc = "create" /\ w[i].tries = 0)
               => copies[i] = 0 /\ i \notin late
        /\ files[i] \in {0, w[i].parent}

StoreInv == StoreTypes /\ FilesKnown /\ Google!StoredOnce
FolderInv == FolderTypes /\ LockOwners /\ ParentsCached /\ NotMadeYet /\ Google!OneFolder
GoogleInv == FolderInv /\ StoreInv

LEMMA GoogleTypes == PathsAreNested /\ GoogleInv => Google!TypeOK /\ Google!GoogleKept
<1> SUFFICES ASSUME PathsAreNested, GoogleInv PROVE Google!TypeOK /\ Google!GoogleKept
  OBVIOUS
<1> USE DEF PathsAreNested, GoogleInv, FolderInv
<1>1. Google!TypeOK
  BY DEF FolderTypes, Folders, StoreInv, StoreTypes, Google!TypeOK, Uploads, Seeking, Sending,
      Google!Final, Google!Nobody
<1>2. Google!SameFolders
  <2> SUFFICES ASSUME NEW i \in Writes, NEW j \in Writes, Google!Key(i) = Google!Key(j)
               PROVE  w[i].parent = w[j].parent
    BY DEF Google!SameFolders
  <2>1. w[i].by = w[j].by /\ w[i].level = w[j].level /\ w[i].level \in Nat \ {0}
    BY DEF Google!Key, FolderTypes, Uploads
  <2>2. Above(i) = Above(j)
    BY <2>1 DEF Above
  <2>3. QED
    BY <2>1, <2>2 DEF ParentsCached
<1>3. Google!LocksHeld
  BY DEF Google!LocksHeld, Google!Awaits, LockOwners, FolderTypes, Seeking, Making, Uploads,
      Google!Key, Google!Keys
<1>4. QED
  BY <1>1, <1>2, <1>3 DEF StoreInv, Google!GoogleKept

LEMMA GoogleInit == PathsAreNested /\ Google!Init => GoogleInv
    BY DEF PathsAreNested, Google!Init, Google!Nobody, Google!None, Uploads, Seeking, Google!Levels,
        Google!Objects, FolderInv, FolderTypes, LockOwners, ParentsCached, NotMadeYet,
        Google!OneFolder, Making, StoreInv, StoreTypes, FilesKnown, Google!StoredOnce, GoogleInv

(* The upload x whose record is the only one a step changes.               *)
LEMMA OnlyOne ==
    ASSUME NEW i \in Writes, NEW x, w \in [Writes -> Uploads], w' = [w EXCEPT ![i] = x]
    PROVE  w'[i] = x /\ \A j \in Writes \ {i} : w'[j] = w[j]
  OBVIOUS

(* A step of one upload that keeps its place, and makes nothing.           *)
LEMMA FoldersAside ==
    ASSUME PathsAreNested, FolderInv, NEW i \in Writes, NEW x \in Uploads, i \notin makes,
           w' = [w EXCEPT ![i] = x], w[i].pc \notin Making \union {"wait"},
           x.pc \notin Making \union {"wait", "new"},
           x.pc \in Seeking => x.level \in Google!Levels,
           x.level = w[i].level, x.parent = w[i].parent, x.by = w[i].by \/ x.level = 1,
           UNCHANGED <<folders, born, cache, lock, makes>>, provider' \in Google!Objects,
           troubles' \in Nat
    PROVE  FolderInv'
<1> USE DEF FolderInv
<1>1. w'[i] = x /\ \A j \in Writes \ {i} : w'[j] = w[j]
  BY OnlyOne DEF FolderTypes
<1>2. FolderTypes'
  BY <1>1 DEF FolderTypes, Uploads, Folders
<1>3. LockOwners'
  BY <1>1 DEF LockOwners, FolderTypes, Google!Key
<1>4. ParentsCached'
  <2> SUFFICES ASSUME NEW j \in Writes
               PROVE  /\ w'[j].pc \in Making => cache'[Google!Key(j)'] = 0
                      /\ w'[j].pc = "new" \/ w'[j].level = 1 => w'[j].level = 1 /\ w'[j].parent = 0
                      /\ w'[j].level > 1 => /\ Above(j)' \in Google!Keys
                                            /\ cache'[Above(j)'] = w'[j].parent
                                            /\ w'[j].parent # 0
    BY DEF ParentsCached
  <2>1. CASE j = i /\ x.level = 1
    BY <1>1, <2>1 DEF ParentsCached
  <2>2. CASE j = i /\ x.by = w[i].by
    BY <1>1, <2>2 DEF Above, ParentsCached
  <2>3. CASE j # i
    BY <1>1, <2>3 DEF Above, Google!Key, ParentsCached
  <2>4. QED
    BY <2>1, <2>2, <2>3
<1>5. NotMadeYet' /\ Google!OneFolder'
  BY <1>1 DEF NotMadeYet, Beside, Google!OneFolder, Making
<1>6. QED
  BY <1>2, <1>3, <1>4, <1>5

(* A step that leaves the files alone, of uploads that sent nothing yet.   *)
LEMMA FilesAside ==
    ASSUME StoreInv, UNCHANGED Google!store, born \in Nat, born' \in Nat, born <= born',
           \A j \in Writes :
               \/ w'[j] = w[j]
               \/ /\ w[j].pc \in Seeking \union {"id"}
                  /\ w'[j].pc \in Seeking \union {"id", "create", "failed"}
    PROVE  StoreInv'
    BY DEF StoreInv, Google!store, StoreTypes, FilesKnown, Seeking, Google!StoredOnce

LEMMA ReinitStep ==
    ASSUME PathsAreNested, GoogleInv, Google!Reinit
    PROVE  GoogleInv'
    BY DEF GoogleInv, FolderInv, PathsAreNested, Google!Reinit, Google!store, FolderTypes,
        Google!Objects, Uploads, Folders, LockOwners, ParentsCached, Above, NotMadeYet, Beside,
        Google!OneFolder, Google!Key, StoreInv, StoreTypes, FilesKnown, Google!StoredOnce

LEMMA BeginStep ==
    ASSUME PathsAreNested, GoogleInv, NEW i \in Writes, Google!Begin(i)
    PROVE  GoogleInv'
<1> USE DEF GoogleInv
<1> DEFINE x == [w[i] EXCEPT !.pc = "path", !.by = provider]
<1>1. /\ w[i].pc = "new" /\ w' = [w EXCEPT ![i] = x]
      /\ UNCHANGED Google!paths /\ UNCHANGED Google!store /\ UNCHANGED troubles
  BY DEF Google!Begin
<1>2. /\ w[i] \in Uploads /\ provider \in Google!Objects /\ w \in [Writes -> Uploads]
      /\ i \notin makes /\ born \in Nat /\ troubles \in Nat
      /\ w[i].level = 1 /\ w[i].parent = 0 /\ 1 \in Google!Levels
  BY <1>1 DEF FolderInv, FolderTypes, ParentsCached, PathsAreNested, Google!Levels
<1>3. /\ x \in Uploads /\ x.pc = "path" /\ x.level = w[i].level /\ x.parent = w[i].parent
  BY <1>2 DEF Uploads, Seeking
<1> HIDE DEF x
<1>4. FolderInv'
  BY <1>1, <1>2, <1>3, FoldersAside DEF Making, Google!paths, FolderInv, FolderTypes
<1>5. w'[i] = x /\ \A j \in Writes \ {i} : w'[j] = w[j]
  BY <1>1, <1>2, OnlyOne
<1>6. StoreInv'
  BY <1>1, <1>2, <1>3, <1>5, FilesAside DEF Seeking, Google!paths
<1>7. QED
  BY <1>4, <1>6

(* Who keeps the promises, said of the next state of one upload at a time. *)
LEMMA LockOwnersAre ==
    ASSUME lock' \in [Google!Keys -> Writes \union {"nobody"}],
           \A j \in Writes :
               /\ w'[j].pc \in Making => lock'[Google!Key(j)'] = j
               /\ w'[j].pc = "wait" => lock'[Google!Key(j)'] # "nobody",
           \A c \in Google!Keys, j \in Writes :
               lock'[c] = j /\ j # "nobody" => w'[j].pc \in Making /\ Google!Key(j)' = c
    PROVE  LockOwners'
  BY DEF LockOwners, Google!Key

(* The upload goes on with a folder: the record it then has.               *)
LEMMA GivenOrRejected ==
    ASSUME PathsAreNested, NEW x \in Uploads, x.pc \in Seeking, x.level \in Google!Levels,
           born \in Nat, born' \in Nat, born <= born', NEW id \in 0..born'
    PROVE  /\ Google!Given(x, id) \in Uploads'
           /\ Google!Given(x, id).pc \in {"path", "id"}
           /\ Google!Given(x, id).pc = "path" => Google!Given(x, id).level \in Google!Levels
           /\ Google!Given(x, id).by = x.by /\ Google!Given(x, id).level = x.level + 1
           /\ Google!Given(x, id).parent = id
           /\ Google!Reject(x) \in Uploads' /\ Google!Reject(x).pc = "failed"
           /\ Google!Reject(x).by = x.by /\ Google!Reject(x).level = x.level
           /\ Google!Reject(x).parent = x.parent /\ Google!Reject(x).seen = x.seen
<1> DEFINE p == IF x.level = Depth THEN "id" ELSE "path"
<1>1. Google!Given(x, id) = [x EXCEPT !.parent = id, !.level = x.level + 1, !.pc = p]
  BY DEF Google!Given
<1>2. /\ x.level \in Nat \ {0} /\ x.tries \in Nat /\ x.conflict \in BOOLEAN
      /\ x.parent \in 0..born' /\ x.seen \in 0..born' /\ x.by \in Google!Objects
      /\ x.first \in {"none", "transient", "quota", "denied", "missing", "conflict"}
  BY DEF Uploads
<1>3. Google!Given(x, id) =
          [pc |-> p, by |-> x.by, level |-> x.level + 1, parent |-> id, seen |-> x.seen,
           tries |-> x.tries, first |-> x.first, conflict |-> x.conflict]
  BY <1>1 DEF Uploads
<1>4. Google!Given(x, id) \in Uploads'
  BY <1>2, <1>3 DEF Uploads, Seeking
<1>5. Google!Reject(x) =
          [pc |-> "failed", by |-> x.by, level |-> x.level, parent |-> x.parent, seen |-> x.seen,
           tries |-> x.tries, first |-> x.first, conflict |-> x.conflict]
  BY DEF Uploads, Google!Reject
<1>6. Google!Reject(x) \in Uploads'
  BY <1>2, <1>5 DEF Uploads, Google!Final
<1>7. x.level + 1 \in Google!Levels \/ x.level = Depth
  BY DEF PathsAreNested, Google!Levels
<1>8. QED
  BY <1>3, <1>4, <1>5, <1>6, <1>7

LEMMA EnsureChildStep ==
    ASSUME PathsAreNested, GoogleInv, NEW i \in Writes, Google!EnsureChild(i)
    PROVE  GoogleInv'
<1> USE DEF GoogleInv, FolderInv, PathsAreNested
<1> DEFINE k == Google!Key(i)
<1>0. /\ k \in Google!Keys /\ w[i].level \in Google!Levels /\ w[i].pc = "path" /\ w[i] \in Uploads
      /\ born \in Nat /\ i \notin makes
      /\ cache[k] \in 0..born /\ lock \in [Google!Keys -> Writes \union {"nobody"}]
  BY DEF Google!EnsureChild, FolderTypes, Seeking, Google!Key, Google!Keys, Uploads
<1>1. UNCHANGED <<folders, born, provider, cache, makes, Google!store, troubles>>
  BY DEF Google!EnsureChild
<1>2. PICK x :
          /\ w' = [w EXCEPT ![i] = x]
          /\ x = IF cache[k] # 0 THEN Google!Given(w[i], cache[k])
                 ELSE [w[i] EXCEPT !.pc = IF lock[k] = "nobody" THEN "find" ELSE "wait"]
          /\ lock' = IF cache[k] = 0 /\ lock[k] = "nobody" THEN [lock EXCEPT ![k] = i] ELSE lock
  BY DEF Google!EnsureChild, Google!Owns, Google!Cached, Google!Nobody
<1>3. w'[i] = x /\ \A j \in Writes \ {i} : w'[j] = w[j]
  BY <1>2, OnlyOne DEF FolderTypes
<1>4. /\ x \in Uploads
      /\ x.pc \in {"path", "id", "find", "wait"}
      /\ x.pc = "path" => x.level \in Google!Levels
      /\ x.by = w[i].by
      /\ x.pc \in {"find", "wait"} =>
             x.level = w[i].level /\ x.parent = w[i].parent /\ cache[k] = 0
      /\ x.pc = "find" => lock[k] = "nobody"
      /\ x.pc = "wait" => lock[k] # "nobody"
      /\ x.pc \in {"path", "id"} =>
             cache[k] # 0 /\ x.level = w[i].level + 1 /\ x.parent = cache[k]
  BY <1>1, <1>0, GivenOrRejected, <1>2 DEF Uploads, Seeking
<1>5. FolderTypes'
  BY <1>1, <1>0, <1>2, <1>4, <1>3 DEF Uploads, Folders, FolderTypes, Seeking
<1>5a. lock' \in [Google!Keys -> Writes \union {"nobody"}]
  BY <1>5 DEF FolderTypes
<1>a. \A j \in Writes \ {i} : Google!Key(j)' = Google!Key(j)
  BY <1>3 DEF Google!Key
<1>b. x.pc \in {"find", "wait"} => Google!Key(i)' = k
  BY <1>3, <1>4 DEF Google!Key
<1>6. LockOwners'
  <2>1. CASE lock' = lock
    BY <1>0, <1>2, <1>4, <2>1, <1>3, <1>a, <1>b, <1>5a, LockOwnersAre DEF Making, LockOwners
  <2>2. CASE lock' = [lock EXCEPT ![k] = i] /\ cache[k] = 0 /\ lock[k] = "nobody"
    <3>1. x.pc = "find" /\ Google!Key(i)' = k /\ lock'[k] = i
      BY <1>0, <1>2, <1>4, <1>b, <2>2
    <3>2. ASSUME NEW j \in Writes
          PROVE  /\ w'[j].pc \in Making => lock'[Google!Key(j)'] = j
                 /\ w'[j].pc = "wait" => lock'[Google!Key(j)'] # "nobody"
      BY <1>3, <3>1, <1>a, <2>2, <1>0 DEF LockOwners, FolderTypes, Seeking, Making, Google!Key,
          Google!Keys, Uploads
    <3>3. ASSUME NEW c \in Google!Keys, NEW j \in Writes, lock'[c] = j, j # "nobody"
          PROVE  w'[j].pc \in Making /\ Google!Key(j)' = c
      BY <1>3, <1>4, <2>2, <3>1, <3>3, <1>0, <1>a DEF Making, LockOwners
    <3>4. QED
      BY <1>5a, <3>2, <3>3, LockOwnersAre
  <2>3. QED
    BY <1>2, <2>1, <2>2
<1>7. ParentsCached'
  <2>1. ASSUME NEW j \in Writes \ {i}
        PROVE  /\ w'[j].pc \in Making => cache'[Google!Key(j)'] = 0
               /\ w'[j].pc = "new" \/ w'[j].level = 1 => w'[j].level = 1 /\ w'[j].parent = 0
               /\ w'[j].level > 1 =>
                      Above(j)' \in Google!Keys /\ cache'[Above(j)'] = w'[j].parent /\ w'[j].parent # 0
    BY <1>1, <1>3, <1>a DEF Above, ParentsCached
  <2>2. /\ w'[i].pc \in Making => cache'[Google!Key(i)'] = 0
        /\ w'[i].pc = "new" \/ w'[i].level = 1 => w'[i].level = 1 /\ w'[i].parent = 0
        /\ w'[i].level > 1 =>
               Above(i)' \in Google!Keys /\ cache'[Above(i)'] = w'[i].parent /\ w'[i].parent # 0
    BY <1>0, <1>1, <1>3, <1>4, <1>b DEF ParentsCached, Above, Google!Key, Google!Levels, Uploads,
        Making
  <2>3. QED
    BY <2>1, <2>2 DEF ParentsCached
<1>8. NotMadeYet' /\ Google!OneFolder'
  BY <1>0, <1>1, <1>3, <1>4 DEF NotMadeYet, Beside, Google!OneFolder
<1>9. StoreInv'
  BY <1>0, <1>3, <1>4, <1>1, FilesAside DEF Seeking
<1>10. QED
  BY <1>5, <1>6, <1>7, <1>8, <1>9

(* What the end of a promise does.                                         *)
LEMMA SettleDoes ==
    ASSUME PathsAreNested, FolderInv, NEW i \in Writes, w[i].pc \in Making,
           born' \in Nat, born <= born', NEW id \in 0..born', Google!Settle(i, id)
    PROVE  /\ lock' \in [Google!Keys -> Writes \union {"nobody"}]
           /\ cache' \in [Google!Keys -> 0..born']
           /\ w' \in [Writes -> Uploads']
           /\ \A j \in Writes : w'[j].pc \in Seeking => w'[j].level \in Google!Levels
           /\ LockOwners' /\ ParentsCached'
           /\ w'[i].pc \notin Making
           /\ id = 0 => /\ w'[i].pc = "failed" /\ w'[i].level = w[i].level
                        /\ w'[i].parent = w[i].parent /\ w'[i].seen = w[i].seen
           /\ \A j \in Writes :
                  \/ w'[j] = w[j]
                  \/ w[j].pc \in Seeking /\ w'[j].pc \in {"path", "id", "failed"}
<1> USE DEF FolderInv, PathsAreNested
<1> DEFINE k == Google!Key(i)
           concerned(j) == j = i \/ Google!Awaits(j, i)
           given(j) == IF id = 0 THEN Google!Reject(w[j]) ELSE Google!Given(w[j], id)
<1>0. /\ k \in Google!Keys /\ born \in Nat /\ cache[k] = 0 /\ lock[k] = i
      /\ lock \in [Google!Keys -> Writes \union {"nobody"}]
      /\ cache \in [Google!Keys -> 0..born]
      /\ \A j \in Writes : w[j] \in Uploads
      /\ \A j \in Writes : w[j].pc \in Seeking => w[j].level \in Google!Levels
      /\ \A j \in Writes : w[j].pc \in Seeking => Google!Key(j) \in Google!Keys
  BY DEF FolderTypes, LockOwners, ParentsCached, Seeking, Making, Google!Key, Google!Keys, Uploads
<1>1. /\ lock' = [lock EXCEPT ![k] = "nobody"]
      /\ cache' = IF id = 0 THEN cache ELSE [cache EXCEPT ![k] = id]
  BY DEF Google!Settle, Google!Nobody
<1>2. w' = [j \in Writes |-> IF concerned(j) THEN given(j) ELSE w[j]]
  BY DEF Google!Settle
<1>3. \A j \in Writes : concerned(j) => w[j].pc \in Seeking /\ Google!Key(j) = k
  BY DEF Seeking, Making, Google!Awaits
<1>4. ASSUME NEW j \in Writes, concerned(j)
      PROVE  /\ given(j) \in Uploads' /\ given(j).pc \in {"path", "id", "failed"}
             /\ given(j).pc = "path" => given(j).level \in Google!Levels
             /\ given(j).by = w[j].by
             /\ id = 0 => /\ given(j).pc = "failed" /\ given(j).level = w[j].level
                          /\ given(j).parent = w[j].parent /\ given(j).seen = w[j].seen
             /\ id # 0 => given(j).level = w[j].level + 1 /\ given(j).parent = id
  BY <1>0, <1>3, <1>4, GivenOrRejected
<1>5. ASSUME NEW j \in Writes
      PROVE  \/ ~concerned(j) /\ w'[j] = w[j] /\ w'[j] \in Uploads'
             \/ /\ concerned(j) /\ w'[j] = given(j) /\ w[j].pc \in Seeking /\ w'[j] \in Uploads'
                /\ w'[j].pc \in {"path", "id", "failed"}
                /\ w'[j].pc = "path" => w'[j].level \in Google!Levels
  BY <1>2, <1>3, <1>4, <1>0 DEF Uploads
<1> HIDE DEF given
<1>6. /\ lock' \in [Google!Keys -> Writes \union {"nobody"}]
      /\ cache' \in [Google!Keys -> 0..born']
  BY <1>0, <1>1
<1>7. w' \in [Writes -> Uploads']
  BY <1>2, <1>5
<1>8. LockOwners'
  BY <1>0, <1>5, <1>1, <1>3, <1>6, LockOwnersAre DEF Google!Awaits, LockOwners, Seeking, Making,
      Google!Key
<1>9. ParentsCached'
  <2> SUFFICES ASSUME NEW j \in Writes
               PROVE  /\ w'[j].pc \in Making => cache'[Google!Key(j)'] = 0
                      /\ w'[j].pc = "new" \/ w'[j].level = 1 => w'[j].level = 1 /\ w'[j].parent = 0
                      /\ w'[j].level > 1 => /\ Above(j)' \in Google!Keys
                                            /\ cache'[Above(j)'] = w'[j].parent
                                            /\ w'[j].parent # 0
    BY DEF ParentsCached
  <2>1. CASE ~concerned(j)
    BY <1>5, <2>1, <1>0, <1>1 DEF Google!Key, Above, LockOwners, Seeking, Making, ParentsCached
  <2>2. CASE concerned(j) /\ id = 0
    BY <1>1, <1>4, <1>5, <2>2 DEF Above, ParentsCached, Making
  <2>3. CASE concerned(j) /\ id # 0
    BY <1>4, <1>5, <2>3, <1>0, <1>3, <1>1 DEF Uploads, Above, Google!Key, Making
  <2>4. QED
    BY <2>1, <2>2, <2>3
<1>10. \A j \in Writes : w'[j].pc \in Seeking => w'[j].level \in Google!Levels
  BY <1>0, <1>5 DEF Seeking
<1>11. /\ w'[i].pc \notin Making
       /\ id = 0 => /\ w'[i].pc = "failed" /\ w'[i].level = w[i].level
                    /\ w'[i].parent = w[i].parent /\ w'[i].seen = w[i].seen
  BY <1>4, <1>5 DEF Making
<1>12. \A j \in Writes :
          \/ w'[j] = w[j]
          \/ w[j].pc \in Seeking /\ w'[j].pc \in {"path", "id", "failed"}
  BY <1>5
<1>13. QED
  BY <1>6, <1>7, <1>8, <1>9, <1>10, <1>11, <1>12

(* The end of a promise keeps the invariant, whatever folder was made.     *)
LEMMA SettleKeeps ==
    ASSUME PathsAreNested, GoogleInv, NEW i \in Writes, w[i].pc \in Making,
           born' \in Nat, born <= born', troubles' \in Nat, NEW id \in 0..born',
           Google!Settle(i, id), UNCHANGED Google!store, UNCHANGED provider,
           folders' \subseteq Folders',
           makes' = makes \/ (makes' = makes \union {i} /\ id = 0 /\ w[i].pc = "make"),
           Google!OneFolder',
           \A f \in folders' : f \in folders
               \/ (w[i].pc = "make" /\ Beside(f, i) /\ f.by = w[i].by /\ born < f.id)
    PROVE  GoogleInv'
<1> USE DEF GoogleInv, FolderInv
<1>1. /\ lock' \in [Google!Keys -> Writes \union {"nobody"}]
      /\ cache' \in [Google!Keys -> 0..born']
      /\ w' \in [Writes -> Uploads']
      /\ \A j \in Writes : w'[j].pc \in Seeking => w'[j].level \in Google!Levels
      /\ LockOwners' /\ ParentsCached'
      /\ w'[i].pc \notin Making
      /\ id = 0 => /\ w'[i].pc = "failed" /\ w'[i].level = w[i].level
                   /\ w'[i].parent = w[i].parent /\ w'[i].seen = w[i].seen
      /\ \A j \in Writes :
             \/ w'[j] = w[j]
             \/ w[j].pc \in Seeking /\ w'[j].pc \in {"path", "id", "failed"}
  BY SettleDoes
<1>2. \A j \in makes : w[j].pc = "failed" /\ w[j].level \in Google!Levels /\ w'[j] = w[j]
  BY <1>1 DEF FolderTypes, Seeking
<1>3. FolderTypes'
  BY <1>1, <1>2 DEF FolderTypes, Seeking, Making
<1>4. NotMadeYet'
  <2> SUFFICES ASSUME NEW j \in Writes, NEW f \in folders', Beside(f, j)'
               PROVE  /\ w'[j].pc = "make" \/ j \in makes' => w'[j].seen < f.id
                      /\ w'[j].pc = "make" => f.by # w'[j].by \/ f.late
    BY DEF NotMadeYet
  <2>1. CASE j = i /\ makes' = makes \union {i} /\ id = 0 /\ w[i].pc = "make"
    BY <1>1, <2>1 DEF Beside, FolderTypes, Uploads, Folders, NotMadeYet
  <2>2. CASE w'[j].pc = "make" \/ j \in makes
    <3>1. w'[j] = w[j] /\ Beside(f, j)
      BY <1>1, <1>2, <2>2 DEF Beside
    <3>2. w[j].seen \in 0..born /\ born \in Nat
      BY DEF FolderTypes, Uploads
    <3>3. CASE f \in folders
      BY <1>2, <2>2, <3>1, <3>3 DEF NotMadeYet
    <3>4. CASE w[i].pc = "make" /\ Beside(f, i) /\ f.by = w[i].by /\ born < f.id
      <4>1. w'[j].pc = "make" => f.by # w[j].by
        <5>1. SUFFICES ASSUME w'[j].pc = "make", f.by = w[j].by PROVE FALSE
          OBVIOUS
        <5>2. Google!Key(j) = Google!Key(i) /\ j # i
          BY <1>1, <3>1, <3>4, <5>1 DEF Beside, Google!Key, Making
        <5>3. QED
          BY <3>1, <3>4, <5>1, <5>2 DEF LockOwners, Making
      <4>2. f.id \in Nat
        BY DEF Folders
      <4>3. QED
        BY <3>1, <3>2, <3>4, <4>1, <4>2
    <3>5. QED
      BY <3>3, <3>4
  <2>3. QED
    BY <1>1, <2>1, <2>2
<1>5. StoreInv'
  BY <1>1, FilesAside DEF Seeking, FolderTypes
<1>6. QED
  BY <1>1, <1>3, <1>4, <1>5

(* The record of an upload that found no folder.                           *)
LEMMA LookedIs ==
    ASSUME NEW y \in Uploads, NEW n \in 0..born
    PROVE  LET x == [y EXCEPT !.pc = "make", !.seen = n]
           IN  /\ x \in Uploads /\ x.pc = "make" /\ x.level = y.level /\ x.parent = y.parent
               /\ x.by = y.by /\ x.seen = n
  BY DEF Uploads, Seeking

LEMMA FindStep ==
    ASSUME PathsAreNested, GoogleInv, NEW i \in Writes, Google!Find(i)
    PROVE  GoogleInv'
<1> USE DEF GoogleInv, FolderInv
<1>0. /\ w[i].pc = "find" /\ w[i] \in Uploads /\ w[i].level \in Google!Levels /\ i \notin makes
      /\ w \in [Writes -> Uploads] /\ born \in Nat /\ troubles \in Nat
      /\ folders \subseteq Folders
      /\ UNCHANGED <<folders, born, provider, makes, Google!store>>
  BY DEF Google!Find, FolderTypes, Seeking
<1>1. CASE Google!Same(i) = {} /\ w' = [w EXCEPT ![i].pc = "make", ![i].seen = born]
           /\ UNCHANGED <<cache, lock, troubles>>
  <2> DEFINE x == [w[i] EXCEPT !.pc = "make", !.seen = born]
  <2>1. /\ x \in Uploads /\ x.pc = "make" /\ x.level = w[i].level /\ x.parent = w[i].parent
        /\ x.by = w[i].by /\ x.seen = born
    <3>1. born \in 0..born
      BY <1>0
    <3>2. QED
      BY <1>0, <3>1, LookedIs
  <2>1a. w' = [w EXCEPT ![i] = x]
    BY <1>0, <1>1
  <2> HIDE DEF x
  <2>2. w'[i] = x /\ \A j \in Writes \ {i} : w'[j] = w[j]
    BY <1>0, <2>1a, OnlyOne
  <2>3. \A j \in Writes : Google!Key(j)' = Google!Key(j) /\ Above(j)' = Above(j)
    BY <2>1, <2>2 DEF Google!Key, Above
  <2>4. FolderTypes'
    BY <1>0, <1>1, <2>1, <2>1a, <2>2 DEF FolderTypes, Uploads, Folders, Seeking
  <2>5. lock' \in [Google!Keys -> Writes \union {"nobody"}]
    BY <1>1 DEF FolderTypes
  <2>5a. ASSUME NEW j \in Writes
         PROVE  /\ w'[j].pc \in Making => lock'[Google!Key(j)'] = j
                /\ w'[j].pc = "wait" => lock'[Google!Key(j)'] # "nobody"
    BY <1>0, <1>1, <2>1, <2>2, <2>3 DEF LockOwners, Making
  <2>5b. ASSUME NEW c \in Google!Keys, NEW j \in Writes, lock'[c] = j, j # "nobody"
         PROVE  w'[j].pc \in Making /\ Google!Key(j)' = c
    BY <1>0, <1>1, <2>1, <2>2, <2>3, <2>5b DEF LockOwners, Making
  <2>5c. LockOwners'
    BY <2>5, <2>5a, <2>5b, LockOwnersAre
  <2>5d. ParentsCached'
    BY <1>0, <1>1, <2>1, <2>2, <2>3 DEF ParentsCached, Making
  <2>6. NotMadeYet' /\ Google!OneFolder'
    BY <1>0, <1>1, <2>1, <2>1a, <2>2 DEF NotMadeYet, Beside, Google!OneFolder, Google!Same
  <2>7. StoreInv'
    BY <1>0, <2>1, <2>1a, <2>2, FilesAside DEF Seeking
  <2>8. QED
    BY <2>4, <2>5c, <2>5d, <2>6, <2>7
<1>2. ASSUME NEW f \in Google!Same(i), Google!Settle(i, f.id), UNCHANGED troubles
      PROVE  GoogleInv'
  BY <1>0, <1>2, SettleKeeps DEF Google!Same, Google!OneFolder, Making, Folders
<1>3. CASE Google!Trouble /\ Google!Settle(i, 0)
  BY <1>0, <1>3, SettleKeeps DEF Google!Trouble, Google!OneFolder, Making, Folders
<1>4. QED
  BY <1>1, <1>2, <1>3 DEF Google!Find

(* The folder that an upload makes is the second of its place at worst,    *)
(* and another provider object or a lost answer made it so.                *)
LEMMA NewFolderDoes ==
    ASSUME PathsAreNested, GoogleInv, NEW i \in Writes, NEW later \in BOOLEAN,
           w[i].pc = "make" \/ (i \in makes /\ later), Google!NewFolder(i, later)
    PROVE  /\ born' = born + 1 /\ folders' \subseteq Folders' /\ Google!OneFolder'
           /\ \A f \in folders' : f \in folders
                  \/ (Beside(f, i) /\ f.by = w[i].by /\ born < f.id)
<1> USE DEF GoogleInv, FolderInv
<1> DEFINE n == [id |-> born + 1, level |-> w[i].level, parent |-> w[i].parent,
                 by |-> w[i].by, seen |-> w[i].seen, late |-> later]
<1>0. /\ born \in Nat /\ w[i].level \in Google!Levels /\ w[i].parent \in 0..born
      /\ w[i].by \in Google!Objects /\ w[i].seen \in 0..born /\ folders \subseteq Folders
  BY DEF FolderTypes, Uploads, Seeking
<1>1. born' = born + 1 /\ folders' = folders \union {n}
  BY DEF Google!NewFolder
<1>2. n \in Folders'
  BY <1>0, <1>1 DEF Folders
<1>3. folders \subseteq Folders'
  BY <1>0, <1>1 DEF Folders
<1>4. /\ n.level = w[i].level /\ n.parent = w[i].parent /\ n.by = w[i].by /\ n.seen = w[i].seen
      /\ n.late = later /\ n.id = born + 1
  OBVIOUS
<1> HIDE DEF n
<1>5. \A f \in folders : f.id \in 1..born
  BY <1>0 DEF Folders
<1>6. \A f \in folders : f.level = n.level /\ f.parent = n.parent =>
          n.seen < f.id /\ (f.by # n.by \/ f.late \/ n.late)
  BY <1>4 DEF NotMadeYet, Beside
<1>7. Google!OneFolder'
  BY <1>0, <1>1, <1>4, <1>5, <1>6 DEF Google!OneFolder
<1>8. QED
  BY <1>0, <1>1, <1>2, <1>3, <1>4, <1>7 DEF Beside

LEMMA MakeStep ==
    ASSUME PathsAreNested, GoogleInv, NEW i \in Writes, Google!Make(i)
    PROVE  GoogleInv'
<1> USE DEF GoogleInv, FolderInv
<1>0. /\ w[i].pc = "make" /\ w[i].pc \in Making /\ born \in Nat /\ troubles \in Nat
      /\ folders \subseteq Folders /\ UNCHANGED Google!store /\ UNCHANGED provider
  BY DEF Google!Make, FolderTypes, Making
<1>1. ASSUME Google!NewFolder(i, FALSE)
      PROVE  /\ born' = born + 1 /\ folders' \subseteq Folders' /\ Google!OneFolder'
             /\ \A f \in folders' : f \in folders
                    \/ (Beside(f, i) /\ f.by = w[i].by /\ born < f.id)
  BY <1>0, <1>1, NewFolderDoes
<1>2. CASE Google!NewFolder(i, FALSE) /\ Google!Settle(i, born + 1) /\ UNCHANGED <<makes, troubles>>
  BY <1>0, <1>1, <1>2, SettleKeeps
<1>3. CASE Google!Trouble /\ Google!Settle(i, 0) /\ Google!NewFolder(i, FALSE) /\ UNCHANGED makes
  BY <1>0, <1>1, <1>3, SettleKeeps DEF Google!Trouble
<1>4. CASE /\ Google!Trouble /\ Google!Settle(i, 0) /\ makes' \in {makes, makes \union {i}}
           /\ UNCHANGED <<folders, born>>
  BY <1>0, <1>4, SettleKeeps DEF Folders, Google!OneFolder, Google!Trouble
<1>5. QED
  BY <1>2, <1>3, <1>4 DEF Google!Make

LEMMA MakeLateStep ==
    ASSUME PathsAreNested, GoogleInv, NEW i \in Writes, Google!MakeLate(i)
    PROVE  GoogleInv'
<1> USE DEF GoogleInv, FolderInv
<1>0. /\ i \in makes /\ makes' = makes \ {i} /\ born \in Nat
      /\ UNCHANGED <<provider, cache, lock, w, troubles>> /\ UNCHANGED Google!store
  BY DEF Google!MakeLate, FolderTypes
<1>1. /\ born' = born + 1 /\ folders' \subseteq Folders' /\ Google!OneFolder'
      /\ \A f \in folders' : f \in folders \/ (Beside(f, i) /\ f.by = w[i].by /\ born < f.id)
  BY <1>0, NewFolderDoes DEF Google!MakeLate
<1>2. \A f \in folders' : f \in folders \/ f.late
  BY DEF Google!MakeLate, Google!NewFolder
<1>3. FolderTypes'
  BY <1>0, <1>1 DEF FolderTypes, Uploads
<1>4. LockOwners' /\ ParentsCached'
  BY <1>0 DEF LockOwners, ParentsCached, Above, Google!Key
<1>5. NotMadeYet'
  BY <1>0, <1>1, <1>2 DEF NotMadeYet, FolderTypes, Uploads, Folders, Beside
<1>6. StoreInv'
  BY <1>0, <1>1, FilesAside
<1>7. QED
  BY <1>1, <1>3, <1>4, <1>5, <1>6

LEMMA DeleteFolderStep ==
    ASSUME PathsAreNested, GoogleInv, NEW f \in folders, Google!DeleteFolder(f)
    PROVE  GoogleInv'
    BY DEF GoogleInv, FolderInv, Google!DeleteFolder, Google!Trouble, FolderTypes, Uploads, Folders,
        LockOwners, ParentsCached, Above, Google!Key, NotMadeYet, Beside, Google!OneFolder,
        StoreInv, StoreTypes, FilesKnown, Google!StoredOnce

(* What is known of one upload and its file.                               *)
OfOne(i) ==
    /\ copies[i] <= 1 /\ (copies[i] = 0 => files[i] = 0)
    /\ w[i].pc \in Seeking \union {"id"} \/ (w[i].pc = "create" /\ w[i].tries = 0)
           => copies[i] = 0 /\ i \notin late
    /\ files[i] \in {0, w[i].parent}
    /\ w[i].pc = "stored" => copies[i] = 1
    /\ w[i].pc \in {"failed", "cooldown"} /\ files[i] # 0 => i \in blind

LEMMA EveryOne == (\A i \in Writes : OfOne(i)) <=> FilesKnown /\ Google!StoredOnce
  BY DEF OfOne, FilesKnown, Google!StoredOnce

(* A step of one upload that has its folder already.                       *)
(* The upload keeps its place, and has not failed.                         *)
SamePlace(x, y) == x.parent = y.parent /\ x.level = y.level /\ x.by = y.by
Stays(i, x) == SamePlace(x, w[i]) /\ w[i].pc # "failed"

LEMMA OneUploadKeeps ==
    ASSUME PathsAreNested, GoogleInv, NEW i \in Writes, NEW x \in Uploads,
           w' = [w EXCEPT ![i] = x],
           x = w[i] \/ (w[i].pc \notin Seeking /\ x.pc \notin Seeking /\ Stays(i, x)),
           UNCHANGED Google!paths, troubles' \in Nat, StoreTypes',
           \A j \in Writes \ {i} :
               /\ files'[j] = files[j] /\ copies'[j] = copies[j]
               /\ (j \in late' => j \in late) /\ (j \in blind => j \in blind'),
           OfOne(i)'
    PROVE  GoogleInv'
<1> USE DEF GoogleInv
<1>1. w'[i] = x /\ \A j \in Writes \ {i} : w'[j] = w[j]
  BY OnlyOne DEF FolderInv, FolderTypes
<1>2. FolderInv'
  <2>1. CASE x = w[i]
    BY <2>1, <1>1 DEF FolderInv, FolderTypes, Google!paths, Uploads, Folders, LockOwners,
        ParentsCached, Above, NotMadeYet, Beside, Google!OneFolder, Google!Key
  <2>2. CASE w[i].pc \notin Seeking /\ x.pc \notin Seeking /\ Stays(i, x)
    BY <2>2, FoldersAside DEF Google!paths, Seeking, Making, Stays, SamePlace, FolderInv,
        FolderTypes
  <2>3. QED
    BY <2>1, <2>2
<1>3. \A j \in Writes : OfOne(j)
  BY EveryOne DEF StoreInv
<1>4. ASSUME NEW j \in Writes PROVE OfOne(j)'
  BY <1>1, <1>3 DEF OfOne
<1>5. (FilesKnown /\ Google!StoredOnce)'
  BY <1>4 DEF OfOne, FilesKnown, Google!StoredOnce
<1>6. QED
  BY <1>2, <1>5 DEF StoreInv

(* What the invariant says of an upload that has its folder.               *)
LEMMA SenderHas ==
    ASSUME GoogleInv, NEW i \in Writes
    PROVE  /\ w \in [Writes -> Uploads] /\ w[i] \in Uploads /\ OfOne(i)
           /\ born \in Nat /\ troubles \in Nat /\ w[i].parent \in 0..born
           /\ w[i].tries \in Nat /\ w[i].conflict \in BOOLEAN
           /\ files \in [Writes -> 0..born] /\ copies \in [Writes -> Nat]
           /\ late \subseteq Writes /\ blind \subseteq Writes
           /\ \A f \in folders : f.id \in 1..born
    BY EveryOne DEF GoogleInv, FolderInv, StoreInv, FolderTypes, StoreTypes, Uploads,
        Folders

(* The record of an upload at another step.                                *)
LEMMA AtStep ==
    ASSUME NEW x \in Uploads, NEW p \in Google!Final \union Sending \union {"id"}
    PROVE  /\ [x EXCEPT !.pc = p] \in Uploads /\ [x EXCEPT !.pc = p].pc = p
           /\ SamePlace([x EXCEPT !.pc = p], x) /\ [x EXCEPT !.pc = p].tries = x.tries
  BY DEF Uploads, SamePlace

LEMMA GenerateIdStep ==
    ASSUME PathsAreNested, GoogleInv, NEW i \in Writes, Google!GenerateId(i)
    PROVE  GoogleInv'
<1> USE DEF SamePlace, Stays
<1>1. PICK p \in {"create", "failed"} : Google!To(i, p)
  BY DEF Google!GenerateId
<1> DEFINE x == [w[i] EXCEPT !.pc = p]
<1>2. /\ w[i].pc = "id" /\ UNCHANGED Google!paths /\ UNCHANGED <<files, copies, late, blind>>
      /\ w' = [w EXCEPT ![i] = x]
  BY <1>1 DEF Google!GenerateId, Google!store, Google!To
<1>3. troubles' \in Nat
  BY SenderHas DEF Google!GenerateId, Google!Trouble
<1>4. x \in Uploads /\ x.pc = p /\ SamePlace(x, w[i]) /\ x.tries = w[i].tries
  <2>1. w[i] \in Uploads /\ p \in Google!Final \union Sending \union {"id"}
    BY SenderHas DEF Sending, Google!Final
  <2>2. QED
    BY <2>1, AtStep
<1>5. w'[i] = x
  BY <1>2, SenderHas
<1> HIDE DEF x
<1>6. OfOne(i)'
  BY <1>2, <1>4, <1>5, SenderHas DEF OfOne, Seeking
<1>7. StoreTypes'
  BY <1>2, SenderHas DEF StoreTypes, Google!paths
<1>8. QED
  BY <1>2, <1>3, <1>4, <1>6, <1>7, OneUploadKeeps DEF Seeking

(* The upload ends with an error, its first one.                           *)
LEMMA Remembers ==
    ASSUME NEW x \in Uploads,
           NEW error \in {"transient", "quota", "denied", "missing", "conflict"}
    PROVE  /\ Google!First(x, error) \in Uploads
           /\ SamePlace(Google!First(x, error), x)
           /\ Google!First(x, error).tries = x.tries
  BY DEF Google!First, Google!None, Uploads, SamePlace

LEMMA RefuseKeeps ==
    ASSUME PathsAreNested, GoogleInv, NEW i \in Writes, w[i].pc = "create",
           NEW error \in {"quota", "denied", "missing"}, Google!Refuse(i, error),
           UNCHANGED Google!paths, UNCHANGED <<files, copies, late>>, troubles' \in Nat
    PROVE  GoogleInv'
<1> USE DEF SamePlace, Stays
<1> DEFINE y == Google!First(w[i], error)
           x == [y EXCEPT !.pc = Google!Result(y.first)]
<1>1. /\ w' = [w EXCEPT ![i] = x]
      /\ blind' = IF w[i].tries > 0 THEN blind \union {i} ELSE blind
  BY DEF Google!Refuse
<1>2. y \in Uploads /\ SamePlace(y, w[i]) /\ y.tries = w[i].tries
  BY Remembers, SenderHas
<1>3. Google!Result(y.first) \in {"failed", "cooldown"}
  BY DEF Google!Result
<1>4. x \in Uploads /\ x.pc \in {"failed", "cooldown"} /\ SamePlace(x, w[i])
  BY <1>2, <1>3, AtStep DEF Google!Final
<1>5. w'[i] = x
  BY <1>1, SenderHas
<1> HIDE DEF x, y
<1>6. OfOne(i)'
  BY <1>1, <1>4, <1>5, SenderHas DEF OfOne, Seeking
<1>7. StoreTypes'
  BY <1>1, SenderHas DEF StoreTypes, Google!paths
<1>8. QED
  BY <1>1, <1>4, <1>6, <1>7, OneUploadKeeps DEF Seeking

(* A file made in the folder of the upload, once.                          *)
LEMMA EffectDoes ==
    ASSUME GoogleInv, NEW i \in Writes, Google!Accepts(i), Google!Effect(i)
    PROVE  /\ files' \in [Writes -> 0..born] /\ copies' \in [Writes -> Nat]
           /\ copies[i] = 0 /\ copies'[i] = 1
           /\ files'[i] = w[i].parent /\ w[i].parent # 0
           /\ \A j \in Writes \ {i} : files'[j] = files[j] /\ copies'[j] = copies[j]
    BY SenderHas DEF Google!Accepts, Google!Effect, Google!Free, Google!Exists

LEMMA CreateStep ==
    ASSUME PathsAreNested, GoogleInv, NEW i \in Writes, Google!Create(i)
    PROVE  GoogleInv'
<1> USE DEF SamePlace, Stays
<1>0. w[i].pc = "create" /\ UNCHANGED Google!paths /\ UNCHANGED born
  BY DEF Google!Create, Google!paths
<1>1. CASE /\ Google!Accepts(i) /\ Google!Effect(i) /\ Google!To(i, "stored")
           /\ UNCHANGED <<late, blind, troubles>>
  <2> DEFINE x == [w[i] EXCEPT !.pc = "stored"]
  <2>1. w' = [w EXCEPT ![i] = x] /\ w'[i] = x
    BY <1>1, SenderHas DEF Google!To
  <2>2. x \in Uploads /\ x.pc = "stored" /\ SamePlace(x, w[i])
    <3>1. w[i] \in Uploads /\ "stored" \in Google!Final
      BY SenderHas DEF Google!Final
    <3> QED BY <3>1, AtStep
  <2> HIDE DEF x
  <2>3. OfOne(i)'
    BY <1>1, <2>1, <2>2, EffectDoes DEF OfOne, Seeking
  <2>4. StoreTypes'
    BY <1>0, <1>1, EffectDoes, SenderHas DEF StoreTypes
  <2>5. troubles' \in Nat
    BY <1>1, SenderHas
  <2>6. QED
    BY <1>0, <1>1, <2>1, <2>2, <2>3, <2>4, <2>5, EffectDoes, OneUploadKeeps DEF Seeking
<1>2. CASE ~Google!Accepts(i) /\ Google!Free(i) /\ Google!Refuse(i, "missing")
           /\ UNCHANGED <<files, copies, late, troubles>>
  BY <1>2, SenderHas, <1>0, RefuseKeeps
<1>3. ASSUME NEW error \in {"transient", "conflict"}, NEW c \in BOOLEAN,
             w' = [w EXCEPT ![i] = [Google!First(@, error) EXCEPT !.pc = "inspect",
                                                                  !.conflict = c]],
             UNCHANGED blind, troubles' \in Nat,
             \/ UNCHANGED <<files, copies>> /\ late' \in {late, late \union {i}}
             \/ Google!Accepts(i) /\ Google!Effect(i) /\ UNCHANGED late
      PROVE  GoogleInv'
  <2> DEFINE y == Google!First(w[i], error)
             x == [y EXCEPT !.pc = "inspect", !.conflict = c]
  <2>1. y \in Uploads /\ SamePlace(y, w[i])
    BY Remembers, SenderHas
  <2>2. x \in Uploads /\ x.pc = "inspect" /\ SamePlace(x, w[i])
    BY <2>1, <1>3 DEF Uploads, Sending
  <2>3. w' = [w EXCEPT ![i] = x] /\ w'[i] = x
    BY <1>3, SenderHas
  <2> HIDE DEF x, y
  <2>4. OfOne(i)'
    BY <1>0, SenderHas, <2>2, <2>3, EffectDoes, <1>3 DEF OfOne, Seeking
  <2>5. StoreTypes'
    BY <1>0, <1>3, EffectDoes, SenderHas DEF StoreTypes
  <2>6. \A j \in Writes \ {i} : /\ files'[j] = files[j] /\ copies'[j] = copies[j]
                                /\ (j \in late' => j \in late) /\ (j \in blind => j \in blind')
    BY <1>3, EffectDoes
  <2>7. QED
    BY <1>0, <1>3, <2>2, <2>3, <2>4, <2>5, <2>6, OneUploadKeeps DEF Seeking
<1>4. ASSUME NEW error \in {"quota", "denied"}, Google!Trouble, Google!Refuse(i, error),
             UNCHANGED <<files, copies, late>>
      PROVE  GoogleInv'
  BY <1>4, SenderHas, <1>0, RefuseKeeps DEF Google!Trouble
<1>5. CASE /\ ~Google!Free(i) /\ UNCHANGED <<files, copies, late, troubles, blind>>
           /\ w' = [w EXCEPT ![i] = [Google!First(@, "conflict") EXCEPT !.pc = "inspect",
                                                                        !.conflict = TRUE]]
  BY <1>5, SenderHas, <1>3
<1>6. CASE /\ Google!Trouble /\ UNCHANGED blind
           /\ w' = [w EXCEPT ![i] = [Google!First(@, "transient") EXCEPT !.pc = "inspect",
                                                                         !.conflict = FALSE]]
           /\ \/ Google!Accepts(i) /\ Google!Effect(i) /\ UNCHANGED late
              \/ late' \in {late, late \union {i}} /\ UNCHANGED <<files, copies>>
  <2>1. troubles' \in Nat
    BY <1>6, SenderHas DEF Google!Trouble
  <2>2. QED
    BY <1>3, <1>6, <2>1
<1>7. QED
  BY <1>1, <1>2, <1>4, <1>5, <1>6 DEF Google!Create, Google!Quota, Google!Transient

(* A step of an upload that only moves it on, or ends it.                  *)
LEMMA MovesOn ==
    ASSUME PathsAreNested, GoogleInv, NEW i \in Writes, w[i].pc \in Sending,
           NEW x \in Uploads, w' = [w EXCEPT ![i] = x],
           SamePlace(x, w[i]), x.pc \in Google!Final \union Sending,
           x.pc = "create" => x.tries > 0,
           x.pc = "stored" => copies[i] = 1,
           x.pc \in {"failed", "cooldown"} /\ files[i] # 0 => i \in blind',
           blind' \in {blind, blind \union {i}},
           UNCHANGED Google!paths, UNCHANGED <<files, copies, late>>, troubles' \in Nat
    PROVE  GoogleInv'
<1> USE DEF SamePlace, Stays
<1>1. w'[i] = x /\ UNCHANGED born
  BY SenderHas DEF Google!paths
<1>2. OfOne(i)'
  BY <1>1, SenderHas DEF OfOne, Seeking, Google!Final, Sending
<1>3. StoreTypes'
  BY <1>1, SenderHas DEF StoreTypes
<1>4. w[i].pc \notin Seeking /\ x.pc \notin Seeking /\ Stays(i, x)
  BY DEF Seeking, Sending, Google!Final
<1>5. QED
  BY <1>2, <1>3, <1>4, OneUploadKeeps

LEMMA InspectStep ==
    ASSUME PathsAreNested, GoogleInv, NEW i \in Writes, Google!Inspect(i)
    PROVE  GoogleInv'
<1> USE DEF SamePlace, Stays
<1>1. /\ w[i].pc = "inspect" /\ troubles' \in Nat
      /\ UNCHANGED Google!paths /\ UNCHANGED <<files, copies, late>>
  BY SenderHas DEF Google!Inspect, Google!Trouble
<1>2. PICK p \in {"stored", "pause", "failed", "cooldown"} :
          /\ Google!To(i, p)
          /\ p = "stored" => Google!Whole(i)
          /\ p \in {"failed", "cooldown"} /\ files[i] # 0 => i \in blind'
          /\ blind' \in {blind, blind \union {i}}
  BY DEF Google!Result, Google!Inspect, Google!Whole
<1> DEFINE x == [w[i] EXCEPT !.pc = p]
<1>3. w' = [w EXCEPT ![i] = x]
  BY <1>2 DEF Google!To
<1>4. x \in Uploads /\ x.pc = p /\ SamePlace(x, w[i])
  <2>1. w[i] \in Uploads /\ p \in Google!Final \union Sending \union {"id"}
    BY SenderHas DEF Sending, Google!Final
  <2>2. QED
    BY <2>1, AtStep
<1> HIDE DEF x
<1>5. p = "stored" => copies[i] = 1
  BY <1>2, SenderHas DEF Google!Whole, OfOne
<1>6. QED
  BY <1>1, <1>2, <1>3, <1>4, <1>5, MovesOn DEF Sending, Google!Final

LEMMA TriesAgain ==
    ASSUME NEW y \in Uploads
    PROVE  LET x == [y EXCEPT !.pc = "create", !.tries = y.tries + 1]
           IN  x \in Uploads /\ x.pc = "create" /\ SamePlace(x, y) /\ x.tries > 0
<1> USE DEF SamePlace, Stays
<1> DEFINE n == y.tries + 1
           x == [y EXCEPT !.pc = "create", !.tries = n]
<1>1. n \in Nat /\ n > 0
  BY DEF Uploads
<1> HIDE DEF n
<1>2. x \in Uploads
  BY <1>1 DEF Uploads, Sending
<1>3. x.pc = "create" /\ SamePlace(x, y) /\ x.tries = n
  BY DEF Uploads
<1>4. QED
  BY <1>1, <1>2, <1>3 DEF n

LEMMA RetryStep ==
    ASSUME PathsAreNested, GoogleInv, NEW i \in Writes, Google!Retry(i)
    PROVE  GoogleInv'
<1> USE DEF SamePlace, Stays
<1> DEFINE x == [w[i] EXCEPT !.pc = "create", !.tries = w[i].tries + 1]
<1>1. /\ w[i].pc = "pause" /\ UNCHANGED Google!paths
      /\ UNCHANGED <<files, copies, late, blind, troubles>> /\ w' = [w EXCEPT ![i] = x]
  BY SenderHas DEF Google!Retry, Google!store
<1>2. x \in Uploads /\ x.pc = "create" /\ SamePlace(x, w[i]) /\ x.tries > 0
  BY SenderHas, TriesAgain
<1>3. troubles' \in Nat
  BY <1>1, SenderHas
<1> HIDE DEF x
<1>4. QED
  BY <1>1, <1>2, <1>3, MovesOn DEF Sending

LEMMA AbortStep ==
    ASSUME PathsAreNested, GoogleInv, NEW i \in Writes, Google!Abort(i)
    PROVE  GoogleInv'
<1> USE DEF SamePlace, Stays
<1> DEFINE x == [w[i] EXCEPT !.pc = "failed"]
<1>1. /\ w[i].pc \in Sending /\ UNCHANGED Google!paths
      /\ UNCHANGED <<files, copies, late>> /\ w' = [w EXCEPT ![i] = x]
      /\ blind' = blind \union {i} /\ troubles' \in Nat
  BY SenderHas DEF Google!Abort, Google!To, Google!Trouble, Sending
<1>2. x \in Uploads /\ x.pc = "failed" /\ SamePlace(x, w[i])
  <2>1. w[i] \in Uploads /\ "failed" \in Google!Final
    BY SenderHas DEF Google!Final
  <2> QED BY <2>1, AtStep
<1> HIDE DEF x
<1>3. i \in blind' /\ x.pc \in Google!Final \union Sending
  BY <1>1, <1>2 DEF Google!Final
<1>4. QED
  BY <1>1, <1>2, <1>3, MovesOn

LEMMA LateStep ==
    ASSUME PathsAreNested, GoogleInv, NEW i \in Writes, Google!Late(i)
    PROVE  GoogleInv'
    BY SenderHas, EffectDoes, OneUploadKeeps DEF Google!Late, Google!paths, OfOne, Google!Final,
        StoreTypes

LEMMA GoogleStep ==
    ASSUME PathsAreNested, GoogleInv, [Google!Next]_Google!vars
    PROVE  GoogleInv'
<1>1. CASE UNCHANGED Google!vars
  BY <1>1 DEF Google!vars, GoogleInv, FolderInv, StoreInv, FolderTypes, StoreTypes,
     Uploads, Folders, LockOwners, ParentsCached, Above, NotMadeYet, Beside, FilesKnown,
     Google!Key, Google!OneFolder, Google!StoredOnce
<1>2. QED
  BY <1>1, ReinitStep, BeginStep, EnsureChildStep, FindStep, MakeStep, MakeLateStep,
     GenerateIdStep, CreateStep, InspectStep, RetryStep, LateStep, AbortStep, DeleteFolderStep
     DEF Google!Next

(* However many uploads look for it, a folder is made a second time under  *)
(* its parent only for an upload that looked before the first was made,    *)
(* which for uploads of one provider object takes a request that took      *)
(* effect after its answer was lost, and these uploads are given the same  *)
(* folders all the same; an upload that reports success made its file      *)
(* once, in the folder it was given; one that fails knows of its file or   *)
(* could not look; nobody waits for a promise that is not kept.  For any   *)
(* number of uploads, of provider objects and of folders                   *)
(* (googleDriveUpload.ts, storage.ts).                                     *)
THEOREM GoogleKeeps ==
    PathsAreNested => (Google!Spec => [](Google!TypeOK /\ Google!GoogleKept))
<1> SUFFICES ASSUME PathsAreNested
             PROVE  Google!Spec => [](Google!TypeOK /\ Google!GoogleKept)
  OBVIOUS
<1>1. Google!Init => GoogleInv
  BY GoogleInit
<1>2. GoogleInv /\ [Google!Next]_Google!vars => GoogleInv'
  BY GoogleStep
<1>3. GoogleInv => Google!TypeOK /\ Google!GoogleKept
  BY GoogleTypes
<1>4. QED
  BY <1>1, <1>2, <1>3, PTL DEF Google!Spec

-----------------------------------------------------------------------------
(* OpenList, WebDAV, S3 and OSS.                                           *)

(* Before the file is sent there is none, and none is on its way.          *)
NotSentYet ==
    \A i \in Writes : pc[i] \in {"dir", "mkdir"} => file[i] = "none" /\ i \notin late

PathsInv ==
    /\ Paths!TypeOK /\ Paths!PathsKept /\ NotSentYet
    /\ pc = [i \in Writes |-> pc[i]] /\ file = [i \in Writes |-> file[i]]

(* A step changes one upload, or none.                                     *)
LEMMA PathsStep ==
    ASSUME PathsInv, [Paths!Next]_Paths!vars
    PROVE  PathsInv'
<1> USE DEF PathsInv
<1>1. ASSUME NEW i \in Writes, Paths!Directory(i) PROVE PathsInv'
  BY <1>1
  DEF Paths!Directory, Paths!TypeOK, Paths!PathsKept, NotSentYet, Paths!To,
      Paths!LoggedIn, Paths!Final
<1>2. ASSUME NEW i \in Writes, Paths!Put(i) PROVE PathsInv'
  BY <1>2
  DEF Paths!Put, Paths!TypeOK, Paths!PathsKept, NotSentYet, Paths!To, Paths!Final
<1>3. ASSUME NEW i \in Writes, Paths!Login(i) PROVE PathsInv'
  BY <1>3
  DEF Paths!Login, Paths!TypeOK, Paths!PathsKept, NotSentYet, Paths!To,
      Paths!LoggedIn, Paths!Final, Paths!Blind
<1>4. ASSUME NEW i \in Writes, Paths!PutError(i) PROVE PathsInv'
  BY <1>4
  DEF Paths!PutError, Paths!TypeOK, Paths!PathsKept, NotSentYet, Paths!To,
      Paths!Final, Paths!Blind
<1>5. ASSUME NEW i \in Writes, Paths!Verify(i) PROVE PathsInv'
  BY <1>5
  DEF Paths!Verify, Paths!TypeOK, Paths!PathsKept, NotSentYet, Paths!To,
      Paths!LoggedIn, Paths!Final, Paths!Blind, Paths!Whole
<1>6. ASSUME NEW i \in Writes, Paths!Late(i) PROVE PathsInv'
  BY <1>6
  DEF Paths!Late, Paths!TypeOK, Paths!PathsKept, NotSentYet, Paths!Final
<1>7. ASSUME NEW i \in Writes, Paths!Abort(i) PROVE PathsInv'
  BY <1>7
  DEF Paths!Abort, Paths!TypeOK, Paths!PathsKept, NotSentYet, Paths!To, Paths!Final,
      Paths!Blind
<1>8. CASE Paths!SessionEnds
  BY <1>8 DEF Paths!SessionEnds, Paths!TypeOK, Paths!PathsKept, NotSentYet
<1>9. CASE UNCHANGED Paths!vars
  BY <1>9 DEF Paths!vars, Paths!TypeOK, Paths!PathsKept, NotSentYet
<1>10. QED
  BY <1>1, <1>2, <1>3, <1>4, <1>5, <1>6, <1>7, <1>8, <1>9 DEF Paths!Next

LEMMA PathsInit == Paths!Init => PathsInv
  BY DEF Paths!Init, PathsInv, Paths!TypeOK, Paths!PathsKept, NotSentYet, Paths!Final

(* However many uploads share a session and a directory, success is        *)
(* reported of a whole file only, and a failure hides a whole file only    *)
(* when the provider could not look (openListStorage.ts, storage.ts).      *)
THEOREM PathsKeep == Paths!Spec => [](Paths!TypeOK /\ Paths!PathsKept)
<1>1. PathsInv => Paths!TypeOK /\ Paths!PathsKept
  BY DEF PathsInv
<1>2. QED
  BY <1>1, PathsInit, PathsStep, PTL DEF Paths!Spec


=============================================================================

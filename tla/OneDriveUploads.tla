--------------------------- MODULE OneDriveUploads ---------------------------
(* One upload of a file to OneDrive (oneDriveUpload.ts, and the folder made  *)
(* before it, storage.ts): a single PUT for a small file, a session of       *)
(* fragments for a large one.  Microsoft Graph is external: it creates a     *)
(* file only where there is none, or does what conflictBehavior says; its    *)
(* answer may be lost, and the request may take effect later.  The name is   *)
(* unique, so that another file of that name has other bytes.                *)
EXTENDS Naturals

CONSTANTS
    Sizes,       \* fragments of the files a behaviour may begin with, 0: small
    Attempts,    \* MAX_ATTEMPTS
    MaxTroubles  \* lost answers, refusals, expiries and aborts

VARIABLES
    fragments,  \* of the file, 0 when it is sent in one request
    folder,     \* the folder of the target exists
    target,     \* the file there: "none", "ours", "theirs"
    other,      \* somebody else's upload of that name was accepted
    made,       \* files this upload made
    session,    \* the session whose URL is known, and the fragments it has
    strays,     \* sessions whose URL was lost
    late,       \* the fragment, from 1, whose request is still to take effect, or 0
    pc, cause,  \* the step, and the error that led to it
    at,         \* range.offset, in fragments
    tries,      \* attempt, failures
    restarts,
    blind,      \* it ended without a look at the target that could tell
    left,       \* the DELETE of the session failed
    troubles

remote == <<folder, target, other, made, session, strays, late>>
local == <<cause, at, tries, restarts>>
vars == <<fragments, folder, target, other, made, session, strays, late, pc, cause,
          at, tries, restarts, blind, left, troubles>>

None == "none"
Conflict == "conflict"
Transient == "transient"
Final == {"stored", "failed"}
NoSession == [state |-> None, got |-> 0]
NoRequest == 0

Init ==
    /\ fragments \in Sizes
    /\ folder \in BOOLEAN /\ target = None /\ other = FALSE /\ made = 0
    /\ session = NoSession /\ strays = 0 /\ late = NoRequest
    /\ pc = "folder" /\ cause = None /\ at = 0 /\ tries = 0 /\ restarts = 0
    /\ blind = FALSE /\ left = FALSE /\ troubles = 0

Trouble == troubles < MaxTroubles /\ troubles' = troubles + 1

-----------------------------------------------------------------------------
(* Microsoft Graph                                                           *)

(* What a request that creates the file does: conflictBehavior 'fail'.       *)
Create ==
    IF target = None THEN [target |-> "ours", made |-> made + 1]
    ELSE [target |-> target, made |-> made]
Created == target' = Create.target /\ made' = Create.made

(* A fragment is taken when it is the next one; the last one makes the file. *)
Takes(f) == session.state = "open" /\ session.got = f
Commits(f) == Takes(f) /\ f + 1 = fragments /\ target = None
Fragment(f) ==
    /\ session' = IF Commits(f) THEN [state |-> "done", got |-> f + 1]
                  ELSE IF Takes(f) THEN [session EXCEPT !.got = f + 1] ELSE session
    /\ IF Commits(f) THEN Created ELSE UNCHANGED <<target, made>>

(* A request that timed out takes effect after all.                          *)
Late ==
    /\ late # NoRequest
    /\ late' = NoRequest
    /\ IF fragments = 0 THEN Created /\ UNCHANGED session ELSE Fragment(late - 1)
    /\ blind' = (blind \/ pc \in Final \union {"close"})
    /\ UNCHANGED <<fragments, folder, other, strays, pc, local, left, troubles>>

Other ==
    /\ pc \notin Final
    /\ \/ /\ target = None /\ folder
          /\ target' = "theirs" /\ other' = TRUE /\ UNCHANGED folder
       \/ ~folder /\ folder' = TRUE /\ UNCHANGED <<target, other>>
    /\ Trouble
    /\ UNCHANGED <<fragments, made, session, strays, late, pc, local, blind, left>>

Expire ==
    /\ session.state = "open" /\ pc \notin Final
    /\ session' = [session EXCEPT !.state = "gone"]
    /\ Trouble
    /\ UNCHANGED <<fragments, folder, target, other, made, strays, late, pc, local,
                   blind, left>>

-----------------------------------------------------------------------------
(* The upload                                                                *)

(* Every error of a large upload deletes the session whose URL is known.     *)
Failed == IF session.state = None THEN "failed" ELSE "close"
Fail == pc' = Failed

(* Two uploads that make the folder at once: the second one is refused.      *)
EnsureFolder ==
    /\ pc \in {"folder", "make"}
    /\ \/ /\ pc' = IF folder THEN (IF pc = "make" THEN "failed" ELSE "look")
                   ELSE IF pc = "make" THEN "look" ELSE "make"
          /\ folder' = (folder \/ pc = "make")
          /\ UNCHANGED troubles
       \/ /\ Trouble /\ pc' = "failed"
          /\ folder' \in {folder, folder \/ pc = "make"}
    /\ UNCHANGED <<fragments, target, other, made, session, strays, late, local, blind,
                   left>>

(* readTarget: a file that is there is neither overwritten nor renamed.      *)
Look ==
    /\ pc = "look"
    /\ \/ /\ pc' = IF target # None THEN "failed"
                   ELSE IF fragments = 0 THEN "put" ELSE "open"
          /\ UNCHANGED troubles
       \/ Trouble /\ pc' = "failed"
    /\ UNCHANGED <<fragments, remote, local, blind, left>>

(* The small file, answered; its answer lost; or refused for good, when the  *)
(* attempts before are not looked for.                                       *)
Put ==
    /\ pc = "put"
    /\ \/ /\ Created /\ cause' = Conflict
          /\ pc' = IF target = None THEN "stored" ELSE "check"
          /\ UNCHANGED <<late, blind, troubles>>
       \/ /\ Trouble /\ cause' = Transient /\ pc' = "check"
          /\ \/ Created /\ UNCHANGED late
             \/ late' \in {late, 1} /\ UNCHANGED <<target, made>>
          /\ UNCHANGED blind
       \/ Trouble /\ Fail /\ blind' = (tries > 0) /\ UNCHANGED <<target, made, late, cause>>
    /\ UNCHANGED <<fragments, folder, other, session, strays, at, tries, restarts, left>>

(* matchesLocalFile: the target is this file, by its size and a hash.        *)
Matches == target = "ours"

(* After a lost answer or a conflict: what is there decides.                 *)
Again == cause = Transient /\ tries + 1 < Attempts
Check ==
    /\ pc = "check"
    /\ \/ /\ pc' = IF target # None THEN (IF Matches THEN "stored" ELSE "failed")
                   ELSE IF Again THEN "put" ELSE "failed"
          /\ tries' = tries + 1
          /\ UNCHANGED <<blind, troubles>>
       \/ Trouble /\ pc' = "failed" /\ blind' = TRUE /\ UNCHANGED tries
    /\ UNCHANGED <<fragments, remote, cause, at, restarts, left>>

(* createUploadSession; a lost answer is asked again, and leaves a session.  *)
Open ==
    /\ pc = "open"
    /\ \/ /\ session' = [state |-> "open", got |-> 0]
          /\ pc' = "send" /\ at' = 0 /\ tries' = 0
          /\ UNCHANGED <<strays, troubles>>
       \/ /\ Trouble /\ strays' = strays + 1 /\ tries' = tries + 1
          /\ pc' = IF tries + 1 < Attempts THEN pc ELSE Failed
          /\ UNCHANGED <<session, at>>
       \/ /\ (target # None \/ troubles < MaxTroubles) /\ Fail
          /\ troubles' = troubles + (IF target # None THEN 0 ELSE 1)
          /\ UNCHANGED <<session, strays, at, tries>>
    /\ UNCHANGED <<fragments, folder, target, other, made, late, cause, restarts, blind,
                   left>>

(* A fragment.  One the session does not expect, or a session that has gone, *)
(* is asked about; a conflict is an error.                                   *)
Send ==
    /\ pc = "send"
    /\ \/ /\ Fragment(at)
          /\ pc' = IF ~Takes(at) THEN "ask" ELSE IF at + 1 < fragments THEN "send"
                   ELSE IF Commits(at) THEN "stored" ELSE "close"
          /\ at' = IF Takes(at) THEN at + 1 ELSE at
          /\ tries' = IF Takes(at) THEN 0 ELSE tries + 1
          /\ UNCHANGED <<late, blind, troubles>>
       \/ /\ Trouble /\ pc' = "ask" /\ tries' = tries + 1
          /\ \/ Fragment(at) /\ UNCHANGED late
             \/ late' \in {late, at + 1} /\ UNCHANGED <<session, target, made>>
          /\ UNCHANGED <<at, blind>>
       \/ /\ Trouble /\ Fail /\ blind' = (tries > 0)
          /\ UNCHANGED <<session, target, made, late, at, tries>>
    /\ UNCHANGED <<fragments, folder, other, strays, cause, restarts, left>>

(* The status of the session, and the next missing range.                    *)
Progressed == session.got > at
Ask ==
    /\ pc = "ask"
    /\ \/ /\ UNCHANGED <<blind, troubles>>
          /\ IF session.state = "open" /\ session.got < fragments
             THEN IF session.got < at \/ (tries >= Attempts /\ ~Progressed)
                  THEN Fail /\ UNCHANGED <<at, tries>>
                  ELSE /\ pc' = "send" /\ at' = session.got
                       /\ tries' = IF Progressed THEN 0 ELSE tries
             ELSE /\ pc' = IF session.state = "open" THEN "finished" ELSE "expired"
                  /\ UNCHANGED <<at, tries>>
       \/ Trouble /\ Fail /\ blind' = TRUE /\ UNCHANGED <<at, tries>>
    /\ UNCHANGED <<fragments, remote, cause, restarts, left>>

(* No session any more, or no missing range: the target decides, and an      *)
(* upload that expired starts once more from its beginning.                  *)
Restartable == pc = "expired" /\ target = None /\ restarts < 1
Verify ==
    /\ pc \in {"expired", "finished"}
    /\ \/ /\ pc' = IF Matches THEN "stored" ELSE IF Restartable THEN "open" ELSE Failed
          /\ restarts' = IF Restartable THEN restarts + 1 ELSE restarts
          /\ tries' = IF Restartable THEN 0 ELSE tries
          /\ late' = IF Restartable THEN NoRequest ELSE late
          /\ UNCHANGED <<blind, troubles>>
       \/ Trouble /\ Fail /\ blind' = TRUE /\ UNCHANGED <<restarts, tries, late>>
    /\ UNCHANGED <<fragments, folder, target, other, made, session, strays, cause, at,
                   left>>

Close ==
    /\ pc = "close"
    /\ pc' = "failed"
    /\ \/ /\ session' = [session EXCEPT !.state = IF @ = "open" THEN "gone" ELSE @]
          /\ UNCHANGED <<left, troubles>>
       \/ Trouble /\ left' = TRUE /\ UNCHANGED session
    /\ UNCHANGED <<fragments, folder, target, other, made, strays, late, local, blind>>

(* The signal of the write: nothing is looked at any more.                   *)
Abort ==
    /\ pc \notin Final \union {"folder", "make", "close"}
    /\ Trouble /\ Fail /\ blind' = TRUE
    /\ UNCHANGED <<fragments, remote, local, left>>

Upload == EnsureFolder \/ Look \/ Put \/ Check \/ Open \/ Send \/ Ask \/ Verify \/ Close
Next == Upload \/ Late \/ Other \/ Expire \/ Abort
Spec == Init /\ [][Next]_vars

-----------------------------------------------------------------------------
TypeOK ==
    /\ fragments \in Sizes /\ folder \in BOOLEAN /\ other \in BOOLEAN
    /\ target \in {None, "ours", "theirs"}
    /\ made \in Nat /\ strays \in Nat /\ at \in Nat /\ tries \in Nat /\ restarts \in Nat
    /\ session.state \in {None, "open", "gone", "done"}
    /\ session.got \in 0..fragments
    /\ pc \in Final \union {"folder", "make", "look", "put", "check", "open", "send",
                            "ask", "expired", "finished", "close"}
    /\ cause \in {None, Conflict, Transient}
    /\ blind \in BOOLEAN /\ left \in BOOLEAN

(* An upload that reports success has its file at the target.                *)
StoredIsThere == pc = "stored" => target = "ours"
(* One file at most, and never in the place of another's.                    *)
OneObject == made <= 1 /\ (other => target = "theirs")
(* A file made by an upload that failed is one it could not look at.         *)
FailureIsKnown == pc = "failed" /\ made > 0 => blind
(* A finished upload leaves no session open, unless its DELETE failed.       *)
SessionsClosed == pc \in Final /\ session.state = "open" => left
OneDriveKept == StoredIsThere /\ OneObject /\ FailureIsKnown /\ SessionsClosed
=============================================================================

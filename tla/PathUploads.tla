----------------------------- MODULE PathUploads -----------------------------
(* Uploads to a store that addresses a file by its path: OpenList            *)
(* (openListStorage.ts), which looks at the file afterwards, and WebDAV, S3  *)
(* and OSS (storage.ts), which go by the answer alone.  The store is         *)
(* external: it may answer late or never, keep a part of the bytes, or       *)
(* refuse a session that ended.  Names are unique, so that nobody else's     *)
(* file is at the path.                                                      *)
EXTENDS Naturals

CONSTANTS
    Kinds,       \* the stores a behaviour may begin with
    Writes,      \* the uploads, all into one new directory
    MaxTroubles  \* lost answers, refusals, aborts, sessions that end

VARIABLES
    kind,       \* "openlist", "webdav" or "plain"
    token,      \* the session of the provider: "none", "good", "ended"
    dir,        \* the directory exists
    file,       \* what is at each upload's path: "none", "part", "whole"
    pc,         \* each upload's step
    again,      \* uploads that are sent for the second time, after a login
    late,       \* uploads with a request still to take effect
    blind,      \* uploads that ended without a look at the file
    troubles

vars == <<kind, token, dir, file, pc, again, late, blind, troubles>>
Final == {"stored", "failed"}
OpenList == kind = "openlist"

Init ==
    /\ kind \in Kinds
    /\ token = "none" /\ dir = FALSE
    /\ file = [i \in Writes |-> "none"]
    /\ pc = [i \in Writes |-> IF kind = "plain" THEN "put" ELSE "dir"]
    /\ again = {} /\ late = {} /\ blind = {} /\ troubles = 0

Trouble == troubles < MaxTroubles /\ troubles' = troubles + 1
To(i, p) == pc' = [pc EXCEPT ![i] = p]
Blind(i) == blind' = blind \union {i}

(* api: without a session, or when it has ended, the provider logs in and    *)
(* asks once more; WebDAV finds out how to authenticate once (probe).        *)
LoggedIn == token' = "good"

(* ensureDirectory: looked for, and made when it is not found; WebDAV makes  *)
(* it without looking.                                                       *)
Directory(i) ==
    /\ pc[i] \in {"dir", "mkdir"}
    /\ \/ /\ LoggedIn
          /\ To(i, IF OpenList /\ ~dir /\ pc[i] = "dir" THEN "mkdir" ELSE "put")
          /\ dir' = (dir \/ pc[i] = "mkdir" \/ ~OpenList)
          /\ UNCHANGED troubles
       \/ Trouble /\ To(i, "failed") /\ dir' \in {dir, TRUE} /\ UNCHANGED token
    /\ UNCHANGED <<kind, file, again, late, blind>>

(* The file, sent whole; OpenList is told not to overwrite (Overwrite).      *)
Taken(i) == OpenList /\ file[i] # "none"
Put(i) ==
    /\ pc[i] = "put" /\ ~(OpenList /\ token = "ended")
    /\ token' = IF kind = "plain" THEN token ELSE "good"
    /\ ~Taken(i)
    /\ \/ file' = [file EXCEPT ![i] = "whole"] /\ UNCHANGED troubles
       \/ OpenList /\ Trouble /\ file' = [file EXCEPT ![i] = "part"]
    /\ To(i, IF OpenList THEN "verify" ELSE "stored")
    /\ UNCHANGED <<kind, dir, again, late, blind>>

(* 401 or 403: a new login, and the file is sent once more.                  *)
Login(i) ==
    /\ pc[i] = "put" /\ OpenList /\ token = "ended"
    /\ \/ /\ i \notin again /\ LoggedIn /\ again' = again \union {i}
          /\ UNCHANGED <<pc, blind, troubles>>
       \/ /\ i \in again /\ To(i, "failed") /\ Blind(i)
          /\ UNCHANGED <<token, again, troubles>>
       \/ /\ Trouble /\ To(i, "failed") /\ Blind(i)
          /\ UNCHANGED <<token, again>>
    /\ UNCHANGED <<kind, dir, file, late>>

(* No answer, a time limit or a refusal: OpenList looks for the file, unless *)
(* this was the second attempt; the others cannot tell.                      *)
Looks(i) == OpenList /\ i \notin again
PutError(i) ==
    /\ pc[i] = "put" /\ ~(OpenList /\ token = "ended")
    /\ \/ Taken(i) /\ UNCHANGED <<file, late, troubles>>
       \/ /\ Trouble
          /\ \/ ~Taken(i) /\ file' \in {[file EXCEPT ![i] = s] : s \in {"part", "whole"}}
                /\ UNCHANGED late
             \/ late' \in {late, late \union {i}} /\ UNCHANGED file
    /\ IF Looks(i) THEN To(i, "look") /\ UNCHANGED blind ELSE To(i, "failed") /\ Blind(i)
    /\ UNCHANGED <<kind, token, dir, again>>

(* getInfo: a file of the right size.                                        *)
Whole(i) == file[i] = "whole"
Verify(i) ==
    /\ pc[i] \in {"verify", "look"}
    /\ \/ To(i, IF Whole(i) THEN "stored" ELSE "failed") /\ LoggedIn
          /\ UNCHANGED <<blind, troubles>>
       \/ Trouble /\ To(i, "failed") /\ Blind(i) /\ UNCHANGED token
    /\ UNCHANGED <<kind, dir, file, again, late>>

Late(i) ==
    /\ i \in late
    /\ late' = late \ {i}
    /\ file' = IF Taken(i) THEN file ELSE [file EXCEPT ![i] = "whole"]
    /\ blind' = IF pc[i] = "failed" THEN blind \union {i} ELSE blind
    /\ UNCHANGED <<kind, token, dir, pc, again, troubles>>

SessionEnds ==
    /\ token = "good" /\ Trouble /\ token' = "ended"
    /\ UNCHANGED <<kind, dir, file, pc, again, late, blind>>

Abort(i) ==
    /\ pc[i] = "put" /\ Trouble /\ To(i, "failed") /\ Blind(i)
    /\ UNCHANGED <<kind, token, dir, file, again, late>>

Next ==
    \/ \E i \in Writes : Directory(i) \/ Put(i) \/ Login(i) \/ PutError(i) \/ Verify(i)
                         \/ Late(i) \/ Abort(i)
    \/ SessionEnds
Spec == Init /\ [][Next]_vars

-----------------------------------------------------------------------------
TypeOK ==
    /\ kind \in Kinds /\ token \in {"none", "good", "ended"} /\ dir \in BOOLEAN
    /\ \A i \in Writes : /\ file[i] \in {"none", "part", "whole"}
                         /\ pc[i] \in Final \union {"dir", "mkdir", "put", "verify", "look"}
    /\ again \subseteq Writes /\ late \subseteq Writes /\ blind \subseteq Writes

(* Success is reported for a whole file only, and a failure hides a whole    *)
(* file only when the provider could not look.                               *)
PathsKept == \A i \in Writes :
    /\ pc[i] = "stored" => file[i] = "whole"
    /\ pc[i] = "failed" /\ file[i] = "whole" => i \in blind
=============================================================================

---------------------------- MODULE GoogleUploads ----------------------------
(* Uploads to one Google Drive account (googleDriveUpload.ts, and its        *)
(* provider in storage.ts): the folders of the path, found or made with a    *)
(* cache and a promise that the uploads of one provider object share, and    *)
(* the file, created under an identifier allocated beforehand so that it can *)
(* be created again.  Every StorageManager.init makes a new provider object; *)
(* uploads that took their target before go on with the one they have.       *)
(* Google is external: it makes a folder of a name as often as it is asked,  *)
(* but a file of an identifier once; a list shows every folder made; an      *)
(* answer may be lost, and a request may take effect later.                  *)
EXTENDS Naturals, FiniteSets

CONSTANTS
    Writes,      \* the uploads, all into the same folder
    Depth,       \* folders of the path
    Providers,   \* provider objects that are made for the account
    Attempts,    \* 3
    MaxTroubles  \* lost answers, refusals, aborts, folders deleted by hand

VARIABLES
    folders,    \* folders at Google: id, level, parent; its maker, what that
                \* upload had seen, and whether it came after the maker gave up
    born,       \* folders ever made
    provider,   \* the provider object of the manager
    cache,      \* folderIdCache of each provider object, by level
    lock,       \* folderEnsureLocks of each: the upload that looks for it
    makes,      \* uploads whose folder is still to be made
    w,          \* each upload: pc, provider, level and parent, the folders made
                \* when it looked, tries, first error
    files,      \* the folder in which each upload's file was created, 0: none
    copies,     \* files made by each upload
    late,       \* uploads with a request still to take effect
    blind,      \* uploads that ended without a look that could tell
    troubles

vars == <<folders, born, provider, cache, lock, makes, w, files, copies, late, blind,
          troubles>>
store == <<files, copies, late, blind>>
paths == <<folders, born, provider, cache, lock, makes>>

Nobody == "nobody"
Transient == "transient"
Quota == "quota"
None == "none"
Final == {"stored", "failed", "cooldown"}
Levels == 1..Depth

Objects == 1..Providers
Keys == Objects \X Levels

Init ==
    /\ folders = {} /\ born = 0 /\ provider = 1 /\ makes = {}
    /\ cache = [k \in Keys |-> 0] /\ lock = [k \in Keys |-> Nobody]
    /\ w = [i \in Writes |-> [pc |-> "new", by |-> 1, level |-> 1, parent |-> 0, seen |-> 0,
                              tries |-> 0, first |-> None, conflict |-> FALSE]]
    /\ files = [i \in Writes |-> 0] /\ copies = [i \in Writes |-> 0]
    /\ late = {} /\ blind = {} /\ troubles = 0

Trouble == troubles < MaxTroubles /\ troubles' = troubles + 1
Exists(id) == \E f \in folders : f.id = id

-----------------------------------------------------------------------------
(* ensureFolderExists                                                        *)

(* init, after any change of the accounts; an upload takes its target.       *)
Reinit ==
    /\ provider < Providers /\ provider' = provider + 1
    /\ UNCHANGED <<folders, born, cache, lock, makes, w, store, troubles>>
Begin(i) ==
    /\ w[i].pc = "new"
    /\ w' = [w EXCEPT ![i].pc = "path", ![i].by = provider]
    /\ UNCHANGED <<paths, store, troubles>>

(* cacheKey: the uploads of one provider object have one parent at a level,  *)
(* which SameFolders says.                                                   *)
Key(i) == <<w[i].by, w[i].level>>
(* The upload goes on below the folder it was given.                         *)
Given(x, id) ==
    [x EXCEPT !.parent = id, !.level = @ + 1,
              !.pc = IF x.level = Depth THEN "id" ELSE "path"]
Reject(x) == [x EXCEPT !.pc = "failed"]
(* The end of a promise, 0 when it fails: its owner and who waits for it.    *)
Awaits(j, i) == w[j].pc = "wait" /\ Key(j) = Key(i)
Settle(i, id) ==
    /\ lock' = [lock EXCEPT ![Key(i)] = Nobody]
    /\ w' = [j \in Writes |-> IF j = i \/ Awaits(j, i)
                              THEN IF id = 0 THEN Reject(w[j]) ELSE Given(w[j], id)
                              ELSE w[j]]
    /\ cache' = IF id = 0 THEN cache ELSE [cache EXCEPT ![Key(i)] = id]

(* Mutant of Owns: the promise of another upload is not looked for.          *)
OwnsAlways(i) == TRUE

(* The cache, the promise of another upload, or a promise of one's own.      *)
Cached(i) == cache[Key(i)]
Owns(i) == lock[Key(i)] = Nobody
EnsureChild(i) ==
    /\ w[i].pc = "path"
    /\ w' = [w EXCEPT ![i] = IF Cached(i) # 0 THEN Given(@, Cached(i))
                             ELSE [@ EXCEPT !.pc = IF Owns(i) THEN "find" ELSE "wait"]]
    /\ lock' = IF Cached(i) = 0 /\ Owns(i) THEN [lock EXCEPT ![Key(i)] = i]
               ELSE lock
    /\ UNCHANGED <<folders, born, provider, cache, makes, store, troubles>>

(* findFolderId: the oldest folder of that name under that parent.           *)
Same(i) == {f \in folders : f.level = w[i].level /\ f.parent = w[i].parent}
Find(i) ==
    /\ w[i].pc = "find"
    /\ \/ /\ Same(i) = {} /\ w' = [w EXCEPT ![i].pc = "make", ![i].seen = born]
          /\ UNCHANGED <<cache, lock, troubles>>
       \/ \E f \in Same(i) : (\A g \in Same(i) : f.id <= g.id) /\ Settle(i, f.id)
                            /\ UNCHANGED troubles
       \/ Trouble /\ Settle(i, 0)
    /\ UNCHANGED <<folders, born, provider, makes, store>>

(* The folder is made, or it is refused or the answer lost: then it may be   *)
(* made all the same, now or later.  The request is not sent again.          *)
NewFolder(i, later) ==
    /\ folders' = folders \union
           {[id |-> born + 1, level |-> w[i].level, parent |-> w[i].parent,
             by |-> w[i].by, seen |-> w[i].seen, late |-> later]}
    /\ born' = born + 1
Make(i) ==
    /\ w[i].pc = "make"
    /\ \/ NewFolder(i, FALSE) /\ Settle(i, born + 1) /\ UNCHANGED <<makes, troubles>>
       \/ /\ Trouble /\ Settle(i, 0)
          /\ \/ NewFolder(i, FALSE) /\ UNCHANGED makes
             \/ makes' \in {makes, makes \union {i}} /\ UNCHANGED <<folders, born>>
    /\ UNCHANGED <<provider, store>>
MakeLate(i) ==
    /\ i \in makes /\ makes' = makes \ {i}
    /\ NewFolder(i, TRUE)
    /\ UNCHANGED <<provider, cache, lock, w, store, troubles>>

(* Someone deletes the last folder for good, with what is in it.             *)
DeleteFolder(f) ==
    /\ f.level = Depth /\ Trouble
    /\ folders' = folders \ {f}
    /\ files' = [i \in Writes |-> IF files[i] = f.id THEN 0 ELSE files[i]]
    /\ UNCHANGED <<born, provider, cache, lock, makes, w, copies, late, blind>>

-----------------------------------------------------------------------------
(* prepareSaveFile and uploadGoogleDriveFile                                 *)

To(i, p) == w' = [w EXCEPT ![i].pc = p]

GenerateId(i) ==
    /\ w[i].pc = "id"
    /\ \/ To(i, "create") /\ UNCHANGED troubles
       \/ Trouble /\ To(i, "failed")
    /\ UNCHANGED <<paths, store>>

(* Google creates a file of an identifier once, in a folder that exists.     *)
Free(i) == copies[i] = 0
Accepts(i) == Free(i) /\ Exists(w[i].parent)
Effect(i) ==
    /\ files' = [files EXCEPT ![i] = w[i].parent]
    /\ copies' = [copies EXCEPT ![i] = @ + 1]

(* The first error is the one that is thrown in the end.                     *)
First(x, error) == [x EXCEPT !.first = IF @ = None THEN error ELSE @]
Result(first) == IF first = Quota THEN "cooldown" ELSE "failed"
(* An error that is no conflict and not transient ends the upload.           *)
Refuse(i, error) ==
    /\ LET x == First(w[i], error)
       IN  w' = [w EXCEPT ![i] = [x EXCEPT !.pc = Result(x.first)]]
    /\ blind' = IF w[i].tries > 0 THEN blind \union {i} ELSE blind
Create(i) ==
    /\ w[i].pc = "create"
    /\ \/ /\ Accepts(i) /\ Effect(i) /\ To(i, "stored")
          /\ UNCHANGED <<late, blind, troubles>>
       \/ /\ ~Accepts(i)
          /\ IF Free(i) THEN Refuse(i, "missing")
             ELSE /\ w' = [w EXCEPT ![i] = [First(@, "conflict") EXCEPT !.pc = "inspect",
                                                                        !.conflict = TRUE]]
                  /\ UNCHANGED blind
          /\ UNCHANGED <<files, copies, late, troubles>>
       \/ /\ Trouble
          /\ w' = [w EXCEPT ![i] = [First(@, Transient) EXCEPT !.pc = "inspect",
                                                               !.conflict = FALSE]]
          /\ \/ Accepts(i) /\ Effect(i) /\ UNCHANGED late
             \/ late' \in {late, late \union {i}} /\ UNCHANGED <<files, copies>>
          /\ UNCHANGED blind
       \/ \E error \in {Quota, "denied"} :
              Trouble /\ Refuse(i, error) /\ UNCHANGED <<files, copies, late>>
    /\ UNCHANGED paths

(* The file of the identifier: its name, size, folder and MD5.               *)
Whole(i) == files[i] # 0
Again(i) == ~w[i].conflict /\ w[i].tries + 1 < Attempts
Inspect(i) ==
    /\ w[i].pc = "inspect"
    /\ \/ /\ To(i, IF Whole(i) THEN "stored" ELSE IF Again(i) THEN "pause"
                   ELSE Result(w[i].first))
          /\ UNCHANGED <<blind, troubles>>
       \/ /\ Trouble
          /\ To(i, IF Again(i) THEN "pause" ELSE Result(w[i].first))
          /\ blind' = IF Again(i) THEN blind ELSE blind \union {i}
    /\ UNCHANGED <<paths, files, copies, late>>

(* 30 and 60 seconds later.                                                  *)
Retry(i) ==
    /\ w[i].pc = "pause"
    /\ w' = [w EXCEPT ![i].pc = "create", ![i].tries = @ + 1]
    /\ UNCHANGED <<paths, store, troubles>>

Late(i) ==
    /\ i \in late
    /\ late' = late \ {i}
    /\ IF Accepts(i) THEN Effect(i) ELSE UNCHANGED <<files, copies>>
    /\ blind' = IF w[i].pc \in Final THEN blind \union {i} ELSE blind
    /\ UNCHANGED <<paths, w, troubles>>

Abort(i) ==
    /\ w[i].pc \in {"create", "inspect", "pause"}
    /\ Trouble /\ To(i, "failed") /\ blind' = blind \union {i}
    /\ UNCHANGED <<paths, files, copies, late>>

Next ==
    \/ \E i \in Writes : Begin(i) \/ EnsureChild(i) \/ Find(i) \/ Make(i) \/ MakeLate(i)
                         \/ GenerateId(i) \/ Create(i) \/ Inspect(i) \/ Retry(i) \/ Late(i)
                         \/ Abort(i)
    \/ Reinit
    \/ \E f \in folders : DeleteFolder(f)
Spec == Init /\ [][Next]_vars

-----------------------------------------------------------------------------
TypeOK ==
    /\ born \in Nat /\ troubles \in Nat /\ provider \in Objects
    /\ \A f \in folders : f.id \in 1..born /\ f.level \in Levels /\ f.parent \in 0..born
                         /\ f.by \in Objects /\ f.seen \in 0..born /\ f.late \in BOOLEAN
    /\ \A k \in Keys : cache[k] \in 0..born /\ lock[k] \in Writes \union {Nobody}
    /\ \A i \in Writes : w[i].pc \in Final \union {"new", "path", "wait", "find", "make", "id",
                                                   "create", "inspect", "pause"}
                         /\ w[i].by \in Objects /\ w[i].seen \in 0..born
                         /\ files[i] \in 0..born /\ copies[i] \in Nat
    /\ late \subseteq Writes /\ blind \subseteq Writes /\ makes \subseteq Writes

(* A folder is made a second time under its parent only for an upload that   *)
(* had looked before the first was made; and for uploads of one provider     *)
(* object, however many look for it at once, only when a request whose       *)
(* answer was lost took effect after its upload had given up.                *)
OneFolder == \A f, g \in folders :
    f.level = g.level /\ f.parent = g.parent /\ f.id < g.id =>
        g.seen < f.id /\ (f.by # g.by \/ f.late \/ g.late)
(* Also when there are two, the uploads of one provider object are given the *)
(* same folder at every level of the path.                                   *)
SameFolders == \A i, j \in Writes :
    Key(i) = Key(j) => w[i].parent = w[j].parent
(* An upload that reports success has its file in the folder it was given,   *)
(* one file at most is made, and a failure hides none that could be seen.    *)
StoredOnce == \A i \in Writes :
    /\ w[i].pc = "stored" => copies[i] = 1 /\ files[i] \in {0, w[i].parent}
    /\ copies[i] <= 1
    /\ w[i].pc \in {"failed", "cooldown"} /\ files[i] # 0 => i \in blind
(* Nobody waits for a promise that is not kept: an upload of the same        *)
(* provider object is at work on it.                                         *)
LocksHeld == \A i \in Writes :
    w[i].pc = "wait" => \E j \in Writes : lock[Key(i)] = j /\ Awaits(i, j)
                                          /\ w[j].pc \in {"find", "make"}
GoogleKept == OneFolder /\ SameFolders /\ StoredOnce /\ LocksHeld
=============================================================================

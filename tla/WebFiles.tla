------------------------------ MODULE WebFiles ------------------------------
(* The file list of the web page (App.tsx): what is shown of a folder is   *)
(* read in pages, kept in a short cache, and changed by the user while he  *)
(* goes on to other folders.  Of several reads only the last may be shown. *)
EXTENDS Naturals, FiniteSets, FiniteSetsExt

CONSTANTS
    Folders,        \* folders, or other queries for files
    Ids,            \* files, in the order of the list
    Home,           \* where each file is at first, or "gone"
    PageSize,       \* files of a page
    MaxOps,         \* bound: changes that the user makes
    MaxMoves,       \* bound: folders that he goes to, and pages asked for
    MaxTroubles     \* bound: reads and changes that fail, and reloads of the page

Nothing == [of |-> "none"]

VARIABLES
    at,         \* server: the folder of each file, or "gone"
    route,      \* folder that the page is to show
    list,       \* files that it shows, and of which folder
    cache,      \* lists kept of folders
    timer,      \* the read of the route that is about to begin
    armed,      \* that read has begun: leaving the route cancels what is read
    req,        \* the read that counts
    loading,    \* the page shows that it reads ...
    more,       \* ... or that it reads on
    error,      \* the page shows that a read failed
    op,         \* a change of the user, with the folder shown when it began
    stats,      \* number of files that the page shows in its statistics ...
    counting,   \* ... and the request for it that counts
    strayed,    \* what was read last is not of the route, or went on from an old list
    ghosts,     \* files whose deletion overtook a read
    ops, moves, troubles

listVars == <<list, cache, timer, armed, req, loading, more, error, strayed>>
statVars == <<stats, counting>>
vars == <<at, route, listVars, op, statVars, ghosts, ops, moves, troubles>>

Trouble == troubles < MaxTroubles /\ troubles' = troubles + 1
Smooth == UNCHANGED troubles
Move == moves < MaxMoves /\ moves' = moves + 1

Of(f) == {id \in Ids : at[id] = f}
Count == Cardinality({id \in Ids : at[id] # "gone"})

(* A page of a folder: the files after a cursor.                           *)
After(f, cursor) == {id \in Of(f) : id > cursor}
Page(f, cursor) ==
    LET ids == {id \in After(f, cursor) : Cardinality({j \in After(f, cursor) : j <= id}) <= PageSize}
    IN [of |-> f, files |-> ids, cursor |-> Max(ids \cup {cursor}),
        hasMore |-> ids # After(f, cursor)]

(* LatestRequest.begin: what is read before is aborted.                    *)
Begin(kind, f, cursor, by) ==
    /\ req' = [of |-> f, kind |-> kind, cursor |-> cursor, by |-> by, page |-> Nothing]
    /\ more' = (kind = "more")
    /\ error' = (kind = "more" /\ error)

(* loadFiles, with the query of the view in which it was called.           *)
LoadFiles(f, by) ==
    /\ Begin("load", f, 0, by)
    /\ loading' = TRUE
    /\ strayed' = (f # route)
    /\ UNCHANGED <<list, timer, armed>>

LoadStorageStats == counting' = [read |-> FALSE, count |-> 0] /\ UNCHANGED stats

-----------------------------------------------------------------------------
(* The user goes to another folder: its list is taken from the cache, and  *)
(* its read is scheduled.                                                  *)
Navigate(f) ==
    /\ Move /\ f # route /\ route' = f
    /\ timer' = [of |-> f, cached |-> cache[f] # Nothing]
    /\ armed' = FALSE
    /\ req' = IF armed THEN Nothing ELSE req
    /\ more' = (more /\ ~armed)
    /\ list' = IF cache[f] # Nothing THEN cache[f] ELSE list
    /\ error' = (error /\ cache[f] = Nothing)
    /\ UNCHANGED <<at, cache, loading, op, statVars, strayed, ghosts, ops, troubles>>

(* The scheduled read begins.                                              *)
Fire ==
    /\ timer # Nothing
    /\ timer' = Nothing /\ armed' = TRUE
    /\ Begin("route", timer.of, 0, "route")
    /\ loading' = ~timer.cached
    /\ strayed' = FALSE
    /\ UNCHANGED <<at, route, list, cache, op, statVars, ghosts, ops, moves, troubles>>

(* loadMoreFiles: its button is there when nothing is being loaded.        *)
LoadMore ==
    /\ Move /\ timer = Nothing
    /\ list # Nothing /\ list.hasMore /\ ~loading /\ ~more
    /\ Begin("more", route, list.cursor, "user")
    /\ strayed' = (strayed \/ error \/ list.of # route \/ (req # Nothing /\ req.kind = "load"))
    /\ UNCHANGED <<at, route, list, cache, timer, armed, loading, op, statVars, ghosts, ops, troubles>>

(* The button that reads the list again.                                   *)
Refresh ==
    /\ Move /\ timer = Nothing
    /\ LoadFiles(route, "user") /\ LoadStorageStats
    /\ UNCHANGED <<at, route, cache, op, ghosts, ops, troubles>>

(* The server reads the page.                                              *)
Read ==
    /\ req # Nothing /\ req.page = Nothing
    /\ req' = [req EXCEPT !.page = Page(req.of, req.cursor)]
    /\ UNCHANGED <<at, route, list, cache, timer, armed, loading, more, error, op, statVars, strayed,
                   ghosts, ops, moves, troubles>>

(* Its answer is shown, and that of a route is kept.                       *)
Apply ==
    /\ req # Nothing /\ req.page # Nothing
    /\ req' = Nothing
    /\ list' = IF req.kind = "more"
               THEN [list EXCEPT !.files = @ \cup req.page.files, !.cursor = req.page.cursor,
                                 !.hasMore = req.page.hasMore]
               ELSE req.page
    /\ cache' = IF req.kind = "route" THEN [cache EXCEPT ![req.of] = req.page] ELSE cache
    /\ loading' = (loading /\ req.kind = "more")
    /\ more' = FALSE
    /\ error' = (error /\ req.kind # "more")
    /\ UNCHANGED <<at, route, timer, armed, op, statVars, strayed, ghosts, ops, moves, troubles>>

ReadFails ==
    /\ Trouble /\ req # Nothing
    /\ req' = Nothing /\ error' = TRUE /\ more' = FALSE
    /\ loading' = (loading /\ req.kind = "more")
    /\ UNCHANGED <<at, route, list, cache, timer, armed, op, statVars, strayed, ghosts, ops, moves>>

-----------------------------------------------------------------------------
(* Changes: a deletion, a move, which stands for whatever changes the      *)
(* query that files answer to, an upload, and a deletion of several.       *)
Change(kind, ids) ==
    /\ op = Nothing /\ ops < MaxOps /\ ops' = ops + 1 /\ timer = Nothing
    /\ ids # {} /\ (kind # "batch" => Cardinality(ids) = 1)
    /\ IF kind = "upload" THEN \A id \in ids : at[id] = "gone"
       ELSE list # Nothing /\ ids \subseteq list.files
    /\ op' = [of |-> route, kind |-> kind, ids |-> ids, phase |-> "sent"]
    /\ loading' = (loading \/ kind = "batch")
    /\ UNCHANGED <<at, route, list, cache, timer, armed, req, more, error, statVars, strayed, ghosts,
                   moves, troubles>>

Target(id, there) ==
    CASE op.kind = "upload" -> op.of
      [] op.kind = "move" -> IF at[id] = "gone" THEN "gone" ELSE there
      [] OTHER -> "gone"

(* The server makes the change, or a batch in part, or refuses it.         *)
Serve ==
    /\ op # Nothing /\ op.phase = "sent"
    /\ \/ /\ Smooth
          /\ \E there \in Folders :
                at' = [id \in Ids |-> IF id \in op.ids THEN Target(id, there) ELSE at[id]]
          /\ op' = [op EXCEPT !.phase = "done"]
       \/ /\ Trouble /\ op.kind = "batch"
          /\ \E part \in SUBSET op.ids :
                at' = [id \in Ids |-> IF id \in part THEN "gone" ELSE at[id]]
          /\ op' = [op EXCEPT !.phase = "done"]
       \/ /\ Trouble /\ op.kind # "batch" /\ UNCHANGED at
          /\ op' = IF op.kind = "upload" THEN [op EXCEPT !.phase = "done"] ELSE Nothing
    /\ UNCHANGED <<route, listVars, statVars, ghosts, ops, moves>>

invalidateFileQueryCache == cache' = [f \in Folders |-> Nothing]

(* handleConfirmDelete takes the file from the list that is shown; a read  *)
(* that was made before may bring it back.                                 *)
DeleteEnds ==
    /\ op # Nothing /\ op.phase = "done" /\ op.kind = "delete"
    /\ list' = IF list = Nothing THEN list ELSE [list EXCEPT !.files = @ \ op.ids]
    /\ invalidateFileQueryCache
    /\ ghosts' = IF req # Nothing /\ req.page # Nothing THEN ghosts \cup (op.ids \cap req.page.files)
                 ELSE ghosts
    /\ op' = Nothing
    /\ LoadStorageStats
    /\ UNCHANGED <<at, route, timer, armed, req, loading, more, error, strayed, ops, moves, troubles>>

(* refreshFilesAfterMutation, and the end of an upload or a batch.         *)
ChangeEnds ==
    /\ op # Nothing /\ op.phase = "done" /\ op.kind # "delete"
    /\ invalidateFileQueryCache
    /\ LoadFiles(op.of, "change")
    /\ op' = IF op.kind = "batch" THEN [op EXCEPT !.phase = "shown"] ELSE Nothing
    /\ IF op.kind = "move" THEN UNCHANGED statVars ELSE LoadStorageStats
    /\ UNCHANGED <<at, route, ghosts, ops, moves, troubles>>

(* performBatchDelete: when its read was shown, or aborted.                *)
BatchEnds ==
    /\ op # Nothing /\ op.phase = "shown" /\ (req # Nothing => req.by # "change")
    /\ op' = Nothing /\ loading' = FALSE
    /\ UNCHANGED <<at, route, list, cache, timer, armed, req, more, error, statVars, strayed, ghosts,
                   ops, moves, troubles>>

-----------------------------------------------------------------------------
(* loadStorageStats: only the answer to the last request is taken.         *)
CountFiles ==
    /\ counting # Nothing /\ ~counting.read
    /\ counting' = [read |-> TRUE, count |-> Count]
    /\ UNCHANGED <<at, route, listVars, op, stats, ghosts, ops, moves, troubles>>

ShowCount ==
    /\ counting # Nothing /\ counting.read
    /\ stats' = counting.count /\ counting' = Nothing
    /\ UNCHANGED <<at, route, listVars, op, ghosts, ops, moves, troubles>>

(* Lists are kept for a short time only.                                   *)
Forget(f) ==
    /\ cache[f] # Nothing
    /\ cache' = [cache EXCEPT ![f] = Nothing]
    /\ UNCHANGED <<at, route, list, timer, armed, req, loading, more, error, op, statVars, strayed,
                   ghosts, ops, moves, troubles>>

(* The page is opened again: the lists kept survive.                       *)
Reopen ==
    /\ Trouble /\ op = Nothing
    /\ list' = cache[route]
    /\ timer' = [of |-> route, cached |-> cache[route] # Nothing]
    /\ loading' = (cache[route] = Nothing)
    /\ armed' = FALSE /\ req' = Nothing /\ more' = FALSE /\ error' = FALSE /\ strayed' = FALSE
    /\ stats' = 0 /\ counting' = [read |-> FALSE, count |-> 0]
    /\ UNCHANGED <<at, route, cache, op, ghosts, ops, moves>>

Init ==
    /\ at = Home /\ route \in Folders
    /\ list = Nothing /\ cache = [f \in Folders |-> Nothing]
    /\ timer = [of |-> route, cached |-> FALSE] /\ armed = FALSE /\ req = Nothing
    /\ loading = TRUE /\ more = FALSE /\ error = FALSE /\ strayed = FALSE
    /\ op = Nothing /\ stats = 0 /\ counting = [read |-> FALSE, count |-> 0]
    /\ ghosts = {} /\ ops = 0 /\ moves = 0 /\ troubles = 0

Next ==
    \/ \E f \in Folders : Navigate(f) \/ Forget(f)
    \/ \E kind \in {"delete", "move", "upload", "batch"}, ids \in SUBSET Ids : Change(kind, ids)
    \/ Fire \/ LoadMore \/ Refresh \/ Read \/ Apply \/ ReadFails
    \/ Serve \/ DeleteEnds \/ ChangeEnds \/ BatchEnds
    \/ CountFiles \/ ShowCount \/ Reopen

Spec == Init /\ [][Next]_vars

-----------------------------------------------------------------------------
Snapshots ==
    [of : Folders, files : SUBSET Ids, cursor : Nat, hasMore : BOOLEAN] \cup {Nothing}

TypeOK ==
    /\ at \in [Ids -> Folders \cup {"gone"}] /\ route \in Folders
    /\ list \in Snapshots /\ cache \in [Folders -> Snapshots]
    /\ {armed, loading, more, error, strayed} \subseteq BOOLEAN
    /\ ghosts \subseteq Ids /\ stats \in Nat

(* A list is what its folder has, up to its cursor.                        *)
Accurate(l) ==
    l.files \ ghosts = {id \in Of(l.of) : l.hasMore => id <= l.cursor} \ ghosts

Quiet == timer = Nothing /\ req = Nothing /\ op = Nothing

(* When nothing is going on, the page shows the folder it is to show, as   *)
(* it is, unless it shows an error; or a change that was begun in another  *)
(* folder has read that one; or a list whose refresh failed, or was given  *)
(* up for it, was read on; or a deletion overtook a read (App.tsx).        *)
ListTrue == Quiet /\ ~error /\ ~strayed => list # Nothing /\ list.of = route /\ Accurate(list)

(* What is kept of a folder is of that folder, and as accurate.            *)
CacheTrue ==
    op = Nothing => \A f \in Folders : cache[f] # Nothing => cache[f].of = f /\ Accurate(cache[f])

(* No spinner stays, and the statistics are those of the last change       *)
(* (storageStatisticsSynchronization.ts).                                  *)
AllEnds ==
    /\ Quiet => ~loading /\ ~more
    /\ op = Nothing /\ counting = Nothing => stats = Count

FilesShown == ListTrue /\ CacheTrue /\ AllEnds
=============================================================================

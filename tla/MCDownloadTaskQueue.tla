------------------------ MODULE MCDownloadTaskQueue ------------------------
(* Instances of DownloadTaskQueue for TLC.                                 *)
EXTENDS DownloadTaskQueue, TLC

CONSTANTS f1, f2, f3,      \* files
          album, job,      \* an album of two files and a job of one
          chat, user       \* scopes

MCGroupOf == [t \in Tasks |-> IF t = f3 THEN job ELSE album]

(* The album belongs to the chat; everything belongs to the user.          *)
MCScopeGroups == [s \in Scopes |-> IF s = chat THEN {album} ELSE Groups]

(* The two files of the album are alike.                                   *)
Symmetry == Permutations({f1, f2})
=============================================================================

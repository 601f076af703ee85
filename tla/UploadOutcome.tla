--------------------------- MODULE UploadOutcome ---------------------------
(***************************************************************************)
(* What a chunked upload promises its user: it is open, then either stored *)
(* as exactly one file or dropped, and neither end is ever taken back.     *)
(***************************************************************************)
CONSTANTS Uploads,
          Files,      \* what an upload can be stored as
          NoFile

VARIABLES outcome, file

vars == <<outcome, file>>

Init ==
    /\ outcome = [u \in Uploads |-> "none"]
    /\ file = [u \in Uploads |-> NoFile]

Open(u) ==
    /\ outcome[u] = "none"
    /\ outcome' = [outcome EXCEPT ![u] = "open"]
    /\ UNCHANGED file

Store(u, f) ==
    /\ outcome[u] = "open"
    /\ outcome' = [outcome EXCEPT ![u] = "stored"]
    /\ file' = [file EXCEPT ![u] = f]

Drop(u) ==
    /\ outcome[u] = "open"
    /\ outcome' = [outcome EXCEPT ![u] = "dropped"]
    /\ UNCHANGED file

Next ==
    \E u \in Uploads :
        \/ Open(u)
        \/ \E f \in Files : Store(u, f)
        \/ Drop(u)

Spec == Init /\ [][Next]_vars
=============================================================================

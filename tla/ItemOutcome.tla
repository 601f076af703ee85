---------------------------- MODULE ItemOutcome ----------------------------
(***************************************************************************)
(* What a channel job promises of its items: each is open, then stored as  *)
(* one file that stays, or skipped because the job was cancelled, or       *)
(* failed; and only a failed one is opened again, in a job that was not    *)
(* cancelled.  A job that is cancelled stays so.  Items end independently, *)
(* several of them at once perhaps.                                        *)
(***************************************************************************)
CONSTANTS Items,
          Files,        \* what an item can be stored as
          NoFile

VARIABLES outcome, file, withdrawn

vars == <<outcome, file, withdrawn>>

(* The job may have run before, and stored some items.                     *)
Init ==
    /\ outcome \in [Items -> {"open", "stored"}]
    /\ file \in [Items -> Files \cup {NoFile}]
    /\ \A i \in Items : outcome[i] = "stored" <=> file[i] # NoFile
    /\ withdrawn = FALSE

Stays(i) == outcome'[i] = outcome[i] /\ file'[i] = file[i]

Stores(i) ==
    /\ outcome[i] = "open" /\ outcome'[i] = "stored"
    /\ file'[i] \in Files

Skips(i) ==
    /\ withdrawn
    /\ outcome[i] = "open" /\ outcome'[i] = "skipped"
    /\ file'[i] = file[i]

Fails(i) ==
    /\ outcome[i] = "open" /\ outcome'[i] = "failed"
    /\ file'[i] = file[i]

Reopens(i) ==
    /\ ~withdrawn'
    /\ outcome[i] = "failed" /\ outcome'[i] = "open"
    /\ file'[i] = file[i]

Next ==
    /\ withdrawn => withdrawn'
    /\ \A i \in Items : Stays(i) \/ Stores(i) \/ Skips(i) \/ Fails(i) \/ Reopens(i)

Spec == Init /\ [][Next]_vars
=============================================================================

------------------------- MODULE MCStorageAccounts -------------------------
(* Instances of StorageAccounts for TLC.                                   *)
EXTENDS StorageAccounts, TLC

CONSTANTS a1, a2, o1, o2, l1, l2

Symmetry == Permutations({a1, a2}) \cup Permutations({o1, o2}) \cup Permutations({l1, l2})
=============================================================================

--------------------------- MODULE MCChunkUpload ---------------------------
(* Instances of ChunkUpload for TLC.                                       *)
EXTENDS ChunkUpload, TLC

CONSTANTS u1, c1, c2, m1, m2

Symmetry == Permutations({c1, c2}) \cup Permutations({m1, m2})

(* All completion requests are for the same upload; any other upload is    *)
(* only filled, cancelled or left to expire.                               *)
MCUploadOf == [c \in Completions |-> u1]
=============================================================================

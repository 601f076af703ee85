------------------------- MODULE MCChannelDownloads -------------------------
(* Instances of ChannelDownloads for TLC.                                  *)
EXTENDS ChannelDownloads, TLC

CONSTANTS i1, i2

Symmetry == Permutations(Items)

(* Two new items with one trouble, or one of them with two.                *)
MCInit == Prepared({}, 1) \/ \E i \in Items : Prepared({i}, 0)

MCSpec == MCInit /\ [][Next]_vars
=============================================================================

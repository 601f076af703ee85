------------------------- MODULE MCSubscriptionSync -------------------------
(* An instance of SubscriptionSync for TLC.                                *)
EXTENDS SubscriptionSync
=============================================================================

------------------------- MODULE MCSubscriptionLocks -------------------------
(* SubscriptionLocks with its constants given by the configuration. *)
EXTENDS SubscriptionLocks
=============================================================================

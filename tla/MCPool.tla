-------------------------------- MODULE MCPool --------------------------------
(* SubscriptionPool on a small instance: model values come from the cfg. *)
EXTENDS SubscriptionPool
=============================================================================

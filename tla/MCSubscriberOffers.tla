------------------------- MODULE MCSubscriberOffers -------------------------
(* Server offers to one subscriber, for TLC. *)
EXTENDS SubscriberOffers
=============================================================================

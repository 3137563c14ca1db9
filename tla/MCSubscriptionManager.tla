----------------------- MODULE MCSubscriptionManager ------------------------
(***************************************************************************)
(* One rule of each kind: unthrottled, leading, trailing.  One message,    *)
(* poisoned or not, that two deliveries may have in two workers at once.   *)
(***************************************************************************)
EXTENDS SubscriptionManager

CONSTANTS plain, lead, trail
=============================================================================

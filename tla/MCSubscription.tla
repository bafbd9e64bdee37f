--------------------------- MODULE MCSubscription ---------------------------
(***************************************************************************)
(* SubscriptionLifecycle on instances small enough for TLC.  Rows are      *)
(* created in id order and requests are told apart by nothing but what     *)
(* they hold, so the request handlers are symmetric.                       *)
(***************************************************************************)
EXTENDS SubscriptionLifecycle, TLC

RequestSymmetry == Permutations(Requests)

EveryOperation == AllOperations
=============================================================================

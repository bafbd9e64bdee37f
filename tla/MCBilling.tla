----------------------------- MODULE MCBilling -----------------------------
(***************************************************************************)
(* Billing on instances small enough for TLC.  Request handlers are told   *)
(* apart by nothing but what they hold.                                    *)
(***************************************************************************)
EXTENDS Billing, TLC

RequestSymmetry == Permutations(Requests)

NoProrations == {}
CreditOnly == {<<2, 0>>}
SmallProrations == {<<2, 0>>, <<0, 1>>}
=============================================================================

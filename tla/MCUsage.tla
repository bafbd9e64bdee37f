------------------------------ MODULE MCUsage ------------------------------
(* UsageLimits on instances small enough for TLC: handlers and people are  *)
(* told apart by nothing but what they hold.                               *)
EXTENDS UsageLimits, TLC

UsageSymmetry ==
  Permutations(Requests) \cup Permutations(Students) \cup Permutations(Staff)
=============================================================================

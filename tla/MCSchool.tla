------------------------------ MODULE MCSchool ------------------------------
(***************************************************************************)
(* MCSubscription, and beside it the session of one account and a title of *)
(* the library, which share no state with it: a behaviour is one of one    *)
(* part, and the others rest.  The names of handlers are used in all of    *)
(* them, so that one symmetry serves.                                      *)
(***************************************************************************)
EXTENDS MCSubscription, Sessions, Library

VARIABLE part

schoolVars == <<part, vars, sessionVars, libraryVars>>

SubscriptionPart ==
  part = "subscription" /\ Next /\ UNCHANGED <<part, sessionVars, libraryVars>>

(* A bound: one tab alone uses all its calls, two tabs one each. *)
OneCallEach == \A t \in Tabs : Cardinality({k \in Slots : call[t][k].at # "idle"}) <= 1
SessionsPart ==
  /\ part = "sessions" /\ SessionsNext /\ UNCHANGED <<part, vars, libraryVars>>
  /\ Cardinality(acted') <= 1 \/ OneCallEach'

LibraryPart == part = "library" /\ LibraryNext /\ UNCHANGED <<part, vars, sessionVars>>

SchoolInit ==
  /\ part \in {"subscription", "sessions", "library"}
  /\ Init /\ SessionsInit /\ LibraryInit
  /\ part # "sessions" => \A t, u \in Tabs : jarOf[t] = jarOf[u]
  /\ part # "library" => book.quantity = 0

SchoolSpec == SchoolInit /\ [][SubscriptionPart \/ SessionsPart \/ LibraryPart]_schoolVars

SchoolSymmetry ==
  UNION {Permutations(Requests), Permutations(Browsers), Permutations(Slots)}

(* What a browser, a tab or a librarian holds, and the rows behind them,   *)
(* keep their types.                                                       *)
SchoolTypes == SessionsTypeOK /\ LibraryTypeOK
=============================================================================

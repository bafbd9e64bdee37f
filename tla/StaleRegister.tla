--------------------------- MODULE StaleRegister ---------------------------
(***************************************************************************)
(* What a read through the caches promises, with no cache in it: an answer *)
(* is the row as it is, or as it was at most Bound ago.                    *)
(***************************************************************************)
EXTENDS Integers

CONSTANTS Keys, Versions, Bound

VARIABLES
  source,   \* [Keys -> Versions]: the row's current version
  since,    \* [Keys -> [Versions -> Nat]]: how long a version has been superseded
  answer    \* [Keys -> Versions]: the last answer given

register == <<source, since, answer>>

Init ==
  /\ source = [k \in Keys |-> 0]
  /\ since = [k \in Keys |-> [v \in Versions |-> 0]]
  /\ answer = source

Write ==
  /\ source' \in [Keys -> Versions]
  /\ \A k \in Keys : source'[k] \in {source[k], source[k] + 1}
  /\ UNCHANGED <<since, answer>>

Answer ==
  /\ answer' \in [Keys -> Versions]
  /\ \A k \in Keys : answer'[k] # answer[k] => since[k][answer'[k]] <= Bound
  /\ UNCHANGED <<source, since>>

(* Ages stop being counted just past the bound. *)
Elapse ==
  /\ since' = [k \in Keys |-> [v \in Versions |->
                IF v < source[k] /\ since[k][v] <= Bound THEN since[k][v] + 1
                ELSE since[k][v]]]
  /\ UNCHANGED <<source, answer>>

Next == Write \/ Answer \/ Elapse

Spec == Init /\ [][Next]_register
=============================================================================

------------------------ MODULE SubscriptionMachine ------------------------
(***************************************************************************)
(* What the subscription lifecycle promises: the ten states, the edges     *)
(* between them, and which of those edges money closes.  There are no      *)
(* dates, no rows read ahead of time and no jobs: only, for each           *)
(* subscription, its state and how many of its invoices are overdue.       *)
(***************************************************************************)
EXTENDS Naturals

CONSTANT Ids

VARIABLES
  state,   \* [Ids -> state], "absent" until created
  owed     \* [Ids -> Nat]: invoices overdue

machine == <<state, owed>>

Init ==
  /\ state = [i \in Ids |-> "absent"]
  /\ owed = [i \in Ids |-> 0]

(* Administrative edges. *)
Operator ==
  ({"pending", "trial"} \X {"active"})
  \cup ({"suspended", "expired", "cancelled"} \X {"active"})
  \cup ({"pending", "trial", "active", "expiring", "past_due", "grace_period",
         "paused"} \X {"suspended"})
  \cup ({"trial", "active", "expiring"} \X {"paused"})
  \cup ({"paused"} \X {"active", "trial"})
  \cup ({"pending", "trial", "active", "expiring", "past_due", "grace_period",
         "paused", "suspended"} \X {"cancelled"})

(* Edges the calendar opens. *)
Calendar ==
  {<<"trial", "past_due">>, <<"active", "past_due">>, <<"expiring", "past_due">>,
   <<"past_due", "grace_period">>, <<"past_due", "expired">>,
   <<"grace_period", "expired">>, <<"active", "expiring">>}

(* Edges a renewal or a settlement takes, when nothing is overdue ...      *)
Cleared == {"expiring", "past_due", "grace_period", "expired"} \X {"active"}

(* ... and the edge a renewal takes when something is.                     *)
InArrears == {"active", "expiring"} \X {"past_due", "grace_period"}

Create(i) ==
  /\ state[i] = "absent"
  /\ \E born \in {"trial", "pending"} : state' = [state EXCEPT ![i] = born]
  /\ UNCHANGED owed

Move(i) ==
  \E to \in {"active", "trial", "expiring", "past_due", "grace_period",
             "expired", "suspended", "paused", "cancelled"} :
    /\ \/ <<state[i], to>> \in Operator \cup Calendar
       \/ <<state[i], to>> \in Cleared /\ owed[i] = 0
       \/ <<state[i], to>> \in InArrears /\ owed[i] > 0
    /\ state' = [state EXCEPT ![i] = to]
    /\ UNCHANGED owed

(* Invoices fall due and are paid in their own time. *)
Bill(i) ==
  /\ state[i] # "absent"
  /\ owed' \in [Ids -> Nat]
  /\ \A j \in Ids \ {i} : owed'[j] = owed[j]
  /\ UNCHANGED state

Next == \E i \in Ids : Create(i) \/ Move(i) \/ Bill(i)

Spec == Init /\ [][Next]_machine
=============================================================================

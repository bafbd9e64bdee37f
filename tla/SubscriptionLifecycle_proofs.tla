--------------------- MODULE SubscriptionLifecycle_proofs ---------------------
(***************************************************************************)
(* Theorems about the subscription lifecycle, for every number of rows,    *)
(* requests, plans and every bound.  Whether or not operations and their   *)
(* transactions overlap: the type invariant, and the school's state agrees *)
(* with its governing row unless the last transaction to write it has      *)
(* missed one beside it.  One operation at a time: it agrees without       *)
(* exception, every grace period has a deadline, that deadline stands, the *)
(* jobs never revive a row, and the whole implements the documented state  *)
(* machine.  A settlement between the two writes of a lapse loses the      *)
(* deadline, and a job that saves a stale copy revives the row: that       *)
(* hypothesis cannot be dropped.                                           *)
(***************************************************************************)
EXTENDS SubscriptionLifecycle, FiniteSetTheorems, WellFoundedInduction, TLAPS

-----------------------------------------------------------------------------
(* What the rules return: a row of the right type, and one that has a      *)
(* grace deadline whenever it is in Grace.  A rule writes several columns; *)
(* FieldTypes says that writing one column keeps the type, and the lemma   *)
(* of a rule follows column by column.                                     *)

(* A row in Grace has a deadline. *)
Sound(r) == r.state = "grace_period" => r.grace_period_ends_at # NoDate

(* The columns of a row have the types Row gives them. *)
LEMMA Columns ==
  ASSUME NEW r \in Row
  PROVE  /\ r.state \in SubscriptionStates \cup {"absent"}
         /\ r.plan_id \in Plans \cup {NoPlan}
         /\ r.billing_cycle \in Cycles \cup {OneTime}
         /\ r.current_period_start \in Date
         /\ r.current_period_end \in Date
         /\ r.trial_starts_at \in Date
         /\ r.trial_ends_at \in Date
         /\ r.grace_period_days \in Nat
         /\ r.grace_period_ends_at \in Date
         /\ r.automatic \in BOOLEAN
         /\ r.paused_at \in Date
         /\ r.scheduled_plan_id \in Plans \cup {NoPlan}
         /\ r.scheduled_cycle \in Cycles \cup {OneTime}
         /\ r.scheduled_change_at \in Date
  BY DEF Row

(* Writing one column of a row with a value of its type gives a row. *)
LEMMA FieldTypes ==
  ASSUME NEW r \in Row
  PROVE  /\ \A v \in SubscriptionStates : [r EXCEPT !.state = v] \in Row
         /\ \A v \in Plans : [r EXCEPT !.plan_id = v] \in Row
         /\ \A v \in Cycles \cup {OneTime} : [r EXCEPT !.billing_cycle = v] \in Row
         /\ \A v \in Date : [r EXCEPT !.current_period_start = v] \in Row
         /\ \A v \in Date : [r EXCEPT !.current_period_end = v] \in Row
         /\ \A v \in Date : [r EXCEPT !.trial_starts_at = v] \in Row
         /\ \A v \in Date : [r EXCEPT !.trial_ends_at = v] \in Row
         /\ \A v \in Nat : [r EXCEPT !.grace_period_days = v] \in Row
         /\ \A v \in Date : [r EXCEPT !.grace_period_ends_at = v] \in Row
         /\ \A v \in BOOLEAN : [r EXCEPT !.automatic = v] \in Row
         /\ \A v \in Date : [r EXCEPT !.paused_at = v] \in Row
         /\ \A v \in Plans \cup {NoPlan} : [r EXCEPT !.scheduled_plan_id = v] \in Row
         /\ \A v \in Cycles \cup {OneTime} : [r EXCEPT !.scheduled_cycle = v] \in Row
         /\ \A v \in Date : [r EXCEPT !.scheduled_change_at = v] \in Row
<1>1. \A v \in SubscriptionStates : [r EXCEPT !.state = v] \in Row
  BY DEF Row
<1>2. \A v \in Plans : [r EXCEPT !.plan_id = v] \in Row
  BY DEF Row
<1>3. \A v \in Cycles \cup {OneTime} : [r EXCEPT !.billing_cycle = v] \in Row
  BY DEF Row
<1>4. \A v \in Date : [r EXCEPT !.current_period_start = v] \in Row
  BY DEF Row
<1>5. \A v \in Date : [r EXCEPT !.current_period_end = v] \in Row
  BY DEF Row
<1>6. \A v \in Date : [r EXCEPT !.trial_starts_at = v] \in Row
  BY DEF Row
<1>7. \A v \in Date : [r EXCEPT !.trial_ends_at = v] \in Row
  BY DEF Row
<1>8. \A v \in Nat : [r EXCEPT !.grace_period_days = v] \in Row
  BY DEF Row
<1>9. \A v \in Date : [r EXCEPT !.grace_period_ends_at = v] \in Row
  BY DEF Row
<1>10. \A v \in BOOLEAN : [r EXCEPT !.automatic = v] \in Row
  BY DEF Row
<1>11. \A v \in Date : [r EXCEPT !.paused_at = v] \in Row
  BY DEF Row
<1>12. \A v \in Plans \cup {NoPlan} : [r EXCEPT !.scheduled_plan_id = v] \in Row
  BY DEF Row
<1>13. \A v \in Cycles \cup {OneTime} : [r EXCEPT !.scheduled_cycle = v] \in Row
  BY DEF Row
<1>14. \A v \in Date : [r EXCEPT !.scheduled_change_at = v] \in Row
  BY DEF Row
<1> QED BY <1>1, <1>2, <1>3, <1>4, <1>5, <1>6, <1>7, <1>8, <1>9, <1>10, <1>11, <1>12, <1>13, <1>14

LEMMA Values ==
  /\ NoDate \in Date /\ \A at \in Int : at \in Date
  /\ OneTime \in Cycles \cup {OneTime} /\ NoPlan \in Plans \cup {NoPlan}
  /\ \A c \in Cycles : c \in Cycles \cup {OneTime}
  /\ \A p \in Plans : p \in Plans \cup {NoPlan}
  /\ {"pending", "trial", "active", "expiring", "past_due", "grace_period",
      "expired", "paused", "suspended", "cancelled"} = SubscriptionStates
  BY DEF Date, SubscriptionStates, OpenStates, UsableStates

LEMMA CycleDate ==
  ASSUME NEW from \in Int, NEW cycle \in Cycles \cup {OneTime}
  PROVE  AddBillingCycle(from, cycle) \in Date
  BY RulesAssumption DEF AddBillingCycle, Date, OneTime

LEMMA GraceEndDate ==
  ASSUME NEW days \in Nat, NEW at \in Int
  PROVE  /\ GraceEnd(days, at) \in Date
         /\ days > 0 => GraceEnd(days, at) # NoDate
  BY RulesAssumption DEF GraceEnd, Date

-----------------------------------------------------------------------------
LEMMA AbsentRowType == AbsentRow \in Row /\ Sound(AbsentRow)
  BY DEF AbsentRow, Row, Date, OneTime, Sound

(* create() inserts a typed row, in Trial or Pending. *)
LEMMA NewRowType ==
  ASSUME NEW plan \in Plans, NEW cycle \in Cycles, NEW at \in Int,
         NEW trial \in Nat, NEW grace \in Nat, NEW auto \in BOOLEAN
  PROVE  /\ NewRow(plan, cycle, at, trial, grace, auto) \in Row
         /\ NewRow(plan, cycle, at, trial, grace, auto).state \in {"trial", "pending"}
<1> DEFINE to == IF trial > 0 THEN "trial" ELSE "pending"
           trialStart == IF trial > 0 THEN at ELSE NoDate
           trialEnd == IF trial > 0 THEN at + trial ELSE NoDate
           periodEnd == AddBillingCycle(at, cycle)
<1>1. /\ AbsentRow \in Row
      /\ at \in Date /\ trialStart \in Date /\ trialEnd \in Date
      /\ periodEnd \in Date
      /\ cycle \in Cycles \cup {OneTime}
  BY AbsentRowType, CycleDate, Values
<1>2. to \in SubscriptionStates /\ to \in {"trial", "pending"}
  BY Values
<1> HIDE DEF to, trialStart, trialEnd, periodEnd
<1> DEFINE opened == [AbsentRow EXCEPT
                        !.state = to, !.plan_id = plan, !.billing_cycle = cycle,
                        !.current_period_start = at,
                        !.current_period_end = periodEnd]
           row == [opened EXCEPT
                        !.trial_starts_at = trialStart, !.trial_ends_at = trialEnd,
                        !.grace_period_days = grace, !.automatic = auto]
<1>3. opened \in Row
  BY <1>1, <1>2, FieldTypes
<1>4. row \in Row
  <2> HIDE DEF opened
  <2> QED BY <1>1, <1>3, FieldTypes
<1>5. row.state = to
  BY <1>1 DEF Row
<1>6. NewRow(plan, cycle, at, trial, grace, auto) = row
  BY DEF NewRow, to, trialStart, trialEnd, periodEnd
<1> QED BY <1>2, <1>4, <1>5, <1>6

(* update() keeps the type, the state and the grace deadline. *)
LEMMA WithTrialDaysType ==
  ASSUME NEW r \in Row, NEW days \in Nat
  PROVE  /\ WithTrialDays(r, days) \in Row
         /\ WithTrialDays(r, days).state = r.state
         /\ WithTrialDays(r, days).grace_period_ends_at = r.grace_period_ends_at
<1>1. r.trial_starts_at # NoDate => r.trial_starts_at + days \in Int
  BY Columns DEF Date
<1>2. WithTrialDays(r, days) \in Row
  BY <1>1, FieldTypes, Values DEF WithTrialDays
<1> QED BY <1>2 DEF WithTrialDays, Row

LEMMA UnscheduledType ==
  ASSUME NEW r \in Row
  PROVE  /\ Unscheduled(r) \in Row
         /\ Unscheduled(r).state = r.state
         /\ Unscheduled(r).grace_period_ends_at = r.grace_period_ends_at
<1>1. Unscheduled(r) \in Row
  BY FieldTypes, Values DEF Unscheduled
<1> QED BY <1>1 DEF Unscheduled, Row

LEMMA PlanChangedType ==
  ASSUME NEW r \in Row, NEW plan \in Plans, NEW cycle \in Cycles \cup {OneTime}
  PROVE  /\ PlanChanged(r, plan, cycle) \in Row
         /\ PlanChanged(r, plan, cycle).state = r.state
         /\ PlanChanged(r, plan, cycle).grace_period_ends_at = r.grace_period_ends_at
         /\ PlanChanged(r, plan, cycle).billing_cycle = cycle
<1>1. PlanChanged(r, plan, cycle) \in Row
  BY FieldTypes, Values, UnscheduledType DEF PlanChanged
<1> QED BY <1>1, UnscheduledType DEF PlanChanged, Row

LEMMA DowngradeScheduledType ==
  ASSUME NEW r \in Row, NEW plan \in Plans, NEW cycle \in Cycles
  PROVE  /\ DowngradeScheduled(r, plan, cycle) \in Row
         /\ DowngradeScheduled(r, plan, cycle).state = r.state
         /\ DowngradeScheduled(r, plan, cycle).grace_period_ends_at = r.grace_period_ends_at
<1>1. DowngradeScheduled(r, plan, cycle) \in Row
  BY FieldTypes, Values, Columns DEF DowngradeScheduled
<1> QED BY <1>1 DEF DowngradeScheduled, Row

(* A pause is resumed into the trial that still runs, or into Active.      *)
LEMMA ResumedType ==
  ASSUME NEW r \in Row, NEW at \in Int
  PROVE  Resumed(r, at) \in Row /\ Resumed(r, at).state \in {"trial", "active"}
<1> DEFINE pausedAt == IF r.paused_at = NoDate THEN at ELSE r.paused_at
           shift == IF at > pausedAt THEN at - pausedAt ELSE 0
           Shifted(date) == IF date = NoDate THEN NoDate ELSE date + shift
           trialEnd == Shifted(r.trial_ends_at)
           to == IF trialEnd # NoDate /\ trialEnd > at THEN "trial" ELSE "active"
<1>1. pausedAt \in Int
  BY Columns DEF Date
<1>2. shift \in Int
  BY <1>1
<1>3. \A date \in Date : Shifted(date) \in Date
  BY <1>2 DEF Date
<1>4. trialEnd \in Date /\ Shifted(r.current_period_end) \in Date
  BY <1>3, Columns
<1>5. to \in SubscriptionStates
  BY Values
<1> HIDE DEF pausedAt, shift, Shifted, trialEnd, to
<1> DEFINE new == [r EXCEPT !.state = to, !.paused_at = NoDate,
                            !.current_period_end = Shifted(r.current_period_end),
                            !.trial_ends_at = trialEnd]
<1>6. new \in Row
  BY <1>4, <1>5, FieldTypes, Values
<1>7. new.state = to
  BY DEF Row
<1>8. Resumed(r, at) = new
  BY DEF Resumed, pausedAt, shift, Shifted, trialEnd, to
<1>9. to \in {"trial", "active"}
  BY DEF to
<1> QED BY <1>6, <1>7, <1>8, <1>9

(* No operator transition enters Grace. *)
LEMMA TransitionedType ==
  ASSUME NEW r \in Row, NEW action \in Actions, NEW at \in Int
  PROVE  /\ Transitioned(r, action, at) \in Row
         /\ Transitioned(r, action, at).state
              \in {"active", "trial", "suspended", "paused", "cancelled"}
<1>1. AddBillingCycle(at, r.billing_cycle) \in Date
  BY CycleDate, Columns
<1>2. CASE action = "activate"
  <2>1. Activated(r, at) \in Row
    BY <1>1, FieldTypes, Values, Columns DEF Activated
  <2>2. Activated(r, at).state = "active"
    BY DEF Activated, Row
  <2> QED BY <1>2, <2>1, <2>2 DEF Transitioned
<1>3. CASE action = "reactivate"
  <2>1. Reactivated(r, at) \in Row
    BY <1>1, FieldTypes, Values DEF Reactivated
  <2>2. Reactivated(r, at).state = "active"
    BY DEF Reactivated, Row
  <2> QED BY <1>3, <2>1, <2>2 DEF Transitioned
<1>4. CASE action = "suspend"
  <2>1. [r EXCEPT !.state = "suspended"] \in Row
    BY FieldTypes, Values
  <2>2. [r EXCEPT !.state = "suspended"].state = "suspended"
    BY DEF Row
  <2> QED BY <1>4, <2>1, <2>2 DEF Transitioned
<1>5. CASE action = "pause"
  <2>1. Paused(r, at) \in Row
    BY FieldTypes, Values DEF Paused
  <2>2. Paused(r, at).state = "paused"
    BY DEF Paused, Row
  <2> QED BY <1>5, <2>1, <2>2 DEF Transitioned
<1>6. CASE action = "resume"
  BY <1>6, ResumedType DEF Transitioned
<1>7. CASE action = "cancel"
  <2>1. Cancelled(r) \in Row
    BY UnscheduledType, FieldTypes, Values DEF Cancelled
  <2>2. Cancelled(r).state = "cancelled"
    BY UnscheduledType DEF Cancelled, Row
  <2> QED BY <1>7, <2>1, <2>2 DEF Transitioned
<1> QED BY <1>2, <1>3, <1>4, <1>5, <1>6, <1>7 DEF Actions

(* A renewal keeps the type, and a Grace it leaves the row in - kept or    *)
(* entered - has a deadline.                                               *)
LEMMA RenewedType ==
  ASSUME NEW r \in Row, NEW at \in Int, NEW overdue \in Nat, r.state \in RenewableStates
  PROVE  /\ Renewed(r, at, overdue) \in Row
         /\ Sound(r) => Sound(Renewed(r, at, overdue))
         /\ Renewed(r, at, overdue).state = RenewedState(r, overdue)
         /\ Renewed(r, at, overdue).grace_period_ends_at = RenewedGraceEnd(r, at, overdue)
<1> DEFINE base == IF ScheduledDue(r, at)
                   THEN PlanChanged(r, r.scheduled_plan_id, r.scheduled_cycle)
                   ELSE r
           start == IF r.current_period_end = NoDate THEN at ELSE r.current_period_end
           new == [base EXCEPT
                     !.state = RenewedState(r, overdue),
                     !.current_period_start = start,
                     !.current_period_end = AddBillingCycle(start, base.billing_cycle),
                     !.grace_period_ends_at = RenewedGraceEnd(r, at, overdue)]
<1>1. base \in Row
  <2>1. CASE ScheduledDue(r, at)
    BY <2>1, PlanChangedType, Columns DEF ScheduledDue
  <2>2. CASE ~ScheduledDue(r, at)
    BY <2>2
  <2> QED BY <2>1, <2>2
<1>2. start \in Int
  BY Columns DEF Date
<1> HIDE DEF base, start
<1>3. AddBillingCycle(start, base.billing_cycle) \in Date
  BY <1>1, <1>2, CycleDate, Columns
<1>4. RenewedState(r, overdue) \in SubscriptionStates
  BY Values DEF RenewedState
<1>5. RenewedGraceEnd(r, at, overdue) \in Date
  BY Values, Columns, GraceEndDate DEF RenewedGraceEnd
<1>6. start \in Date
  BY <1>2, Values
<1>7. new \in Row
  BY <1>1, <1>3, <1>4, <1>5, <1>6, FieldTypes
<1>8. /\ new.state = RenewedState(r, overdue)
      /\ new.grace_period_ends_at = RenewedGraceEnd(r, at, overdue)
  BY <1>1 DEF Row
<1>9. Sound(r) /\ RenewedState(r, overdue) = "grace_period"
        => RenewedGraceEnd(r, at, overdue) # NoDate
  BY Columns, GraceEndDate DEF Sound, RenewedState, RenewedGraceEnd
<1>10. Renewed(r, at, overdue) = new
  BY DEF Renewed, base, start
<1> QED BY <1>7, <1>8, <1>9, <1>10 DEF Sound

LEMMA SettledType ==
  ASSUME NEW r \in Row
  PROVE  Settled(r) \in Row /\ Settled(r).state = "active"
<1>1. Settled(r) \in Row
  BY FieldTypes, Values DEF Settled
<1> QED BY <1>1 DEF Settled, Row

(* The first write of a lapse leaves a Past Due row whose deadline is set  *)
(* when a grace period is configured.                                      *)
LEMMA PastDueType ==
  ASSUME NEW r \in Row, NEW at \in Int
  PROVE  /\ PastDue(r, at) \in Row
         /\ PastDue(r, at).state = "past_due"
         /\ r.grace_period_days > 0 => PastDue(r, at).grace_period_ends_at # NoDate
         /\ PastDue(r, at).trial_ends_at = r.trial_ends_at
<1>1. GraceEnd(r.grace_period_days, at) \in Date
  BY GraceEndDate, Columns
<1>2. PastDue(r, at) \in Row
  BY <1>1, FieldTypes, Values DEF PastDue
<1>3. /\ PastDue(r, at).state = "past_due"
      /\ PastDue(r, at).grace_period_ends_at = GraceEnd(r.grace_period_days, at)
      /\ PastDue(r, at).trial_ends_at = r.trial_ends_at
  BY DEF PastDue, Row
<1> QED BY <1>2, <1>3, GraceEndDate, Columns

LEMMA TrialEndedType ==
  ASSUME NEW r \in Row, NEW at \in Int, r.trial_ends_at # NoDate
  PROVE  /\ TrialEnded(r, at) \in Row
         /\ TrialEnded(r, at).state = "past_due"
         /\ r.grace_period_days > 0 => TrialEnded(r, at).grace_period_ends_at # NoDate
         /\ TrialEnded(r, at).trial_ends_at = r.trial_ends_at
<1>1. /\ r.trial_ends_at \in Int
      /\ AddBillingCycle(r.trial_ends_at, r.billing_cycle) \in Date
  BY CycleDate, Columns DEF Date
<1>2. TrialEnded(r, at) \in Row
  BY <1>1, FieldTypes, Values, PastDueType DEF TrialEnded
<1>3. /\ TrialEnded(r, at).state = PastDue(r, at).state
      /\ TrialEnded(r, at).grace_period_ends_at = PastDue(r, at).grace_period_ends_at
      /\ TrialEnded(r, at).trial_ends_at = PastDue(r, at).trial_ends_at
  BY PastDueType DEF TrialEnded, Row
<1> QED BY <1>2, <1>3, PastDueType

LEMMA MarkedType ==
  ASSUME NEW r \in Row, NEW to \in SubscriptionStates
  PROVE  /\ [r EXCEPT !.state = to] \in Row
         /\ [r EXCEPT !.state = to].state = to
         /\ [r EXCEPT !.state = to].grace_period_ends_at = r.grace_period_ends_at
         /\ [r EXCEPT !.state = to].trial_ends_at = r.trial_ends_at
  BY FieldTypes DEF Row

-----------------------------------------------------------------------------

USE LifecycleAssumption, ActorsAssumption DEF Subs, Actors

(* The newest of some rows is one of them: among the initial segments of   *)
(* Subs that contain S there is a least one, and its last element is in S. *)
LEMMA NewestIsHeld ==
  ASSUME NEW S \in SUBSET Subs, S # {}
  PROVE  NewestOf(S) \in S
<1> DEFINE Covers == {k \in Subs : S \subseteq 1 .. k}
           Segments == {1 .. k : k \in Covers}
<1>1. IsWellFoundedOn(StrictSubsetOrdering(Subs), SUBSET Subs)
  <2>1. IsFiniteSet(Subs)
    BY FS_Interval
  <2> HIDE DEF Subs
  <2>2. FiniteSubsetsOf(Subs) = SUBSET Subs
    BY <2>1, FS_FiniteSubsetsOfFinite
  <2> QED BY <2>2, FS_StrictSubsetOrderingWellFounded
<1>2. MaxSubs \in Covers
  OBVIOUS
<1>3. Segments \subseteq SUBSET Subs
  OBVIOUS
<1>4. PICK segment \in Segments :
        \A other \in Segments : <<other, segment>> \notin StrictSubsetOrdering(Subs)
  <2>1. Segments # {}
    BY <1>2
  <2> HIDE DEF Segments
  <2> QED BY <1>1, <1>3, <2>1, WFMin
<1>5. PICK k \in Covers : segment = 1 .. k
  OBVIOUS
<1>6. k \in S
  <2> SUFFICES ASSUME k \notin S PROVE FALSE
    OBVIOUS
  <2>1. \A s \in S : s \in 1 .. (k - 1)
    BY <1>5
  <2>2. k - 1 \in Covers
    <3>1. PICK s \in S : TRUE
      OBVIOUS
    <3>2. 1 <= k - 1 /\ k - 1 \in Subs
      BY <2>1, <3>1
    <3> QED BY <2>1, <3>2
  <2>3. 1 .. (k - 1) \in Segments
    BY <2>2
  <2>4. <<1 .. (k - 1), 1 .. k>> \in StrictSubsetOrdering(Subs)
    <3>1. /\ 1 .. (k - 1) \in SUBSET Subs /\ 1 .. k \in SUBSET Subs
          /\ 1 .. (k - 1) \subseteq 1 .. k
      BY <1>5
    <3>2. k \in 1 .. k /\ k \notin 1 .. (k - 1)
      BY <1>5
    <3> QED BY <3>1, <3>2 DEF StrictSubsetOrdering
  <2> QED BY <1>4, <1>5, <2>3, <2>4
<1>7. \A t \in S : t <= k
  BY <1>5
<1>8. \E s \in S : \A t \in S : t <= s
  BY <1>6, <1>7
<1> QED BY <1>8 DEF NewestOf

LEMMA GoverningType ==
  ASSUME NEW table \in [Subs -> Row]
  PROVE  Governing(table) \in SubscriptionStates \cup {"absent"}
<1> DEFINE usable == {s \in Subs : table[s].state \in UsableStates}
           held == {s \in Subs : table[s].state # "absent"}
<1>1. usable # {} => NewestOf(usable) \in Subs
  BY NewestIsHeld
<1>2. held # {} => NewestOf(held) \in Subs
  BY NewestIsHeld
<1>3. \A s \in Subs : table[s].state \in SubscriptionStates \cup {"absent"}
  BY Columns
<1> QED BY <1>1, <1>2, <1>3 DEF Governing

(* Saving a row gives a row; saving it from a copy that is still what the  *)
(* table holds gives exactly the row that was computed.                    *)
LEMMA SavedType ==
  ASSUME NEW row \in Row, NEW read \in Row, NEW new \in Row
  PROVE  Saved(row, read, new) \in Row
  BY Columns DEF Saved, Row

LEMMA SavedFresh ==
  ASSUME NEW row \in Row, NEW new \in Row
  PROVE  Saved(row, row, new) = new
  BY DEF Saved, Row

-----------------------------------------------------------------------------
(* The type invariant.  Two facts have to be carried along with it: the    *)
(* rows of pass 1 have the trial end their first period will start at, and *)
(* a request that has a row in hand knows which.                           *)

TrialRows ==
  sweep.pass = 1 => \A s \in sweep.todo : sweep.rows[s].trial_ends_at # NoDate

SettleIds == \A q \in Requests : request[q].stage = "settle" => request[q].id # 0

Typed == TypeOK /\ TrialRows /\ SettleIds

LEMMA RequestFields ==
  ASSUME NEW r \in Request
  PROVE  /\ r.stage \in {"idle", "write", "settle"}
         /\ r.id \in 0 .. MaxSubs
         /\ r.read \in Row /\ r.new \in Row /\ r.sync \in BOOLEAN
  BY DEF Request

LEMMA JobFields ==
  ASSUME NEW j \in Job
  PROVE  /\ j.pass \in 0 .. 5 /\ j.at \in Nat /\ j.todo \in SUBSET Subs
         /\ j.rows \in [Subs -> Row] /\ j.grace \in 0 .. MaxSubs /\ j.renewal \in Row
  BY DEF Job

LEMMA TransactionFields ==
  ASSUME NEW t \in Transaction
  PROVE  /\ t.row \in 0 .. MaxSubs /\ t.write \in Row /\ t.missed \in BOOLEAN
         /\ t.to \in SubscriptionStates \cup {"absent"}
  BY DEF Transaction

LEMMA ColumnTypes ==
  ASSUME TypeOK
  PROVE  /\ now \in Int /\ sub \in [Subs -> Row] /\ sweep \in Job /\ dunning \in Job
         /\ \A s \in Subs : sub[s] \in Row /\ Overdue(s) \in Nat
         /\ \A q \in Requests : request[q] \in Request
<1>1. /\ now \in Int /\ sub \in [Subs -> Row] /\ sweep \in Job /\ dunning \in Job
      /\ unflagged \in [Subs -> Nat] /\ flagged \in [Subs -> Nat]
      /\ request \in [Requests -> Request]
  BY DEF TypeOK
<1>2. \A s \in Subs : unflagged[s] \in Nat /\ flagged[s] \in Nat
  BY <1>1
<1>3. \A s \in Subs : Overdue(s) \in Nat
  BY <1>2 DEF Overdue
<1> QED BY <1>1, <1>3

LEMMA IdleTypes ==
  IdleRequest \in Request /\ IdleJob \in Job /\ NoTransaction \in Transaction
<1>1. IdleRequest \in Request
  BY AbsentRowType DEF IdleRequest, Request
<1>2. IdleJob \in Job
  BY AbsentRowType DEF IdleJob, Job
<1>3. NoTransaction \in Transaction
  BY AbsentRowType DEF NoTransaction, Transaction
<1> QED BY <1>1, <1>2, <1>3

LEMMA ReadPassType ==
  ASSUME TypeOK, NEW job, NEW pass \in 0 .. 5, NEW at \in Nat, NEW selected \in SUBSET Subs
  PROVE  ReadPass(job, pass, at, selected) \in Job
  BY AbsentRowType DEF TypeOK, ReadPass, Job

LEMMA GraceIds ==
  ASSUME NEW j \in Job, NEW g \in 0 .. MaxSubs
  PROVE  [j EXCEPT !.grace = g] \in Job
<1> DEFINE ids == 0 .. MaxSubs
<1> HIDE DEF ids
<1>1. g \in ids /\ Job = [pass: 0 .. 5, at: Nat, todo: SUBSET Subs,
                          rows: [Subs -> Row], grace: ids, renewal: Row]
  BY DEF Job, ids
<1> QED BY <1>1

LEMMA HandledType ==
  ASSUME NEW job \in Job, NEW s \in Subs
  PROVE  /\ Handled(job, s) \in Job
         /\ Handled(job, s).pass = job.pass
         /\ Handled(job, s).todo = job.todo \ {s}
         /\ \A t \in Subs \ {s} : Handled(job, s).rows[t] = job.rows[t]
         /\ Handled(job, s).grace = 0 /\ Handled(job, s).renewal = AbsentRow
<1>1. \A t \in SUBSET Subs : [job EXCEPT !.todo = t] \in Job
  BY DEF Job
<1>2. \A j \in Job : [j EXCEPT !.rows[s] = AbsentRow] \in Job
  BY AbsentRowType DEF Job
<1>3. \A j \in Job : [j EXCEPT !.grace = 0] \in Job
  BY GraceIds
<1>4. \A j \in Job : [j EXCEPT !.renewal = AbsentRow] \in Job
  BY AbsentRowType DEF Job
<1>5. job.todo \ {s} \in SUBSET Subs
  BY DEF Job
<1>6. Handled(job, s) \in Job
  BY <1>1, <1>2, <1>3, <1>4, <1>5 DEF Handled
<1> QED BY <1>6 DEF Handled, Job

LEMMA EnteringGraceType ==
  ASSUME NEW job \in Job, NEW s \in Subs, NEW new \in Row
  PROVE  /\ EnteringGrace(job, s, new) \in Job
         /\ EnteringGrace(job, s, new).pass = job.pass
         /\ EnteringGrace(job, s, new).todo = job.todo
         /\ EnteringGrace(job, s, new).rows = [job.rows EXCEPT ![s] = new]
         /\ EnteringGrace(job, s, new).grace = s
         /\ EnteringGrace(job, s, new).renewal = job.renewal
<1>1. [job EXCEPT !.rows[s] = new] \in Job
  BY DEF Job
<1>2. \A j \in Job : [j EXCEPT !.grace = s] \in Job
  BY GraceIds
<1>3. EnteringGrace(job, s, new) \in Job
  BY <1>1, <1>2 DEF EnteringGrace
<1> QED BY <1>3 DEF EnteringGrace, Job

LEMMA HoldType ==
  ASSUME Typed, NEW q \in Requests, NEW s \in Subs, NEW new \in Row,
         NEW sync \in BOOLEAN, Hold(q, s, new, sync), ReadOnly
  PROVE  Typed'
<1>1. [stage |-> "write", id |-> s, read |-> sub[s], new |-> new, sync |-> sync]
        \in Request
  BY DEF Typed, TypeOK, Request
<1>2. request' \in [Requests -> Request]
  BY <1>1 DEF Typed, TypeOK, Hold
<1>3. SettleIds'
  BY <1>2 DEF Typed, TypeOK, SettleIds, Hold
<1> QED BY <1>2, <1>3 DEF Typed, TypeOK, TrialRows, ReadOnly, tables, invoices

(* The tables, and the transactions on them, through a transaction that    *)
(* begins, one that commits and one that is rolled back.                   *)
TablesTyped ==
  /\ sub \in [Subs -> Row]
  /\ schoolState \in SubscriptionStates \cup {"absent"}
  /\ open \in [Actors -> Transaction]
  /\ skewed \in BOOLEAN

LEMMA BegunType ==
  ASSUME TypeOK, NEW s \in Subs, NEW row \in Row
  PROVE  Begun(s, row) \in Transaction /\ Begun(s, row).row = s
<1>1. [sub EXCEPT ![s] = row] \in [Subs -> Row]
  BY DEF TypeOK
<1>2. Governing([sub EXCEPT ![s] = row]) \in SubscriptionStates \cup {"absent"}
  BY <1>1, GoverningType
<1> QED BY <1>2 DEF Begun, Transaction

LEMMA BeginType ==
  ASSUME TypeOK, NEW a \in Actors, NEW s \in Subs, NEW row \in Row, Begin(a, s, row)
  PROVE  TablesTyped'
BY BegunType DEF TypeOK, TablesTyped, Begin

LEMMA RolledBackType ==
  ASSUME TypeOK, NEW a \in Actors, RolledBack(a)
  PROVE  TablesTyped'
BY IdleTypes DEF TypeOK, TablesTyped, RolledBack

LEMMA StoreType ==
  ASSUME TypeOK, NEW a \in Actors, NEW s \in Subs, NEW row \in Row, Store(a, s, row)
  PROVE  TablesTyped'
<1> DEFINE txn == IF open[a].row = 0 THEN Begun(s, row) ELSE open[a]
<1>1. txn \in Transaction /\ txn.row \in Subs
  <2>1. open[a] \in Transaction
    BY DEF TypeOK
  <2>2. open[a].row = 0 => Begun(s, row) \in Transaction /\ Begun(s, row).row = s
    BY BegunType
  <2>3. open[a].row # 0 => open[a].row \in Subs
    BY <2>1, TransactionFields
  <2> QED BY <2>1, <2>2, <2>3
<1>2. FinishTransaction(a, txn)
  BY DEF Store
<1> HIDE DEF txn
<1>3. txn.write \in Row /\ txn.to \in SubscriptionStates \cup {"absent"} /\ txn.missed \in BOOLEAN
  BY <1>1, TransactionFields
<1>4. sub' \in [Subs -> Row] /\ schoolState' \in SubscriptionStates \cup {"absent"}
      /\ skewed' \in BOOLEAN
  BY <1>1, <1>2, <1>3 DEF FinishTransaction, TypeOK
<1>5. \A t \in Transaction, m \in BOOLEAN : [t EXCEPT !.missed = m] \in Transaction
  BY DEF Transaction
<1>6. \A b \in Actors :
        [open[b] EXCEPT !.missed = @ \/ txn.write.state # sub[txn.row].state] \in Transaction
  <2> TAKE b \in Actors
  <2>1. open[b] \in Transaction
    BY DEF TypeOK
  <2>2. (open[b].missed \/ txn.write.state # sub[txn.row].state) \in BOOLEAN
    BY <2>1, TransactionFields
  <2>3. [open[b] EXCEPT !.missed = (open[b].missed \/ txn.write.state # sub[txn.row].state)]
          \in Transaction
    BY <1>5, <2>1, <2>2
  <2> QED BY <2>3
<1>7. open' \in [Actors -> Transaction]
  BY <1>2, <1>6, IdleTypes DEF FinishTransaction
<1> QED BY <1>4, <1>7 DEF TablesTyped

LEMMA TypedInit == Init => Typed
<1> SUFFICES ASSUME Init PROVE Typed
  OBVIOUS
<1>1. sub \in [Subs -> Row]
  BY AbsentRowType DEF Init
<1>2. request \in [Requests -> Request] /\ sweep \in Job /\ dunning \in Job
  BY IdleTypes DEF Init
<1>3. TypeOK
  <2>1. open \in [Actors -> Transaction]
    BY IdleTypes DEF Init
  <2>2. unflagged \in [Subs -> Nat] /\ flagged \in [Subs -> Nat]
    BY DEF Init
  <2>3. skewed \in BOOLEAN
    BY DEF Init
  <2>4. /\ now \in Nat /\ crashes \in 0 .. MaxCrashes
        /\ schoolState \in SubscriptionStates \cup {"absent"}
    BY DEF Init
  <2> QED BY <1>1, <1>2, <2>1, <2>2, <2>3, <2>4 DEF TypeOK
<1>4. TrialRows /\ SettleIds
  BY DEF Init, TrialRows, SettleIds, IdleJob, IdleRequest
<1> QED BY <1>3, <1>4 DEF Typed

(* A request that ends, or is lost, leaves its handler idle. *)
LEMMA ReleaseType ==
  ASSUME Typed, NEW q \in Requests, request' = [request EXCEPT ![q] = IdleRequest]
  PROVE  request' \in [Requests -> Request] /\ SettleIds'
<1>1. request' \in [Requests -> Request]
  BY IdleTypes DEF Typed, TypeOK
<1>2. SettleIds'
  BY <1>1 DEF Typed, TypeOK, SettleIds, IdleRequest
<1> QED BY <1>1, <1>2

LEMMA ServeTyped ==
  ASSUME Typed, NEW q \in Requests, Serve(q)
  PROVE  Typed'
<1> USE DEF Typed
<1>0. /\ now \in Int /\ \A s \in Subs : sub[s] \in Row /\ Overdue(s) \in Nat
      /\ request[q] \in Request
  BY DEF TypeOK, Overdue
<1>1. CASE ReadCreate(q)
  <2>1. PICK plan \in Plans, cycle \in Cycles, start \in StartOffsets,
             trial \in TrialDays, grace \in GraceDays, auto \in RenewalModes :
          request' = [request EXCEPT ![q] =
            [stage |-> "write", id |-> 0, read |-> AbsentRow, sync |-> TRUE,
             new |-> NewRow(plan, cycle, now + start, trial, grace, auto)]]
    BY <1>1 DEF ReadCreate
  <2> DEFINE new == NewRow(plan, cycle, now + start, trial, grace, auto)
  <2>2. now + start \in Int /\ trial \in Nat /\ grace \in Nat /\ auto \in BOOLEAN
    BY <1>0
  <2>3. new \in Row
    BY <2>2, NewRowType
  <2> HIDE DEF new
  <2>4. [stage |-> "write", id |-> 0, read |-> AbsentRow, new |-> new, sync |-> TRUE]
          \in Request
    BY <2>3, AbsentRowType DEF Request
  <2>5. request' \in [Requests -> Request]
    BY <2>1, <2>4 DEF TypeOK, new
  <2>6. SettleIds'
    BY <2>1, <2>5 DEF TypeOK, SettleIds
  <2> QED BY <1>1, <2>5, <2>6 DEF ReadCreate, ReadOnly, tables, invoices, TypeOK, TrialRows
<1>2. CASE Insert(q)
  <2>1. q \in Actors /\ request[q].new \in Row
    BY <1>0, RequestFields
  <2>2. TablesTyped'
    BY <1>2, <2>1, StoreType DEF Insert
  <2>3. request' \in [Requests -> Request] /\ SettleIds'
    BY <1>2, ReleaseType DEF Insert
  <2> QED BY <1>2, <2>2, <2>3 DEF Insert, invoices, TablesTyped, TypeOK, TrialRows
<1>3. CASE Write(q)
  <2>1. request[q].new \in Row /\ request[q].read \in Row /\ request[q].id \in Subs
    BY <1>0, <1>3, RequestFields DEF Write
  <2>2. TablesTyped'
    <3>0. Saved(sub[request[q].id], request[q].read, request[q].new) \in Row
      BY <1>0, <2>1, SavedType
    <3>1. CASE request[q].sync
      BY <1>3, <2>1, <3>0, <3>1, StoreType DEF Write
    <3>2. CASE ~request[q].sync
      <4>1. sub' \in [Subs -> Row]
        BY <1>3, <3>0, <3>2 DEF Write, TypeOK
      <4> QED BY <1>3, <3>2, <4>1 DEF Write, TypeOK, TablesTyped
    <3> QED BY <3>1, <3>2
  <2>3. request' \in [Requests -> Request] /\ SettleIds'
    BY <1>3, ReleaseType DEF Write
  <2> QED BY <1>3, <2>2, <2>3 DEF Write, invoices, TablesTyped, TypeOK, TrialRows
<1>4. CASE FollowSettlement(q)
  <2> DEFINE s == request[q].id
             action == IF sub[s].state \in {"pending", "trial"}
                       THEN "activate" ELSE "reactivate"
  <2>1. s \in Subs
    BY <1>0, <1>4, RequestFields DEF FollowSettlement, SettleIds
  <2>2. action \in Actions
    BY DEF Actions
  <2>3. ReadOnly
    BY <1>4 DEF FollowSettlement
  <2>4. CASE Hold(q, s, Settled(sub[s]), TRUE)
    BY <1>0, <2>1, <2>3, <2>4, SettledType, HoldType
  <2>5. CASE Hold(q, s, Transitioned(sub[s], action, now), TRUE)
    <3>1. Transitioned(sub[s], action, now) \in Row
      <4> HIDE DEF s, action
      <4> QED BY <1>0, <2>1, <2>2, TransitionedType
    <3> QED BY <1>0, <2>1, <2>3, <2>5, <3>1, HoldType
  <2>6. CASE request' = [request EXCEPT ![q] = IdleRequest]
    BY <2>3, <2>6, ReleaseType DEF ReadOnly, tables, invoices, TypeOK, TrialRows
  <2> QED BY <1>4, <2>4, <2>5, <2>6 DEF FollowSettlement
<1>5. ASSUME NEW s \in Subs, ReadUpdate(q, s) PROVE Typed'
  <2>1. ReadOnly
    BY <1>5 DEF ReadUpdate
  <2>2. CASE \E days \in TrialDays : Hold(q, s, WithTrialDays(sub[s], days), FALSE)
    BY <1>0, <2>1, <2>2, WithTrialDaysType, HoldType
  <2>3. CASE \E days \in GraceDays :
               Hold(q, s, [sub[s] EXCEPT !.grace_period_days = days], FALSE)
    BY <1>0, <2>1, <2>3, FieldTypes, HoldType
  <2>4. CASE \E auto \in RenewalModes :
               Hold(q, s, [sub[s] EXCEPT !.automatic = auto], FALSE)
    BY <1>0, <2>1, <2>4, FieldTypes, HoldType
  <2> QED BY <1>5, <2>2, <2>3, <2>4 DEF ReadUpdate
<1>6. ASSUME NEW s \in Subs, ReadRenew(q, s) PROVE Typed'
  <2>1. sub[s].state \in RenewableStates
    BY <1>6 DEF ReadRenew, CanRenew
  <2>2. Renewed(sub[s], now, Overdue(s)) \in Row
    BY <1>0, <2>1, RenewedType
  <2> QED BY <1>6, <2>2, HoldType DEF ReadRenew
<1>7. ASSUME NEW s \in Subs, Pay(q, s) PROVE Typed'
  <2>1. [IdleRequest EXCEPT !.stage = "settle", !.id = s] \in Request
    <3>1. \A r \in Request : [r EXCEPT !.stage = "settle"] \in Request
      BY DEF Request
    <3>2. \A r \in Request : [r EXCEPT !.id = s] \in Request
      BY DEF Request
    <3> QED BY <3>1, <3>2, IdleTypes
  <2>2. request' \in [Requests -> Request]
    BY <1>7, <2>1 DEF Pay, TypeOK
  <2>3. SettleIds'
    BY <1>7, <2>2 DEF Pay, TypeOK, SettleIds, IdleRequest
  <2>4. unflagged' \in [Subs -> Nat] /\ flagged' \in [Subs -> Nat]
    <3>1. \A f \in [Subs -> Nat] : f[s] > 0 => [f EXCEPT ![s] = @ - 1] \in [Subs -> Nat]
      OBVIOUS
    <3> QED BY <1>7, <3>1 DEF Pay, TypeOK, invoices
  <2> QED BY <1>7, <2>2, <2>3, <2>4 DEF Pay, tables, TypeOK, TrialRows
<1>8. ASSUME NEW s \in Subs, NEW action \in Actions, ReadTransition(q, s, action)
      PROVE  Typed'
  BY <1>0, <1>8, TransitionedType, HoldType DEF ReadTransition
<1>9. ASSUME NEW s \in Subs, NEW plan \in Plans, NEW cycle \in Cycles,
             ReadChangePlan(q, s, plan, cycle)
      PROVE  Typed'
  <2>1. PlanChanged(sub[s], plan, cycle) \in Row
    BY <1>0, PlanChangedType
  <2>2. DowngradeScheduled(sub[s], plan, cycle) \in Row
    BY <1>0, DowngradeScheduledType
  <2> QED BY <1>9, <2>1, <2>2, HoldType DEF ReadChangePlan
<1>10. CASE WriteBegins(q)
  <2>0. PICK s \in Subs :
          \E row : /\ Begin(q, s, row)
                   /\ \/ row = request[q].new
                      \/ row = Saved(sub[s], request[q].read, request[q].new)
    BY <1>10 DEF WriteBegins
  <2>1. PICK row : /\ Begin(q, s, row)
                   /\ \/ row = request[q].new
                      \/ row = Saved(sub[s], request[q].read, request[q].new)
    BY <2>0
  <2>2. row \in Row
    BY <1>0, <2>1, RequestFields, SavedType
  <2>3. TablesTyped'
    BY <2>1, <2>2, BeginType
  <2> QED BY <1>10, <2>3 DEF WriteBegins, invoices, TablesTyped, TypeOK, TrialRows, SettleIds
<1>11. CASE RequestRolledBack(q)
  <2>1. TablesTyped' /\ request' \in [Requests -> Request] /\ SettleIds'
    BY <1>11, RolledBackType, ReleaseType DEF RequestRolledBack
  <2> QED BY <1>11, <2>1 DEF RequestRolledBack, invoices, TablesTyped, TypeOK, TrialRows
<1> QED BY <1>1, <1>2, <1>3, <1>4, <1>5, <1>6, <1>7, <1>8, <1>9, <1>10, <1>11 DEF Serve

(* What the sweep writes next to the row it is at.                         *)
LEMMA SweepRowCases ==
  ASSUME NEW s \in Subs
  PROVE  /\ sweep.grace = s => SweepRow(s) = GraceStarted(sweep.rows[s])
         /\ sweep.grace # s =>
              /\ sweep.pass = 1 => SweepRow(s) = TrialEnded(sweep.rows[s], sweep.at)
              /\ sweep.pass = 2 => SweepRow(s) = sweep.renewal
              /\ sweep.pass = 3 => SweepRow(s) = PastDue(sweep.rows[s], sweep.at)
              /\ sweep.pass = 4 => SweepRow(s) = Expired(sweep.rows[s])
              /\ sweep.pass \notin 1 .. 4
                   => SweepRow(s) = [sweep.rows[s] EXCEPT !.state = "expiring"]
  BY DEF SweepRow

LEMMA SweepRowType ==
  ASSUME Typed, NEW s \in Subs, s \in sweep.todo \/ sweep.grace = s
  PROVE  /\ SweepRow(s) \in Row
         /\ sweep.pass = 1 /\ sweep.grace # s => SweepRow(s).trial_ends_at # NoDate
<1> DEFINE r == sweep.rows[s]
<1>1. r \in Row /\ sweep.at \in Int /\ sweep.renewal \in Row /\ sweep.pass \in 0 .. 5
  BY JobFields DEF Typed, TypeOK
<1>2. sweep.pass = 1 /\ sweep.grace # s => r.trial_ends_at # NoDate
  BY DEF Typed, TrialRows
<1> HIDE DEF r
<1>3. /\ GraceStarted(r) \in Row /\ PastDue(r, sweep.at) \in Row /\ Expired(r) \in Row
      /\ [r EXCEPT !.state = "expiring"] \in Row
  BY <1>1, MarkedType, PastDueType, Values DEF GraceStarted, Expired
<1>4. sweep.pass = 1 /\ sweep.grace # s =>
        /\ TrialEnded(r, sweep.at) \in Row
        /\ TrialEnded(r, sweep.at).trial_ends_at # NoDate
  BY <1>1, <1>2, TrialEndedType
<1> QED BY <1>1, <1>3, <1>4, SweepRowCases DEF r

LEMMA SweepTyped ==
  ASSUME Typed, LifecycleJob
  PROVE  Typed'
<1> USE DEF Typed
<1>0. /\ sweep \in Job
      /\ \A s \in Subs : sub[s] \in Row /\ sweep.rows[s] \in Row /\ Overdue(s) \in Nat
      /\ sweep.pass \in 0 .. 5 /\ sweep.at \in Int /\ sweep.todo \in SUBSET Subs
  <2>1. sweep \in Job /\ \A s \in Subs : sub[s] \in Row /\ Overdue(s) \in Nat
    BY ColumnTypes
  <2> QED BY <2>1, JobFields
<1>1. CASE SweepRead
  <2> DEFINE at == IF sweep.pass = 0 THEN now ELSE sweep.at
             pass == sweep.pass + 1
             selected == {s \in Subs : SelectedBy(pass, sub[s], at)}
  <2>1. at \in Nat /\ pass \in 0 .. 5 /\ selected \in SUBSET Subs
    BY <1>0, <1>1, JobFields DEF SweepRead, TypeOK
  <2>2. sweep' = ReadPass(sweep, pass, at, selected)
    BY <1>1 DEF SweepRead
  <2>3. pass = 1 => \A s \in selected : sub[s].trial_ends_at # NoDate
    <3> SUFFICES ASSUME pass = 1, NEW s \in selected PROVE sub[s].trial_ends_at # NoDate
      OBVIOUS
    <3>1. SelectedBy(1, sub[s], at)
      OBVIOUS
    <3>2. TrialOver(sub[s], at)
      BY <3>1 DEF SelectedBy
    <3> QED BY <3>2 DEF TrialOver, Reached
  <2> HIDE DEF at, pass, selected
  <2>4. sweep' \in Job
    BY <2>1, <2>2, ReadPassType
  <2>5. TrialRows'
    BY <2>1, <2>2, <2>3 DEF TrialRows, ReadPass
  <2> QED BY <1>1, <2>4, <2>5 DEF SweepRead, JobStep, tables, invoices, TypeOK, SettleIds
<1>2. CASE SweepEnd
  <2>1. sweep' \in Job /\ TrialRows'
    BY <1>2, IdleTypes DEF SweepEnd, TrialRows, IdleJob
  <2> QED BY <1>2, <2>1 DEF SweepEnd, JobStep, tables, invoices, TypeOK, SettleIds
<1>3. ASSUME NEW s \in Subs, NEW new \in Row, JobStep, dunning' = dunning, TablesTyped',
             \/ sweep' = Handled(sweep, s)
             \/ /\ sweep' = EnteringGrace(sweep, s, new)
                /\ sweep.pass = 1 => new.trial_ends_at # NoDate
      PROVE  Typed'
  <2>1. sweep' \in Job
    <3>1. Handled(sweep, s) \in Job /\ EnteringGrace(sweep, s, new) \in Job
      BY <1>0, HandledType, EnteringGraceType
    <3> QED BY <1>3, <3>1
  <2>2. TrialRows'
    <3>1. CASE sweep' = Handled(sweep, s)
      <4>1. /\ sweep'.pass = sweep.pass /\ sweep'.todo = sweep.todo \ {s}
            /\ \A t \in Subs \ {s} : sweep'.rows[t] = sweep.rows[t]
        BY <1>0, <3>1, HandledType
      <4> QED BY <1>0, <4>1 DEF TrialRows
    <3>2. CASE /\ sweep' = EnteringGrace(sweep, s, new)
               /\ sweep.pass = 1 => new.trial_ends_at # NoDate
      <4>1. /\ sweep'.pass = sweep.pass /\ sweep'.todo = sweep.todo
            /\ sweep'.rows = [sweep.rows EXCEPT ![s] = new]
        BY <1>0, <3>2, EnteringGraceType
      <4>2. sweep.rows \in [Subs -> Row]
        BY <1>0, JobFields
      <4> QED BY <1>0, <3>2, <4>1, <4>2 DEF TrialRows
    <3> QED BY <1>3, <3>1, <3>2
  <2> QED BY <1>3, <2>1, <2>2 DEF JobStep, invoices, TablesTyped, TypeOK, SettleIds
<1>a. ASSUME NEW s \in Subs, SweepStore(s), s \in sweep.todo \/ sweep.grace = s
      PROVE  TablesTyped' /\ dunning' = dunning /\ SweepRow(s) \in Row
  <2>1. SweepRow(s) \in Row
    BY <1>a, SweepRowType
  <2>2. Saved(sub[s], sweep.rows[s], SweepRow(s)) \in Row
    BY <1>0, <2>1, SavedType
  <2> QED BY <1>a, <2>1, <2>2, StoreType DEF SweepStore
<1>4. ASSUME NEW s \in Subs, SweepPastDue(s) PROVE Typed'
  <2>1. s \in sweep.todo /\ sweep.grace # s /\ SweepStore(s) /\ JobStep
    BY <1>4 DEF SweepPastDue, First
  <2>2. SweepRow(s) \in Row /\ (sweep.pass = 1 => SweepRow(s).trial_ends_at # NoDate)
    BY <2>1, SweepRowType
  <2>3. sweep' = EnteringGrace(sweep, s, SweepRow(s)) \/ sweep' = Handled(sweep, s)
    BY <1>4 DEF SweepPastDue
  <2> QED BY <1>3, <1>a, <2>1, <2>2, <2>3
<1>5. ASSUME NEW s \in Subs, SweepGrace(s) \/ SweepRenew(s) \/ SweepMark(s) PROVE Typed'
  <2>1. /\ SweepStore(s) /\ JobStep /\ sweep' = Handled(sweep, s)
        /\ s \in sweep.todo \/ sweep.grace = s
    BY <1>5 DEF SweepGrace, SweepRenew, SweepMark, First
  <2> QED BY <1>3, <1>a, <2>1
<1>6. ASSUME NEW s \in Subs, SweepReadRenewal(s) PROVE Typed'
  <2>1. CASE CanRenew(sub[s], sweep.at, Overdue(s))
    <3> DEFINE new == Renewed(sub[s], sweep.at, Overdue(s))
    <3>1. sub[s].state \in RenewableStates
      BY <2>1 DEF CanRenew
    <3>2. new \in Row
      BY <1>0, <3>1, RenewedType
    <3>3. sweep' = [sweep EXCEPT !.rows[s] = sub[s], !.renewal = new] /\ sweep.pass = 2
      BY <1>6, <2>1 DEF SweepReadRenewal
    <3> HIDE DEF new
    <3>4. sweep' \in Job /\ sweep'.pass = 2
      <4>1. [sweep EXCEPT !.rows[s] = sub[s]] \in Job
        BY <1>0 DEF Job
      <4>2. \A j \in Job : [j EXCEPT !.renewal = new] \in Job
        BY <3>2 DEF Job
      <4> QED BY <3>3, <4>1, <4>2 DEF Job
    <3>5. TrialRows'
      BY <3>4 DEF TrialRows
    <3> QED BY <1>6, <3>4, <3>5
          DEF SweepReadRenewal, JobStep, tables, invoices, TypeOK, SettleIds
  <2>2. CASE ~CanRenew(sub[s], sweep.at, Overdue(s))
    <3>1. TablesTyped'
      BY <1>6 DEF SweepReadRenewal, tables, TypeOK, TablesTyped
    <3> QED BY <1>3, <1>6, <2>2, <3>1, AbsentRowType DEF SweepReadRenewal
  <2> QED BY <2>1, <2>2
<1>7. ASSUME NEW s \in Subs, SweepBegins(s) PROVE Typed'
  <2>1. s \in sweep.todo /\ Begin("sweep", s, Saved(sub[s], sweep.rows[s], SweepRow(s)))
    BY <1>7 DEF SweepBegins, First
  <2>2. Saved(sub[s], sweep.rows[s], SweepRow(s)) \in Row
    BY <1>0, <2>1, SweepRowType, SavedType
  <2>3. TablesTyped'
    BY <2>1, <2>2, BeginType
  <2> QED BY <1>7, <2>3
        DEF SweepBegins, JobStep, invoices, TablesTyped, TypeOK, TrialRows, SettleIds
<1>8. ASSUME NEW s \in Subs, SweepRolledBack(s) PROVE Typed'
  <2>1. TablesTyped'
    BY <1>8, RolledBackType DEF SweepRolledBack
  <2> QED BY <1>3, <1>8, <2>1, AbsentRowType DEF SweepRolledBack
<1> QED BY <1>1, <1>2, <1>4, <1>5, <1>6, <1>7, <1>8 DEF LifecycleJob

LEMMA DunningRowType ==
  ASSUME TypeOK, NEW s \in Subs
  PROVE  DunningRow(s) \in Row
<1>1. dunning.rows[s] \in Row /\ dunning.at \in Int
  BY JobFields DEF TypeOK
<1> QED BY <1>1, MarkedType, PastDueType, Values DEF DunningRow, GraceStarted

LEMMA DunningTyped ==
  ASSUME Typed, OverdueJob
  PROVE  Typed'
<1> USE DEF Typed
<1>0. /\ dunning \in Job
      /\ \A s \in Subs : sub[s] \in Row /\ dunning.rows[s] \in Row /\ Overdue(s) \in Nat
      /\ dunning.at \in Nat /\ dunning.todo \in SUBSET Subs
  BY JobFields DEF TypeOK, Overdue
<1>1. CASE DunningFlag
  <2> DEFINE owing == {s \in Subs : unflagged[s] > 0}
  <2>1. dunning' \in Job
    <3>1. dunning' = [pass |-> 1, at |-> now, todo |-> owing,
                      rows |-> IdleJob.rows, grace |-> 0, renewal |-> AbsentRow]
      BY <1>1 DEF DunningFlag, IdleJob
    <3>2. /\ owing \in SUBSET Subs /\ now \in Nat /\ IdleJob.rows \in [Subs -> Row]
          /\ AbsentRow \in Row
      BY IdleTypes, JobFields, AbsentRowType DEF TypeOK
    <3> HIDE DEF owing
    <3> QED BY <3>1, <3>2 DEF Job
  <2>2. flagged' \in [Subs -> Nat] /\ unflagged' \in [Subs -> Nat]
    BY <1>0, <1>1 DEF DunningFlag
  <2> QED BY <1>1, <2>1, <2>2 DEF DunningFlag, tables, TypeOK, TrialRows, SettleIds
<1>2. CASE DunningRead
  <2> DEFINE selected == {s \in dunning.todo : sub[s].state \in {"active", "expiring"}}
  <2>1. selected \in SUBSET Subs
    BY <1>0
  <2>2. dunning' = ReadPass(dunning, 2, dunning.at, selected)
    BY <1>2 DEF DunningRead
  <2> HIDE DEF selected
  <2>3. dunning' \in Job
    BY <1>0, <2>1, <2>2, ReadPassType
  <2> QED BY <1>2, <2>3
        DEF DunningRead, JobStep, tables, invoices, TypeOK, TrialRows, SettleIds
<1>3. CASE DunningEnd
  BY <1>3, IdleTypes
    DEF DunningEnd, JobStep, tables, invoices, TypeOK, TrialRows, SettleIds
<1>4. ASSUME NEW s \in Subs, NEW new \in Row, TablesTyped', JobStep, sweep' = sweep,
             dunning' = Handled(dunning, s) \/ dunning' = EnteringGrace(dunning, s, new)
      PROVE  Typed'
  <2>1. dunning' \in Job
    <3>1. Handled(dunning, s) \in Job /\ EnteringGrace(dunning, s, new) \in Job
      BY <1>0, HandledType, EnteringGraceType
    <3> QED BY <1>4, <3>1
  <2> QED BY <1>4, <2>1 DEF JobStep, invoices, TablesTyped, TypeOK, TrialRows, SettleIds
<1>5. ASSUME NEW s \in Subs, DunningPastDue(s) \/ DunningGrace(s) PROVE Typed'
  <2>0. Saved(sub[s], dunning.rows[s], DunningRow(s)) \in Row
    BY <1>0, DunningRowType, SavedType
  <2>1. TablesTyped' /\ sweep' = sweep
    BY <1>5, <2>0, StoreType DEF DunningPastDue, DunningGrace, DunningStore
  <2>2. \/ dunning' = Handled(dunning, s)
        \/ dunning' = EnteringGrace(dunning, s, DunningRow(s))
    BY <1>5 DEF DunningPastDue, DunningGrace
  <2> QED BY <1>4, <1>5, <2>1, <2>2, DunningRowType DEF DunningPastDue, DunningGrace
<1>6. ASSUME NEW s \in Subs, DunningBegins(s) PROVE Typed'
  <2>1. Saved(sub[s], dunning.rows[s], DunningRow(s)) \in Row
    BY <1>0, DunningRowType, SavedType
  <2>2. TablesTyped'
    BY <1>6, <2>1, BeginType DEF DunningBegins
  <2> QED BY <1>6, <2>2
        DEF DunningBegins, JobStep, invoices, TablesTyped, TypeOK, TrialRows, SettleIds
<1>7. ASSUME NEW s \in Subs, DunningRolledBack(s) PROVE Typed'
  <2>1. TablesTyped'
    BY <1>7, RolledBackType DEF DunningRolledBack
  <2> QED BY <1>4, <1>7, <2>1, AbsentRowType DEF DunningRolledBack
<1> QED BY <1>1, <1>2, <1>3, <1>5, <1>6, <1>7 DEF OverdueJob

LEMMA WorldTyped ==
  ASSUME Typed, World
  PROVE  Typed'
<1> USE DEF Typed
<1>1. CASE Tick
  BY <1>1 DEF Tick, tables, invoices, TypeOK, TrialRows, SettleIds
<1>2. ASSUME NEW s \in Subs, InvoiceFallsDue(s) PROVE Typed'
  <2>1. unflagged' \in [Subs -> Nat]
    BY <1>2 DEF InvoiceFallsDue, TypeOK
  <2> QED BY <1>2, <2>1 DEF InvoiceFallsDue, tables, TypeOK, TrialRows, SettleIds
<1>3. CASE ApiCrash
  <2>1. request' \in [Requests -> Request]
    BY <1>3, IdleTypes DEF ApiCrash
  <2>2. crashes' \in 0 .. MaxCrashes
    BY <1>3 DEF ApiCrash, TypeOK
  <2>3. open' \in [Actors -> Transaction]
    BY <1>3, IdleTypes DEF ApiCrash, TypeOK
  <2> QED BY <1>3, <2>1, <2>2, <2>3
        DEF ApiCrash, invoices, TypeOK, TrialRows, SettleIds, IdleRequest
<1>4. CASE WorkerCrash
  <2>1. crashes' \in 0 .. MaxCrashes
    BY <1>4 DEF WorkerCrash, TypeOK
  <2>2. open' \in [Actors -> Transaction]
    BY <1>4, IdleTypes DEF WorkerCrash, TypeOK
  <2> QED BY <1>4, <2>1, <2>2, IdleTypes
        DEF WorkerCrash, invoices, TypeOK, TrialRows, SettleIds, IdleJob
<1> QED BY <1>1, <1>2, <1>3, <1>4 DEF World

LEMMA TypedNext == Typed /\ [Next]_vars => Typed'
<1> SUFFICES ASSUME Typed, [Next]_vars PROVE Typed'
  OBVIOUS
<1>1. CASE UNCHANGED vars
  BY <1>1 DEF vars, tables, Typed, TypeOK, TrialRows, SettleIds
<1>2. CASE Next
  BY <1>2, ServeTyped, SweepTyped, DunningTyped, WorldTyped DEF Next
<1> QED BY <1>1, <1>2

(* Every row, every copy a handler or a job holds and the school's state   *)
(* keep their types, however the operations interleave: in particular no   *)
(* rule is ever applied to a column it cannot have been given.             *)
THEOREM TypeCorrect == Spec => []TypeOK
<1>1. Spec => []Typed
  BY TypedInit, TypedNext, PTL DEF Spec
<1>2. Typed => TypeOK
  BY DEF Typed
<1> QED BY <1>1, <1>2, PTL

-----------------------------------------------------------------------------
(* Grace periods have a deadline, when no operation begins inside another. *)
(* The inductive invariant says that at most one actor is at work, with no *)
(* transaction left open, that what it holds is still what the table       *)
(* holds, and that what it is about to write is a row with a deadline or   *)
(* no grace.                                                               *)

NoneOpen == \A a \in Actors : open[a] = NoTransaction

OneAtATime ==
  /\ \A p, q \in Requests :
       request[p].stage # "idle" /\ request[q].stage # "idle" => p = q
  /\ \A q \in Requests :
       request[q].stage # "idle" => sweep.pass = 0 /\ dunning.pass = 0
  /\ sweep.pass = 0 \/ dunning.pass = 0
  /\ sweep.pass = 0 => sweep = IdleJob
  /\ dunning.pass = 0 => dunning = IdleJob

RequestsCurrent ==
  \A q \in Requests :
    request[q].stage = "write" =>
      /\ Sound(request[q].new)
      /\ request[q].id # 0 => request[q].read = sub[request[q].id]

Current(job) ==
  /\ \A s \in job.todo : job.rows[s] = sub[s]
  /\ job.grace # 0 =>
       /\ job.grace \in job.todo
       /\ job.rows[job.grace].grace_period_ends_at # NoDate

(* The row renew() has computed is computed from what the table holds.     *)
Renewing ==
  sweep.renewal # AbsentRow =>
    /\ sweep.pass = 2
    /\ \E s \in Subs : /\ First(s, sweep.todo)
                       /\ CanRenew(sub[s], sweep.at, Overdue(s))
                       /\ sweep.renewal = Renewed(sub[s], sweep.at, Overdue(s))

JobsCurrent ==
  /\ Current(sweep) /\ Renewing
  /\ sweep.grace # 0 => sweep.pass \in {1, 3}
  /\ dunning.pass \in 0 .. 2
  /\ dunning.pass # 1 => Current(dunning)
  /\ dunning.pass = 1 => dunning.grace = 0

Serial ==
  /\ Typed /\ NoneOpen /\ GraceHasDeadline
  /\ OneAtATime /\ RequestsCurrent /\ JobsCurrent

(* A transaction nobody else's falls into is one step: it saves its row.   *)
Wrote(s, read, new) == sub' = [sub EXCEPT ![s] = Saved(sub[s], read, new)]

LEMMA StoreAlone ==
  ASSUME NoneOpen, NEW a \in Actors, NEW s, NEW row, Store(a, s, row)
  PROVE  sub' = [sub EXCEPT ![s] = row]
<1>1. open[a].row = 0
  BY DEF NoneOpen, NoTransaction
<1>2. FinishTransaction(a, Begun(s, row))
  BY <1>1 DEF Store
<1> QED BY <1>2 DEF FinishTransaction, Begun

LEMMA NoneOpenNext ==
  ASSUME NoneOpen, ~Overlap, [Next]_vars
  PROVE  NoneOpen' /\ (skewed' = skewed \/ ~skewed')
<1> DEFINE Goal == NoneOpen' /\ (skewed' = skewed \/ ~skewed')
<1>1. \A a \in Actors : open[a].row = 0
  BY DEF NoneOpen, NoTransaction
<1>2. ASSUME NEW a \in Actors, NEW s, NEW row, Store(a, s, row)
      PROVE  Goal
  <2>1. FinishTransaction(a, Begun(s, row))
    BY <1>1, <1>2 DEF Store
  <2> QED BY <1>1, <2>1 DEF FinishTransaction, Begun, NoneOpen
<1>3. \A q \in Requests : q \in Actors
  OBVIOUS
<1>4. UNCHANGED <<open, skewed>> => Goal
  BY DEF NoneOpen
<1>5. ASSUME NEW q \in Requests, Serve(q) PROVE Goal
  <2>1. ~WriteBegins(q) /\ ~RequestRolledBack(q)
    BY <1>1, <1>3 DEF WriteBegins, Begin, RequestRolledBack, RolledBack
  <2>2. CASE Insert(q)
    BY <1>2, <1>3, <2>2 DEF Insert
  <2>3. CASE Write(q)
    BY <1>2, <1>3, <1>4, <2>3 DEF Write
  <2>4. Insert(q) \/ Write(q) \/ UNCHANGED <<open, skewed>>
    BY <1>5, <2>1
      DEF Serve, ReadCreate, FollowSettlement, ReadUpdate, ReadRenew, Pay, ReadTransition,
          ReadChangePlan, ReadOnly, tables
  <2> QED BY <1>4, <2>2, <2>3, <2>4
<1>6. CASE LifecycleJob
  <2>1. \A s \in Subs : ~SweepBegins(s) /\ ~SweepRolledBack(s)
    BY <1>1 DEF SweepBegins, Begin, SweepRolledBack, RolledBack
  <2>2. UNCHANGED <<open, skewed>> \/ \E s \in Subs : SweepStore(s)
    BY <1>6, <2>1
      DEF LifecycleJob, SweepRead, SweepEnd, SweepPastDue, SweepGrace, SweepReadRenewal,
          SweepRenew, SweepMark, tables
  <2> QED BY <1>2, <1>4, <2>2 DEF SweepStore
<1>7. CASE OverdueJob
  <2>1. \A s \in Subs : ~DunningBegins(s) /\ ~DunningRolledBack(s)
    BY <1>1 DEF DunningBegins, Begin, DunningRolledBack, RolledBack
  <2>2. UNCHANGED <<open, skewed>> \/ \E s \in Subs : DunningStore(s)
    BY <1>7, <2>1
      DEF OverdueJob, DunningFlag, DunningRead, DunningEnd, DunningPastDue, DunningGrace, tables
  <2> QED BY <1>2, <1>4, <2>2 DEF DunningStore
<1>8. CASE World
  BY <1>8 DEF World, Tick, InvoiceFallsDue, ApiCrash, WorkerCrash, tables, NoneOpen
<1>9. CASE UNCHANGED vars
  BY <1>4, <1>9 DEF vars
<1> QED BY <1>5, <1>6, <1>7, <1>8, <1>9 DEF Next

(* What an actor that is alone writes.                                     *)
LEMMA AloneWrites ==
  ASSUME Serial
  PROVE  /\ \A s \in Subs : SweepStore(s) =>
              Wrote(s, sweep.rows[s], SweepRow(s)) /\ dunning' = dunning
         /\ \A s \in Subs : DunningStore(s) =>
              Wrote(s, dunning.rows[s], DunningRow(s)) /\ sweep' = sweep
         /\ \A q \in Requests : Insert(q) =>
              \E s \in Subs : ~Exists(s) /\ sub' = [sub EXCEPT ![s] = request[q].new]
         /\ \A q \in Requests : Write(q) =>
              Wrote(request[q].id, request[q].read, request[q].new)
<1>1. \A a \in Actors : open[a].row = 0
  BY DEF Serial, NoneOpen, NoTransaction
<1>2. NoneOpen
  BY DEF Serial
<1>3. \A s \in Subs : SweepStore(s) =>
        Wrote(s, sweep.rows[s], SweepRow(s)) /\ dunning' = dunning
  BY <1>2, StoreAlone DEF SweepStore, Wrote
<1>4. \A s \in Subs : DunningStore(s) =>
        Wrote(s, dunning.rows[s], DunningRow(s)) /\ sweep' = sweep
  BY <1>2, StoreAlone DEF DunningStore, Wrote
<1>5. \A q \in Requests : Insert(q) =>
        \E s \in Subs : ~Exists(s) /\ sub' = [sub EXCEPT ![s] = request[q].new]
  BY <1>1, <1>2, StoreAlone DEF Insert, NextId
<1>6. \A q \in Requests : Write(q) => Wrote(request[q].id, request[q].read, request[q].new)
  BY <1>2, StoreAlone DEF Write, Wrote
<1> QED BY <1>3, <1>4, <1>5, <1>6

(* No transaction is left half way, none is rolled back.                   *)
LEMMA AloneRuns ==
  ASSUME Serial, ~Overlap
  PROVE  /\ \A q \in Requests : ~WriteBegins(q) /\ ~RequestRolledBack(q)
         /\ \A s \in Subs : /\ ~SweepBegins(s) /\ ~SweepRolledBack(s)
                             /\ ~DunningBegins(s) /\ ~DunningRolledBack(s)
<1>1. \A a \in Actors : open[a].row = 0
  BY DEF Serial, NoneOpen, NoTransaction
<1>2. \A q \in Requests : ~WriteBegins(q) /\ ~RequestRolledBack(q)
  BY <1>1 DEF WriteBegins, Begin, RequestRolledBack, RolledBack
<1> QED BY <1>1, <1>2 DEF SweepBegins, SweepRolledBack, DunningBegins, DunningRolledBack,
                          Begin, RolledBack

LEMMA SoundRows ==
  ASSUME Serial, NEW s \in Subs
  PROVE  sub[s] \in Row /\ Sound(sub[s])
  BY DEF Serial, Typed, TypeOK, GraceHasDeadline, Sound

LEMMA SerialInit == Init => Serial
<1> SUFFICES ASSUME Init PROVE Serial
  OBVIOUS
<1>1. GraceHasDeadline
  BY DEF Init, GraceHasDeadline, AbsentRow
<1>2. NoneOpen
  BY DEF Init, NoneOpen
<1>3. OneAtATime /\ RequestsCurrent /\ JobsCurrent
  BY DEF Init, OneAtATime, RequestsCurrent, JobsCurrent, Current, Renewing, IdleJob, IdleRequest
<1> QED BY <1>1, <1>2, <1>3, TypedInit DEF Serial

(* Writing a sound row into the table while no job holds a copy.           *)
LEMMA RequestWrites ==
  ASSUME Serial, Typed', NoneOpen', NEW q \in Requests, request[q].stage = "write",
         request' = [request EXCEPT ![q] = IdleRequest],
         UNCHANGED <<sweep, dunning>>,
         \A s \in Subs : sub'[s] = sub[s] \/ Sound(sub'[s])
  PROVE  Serial'
<1>1. GraceHasDeadline'
  BY DEF Serial, GraceHasDeadline, Sound
<1>2. sweep = IdleJob /\ dunning = IdleJob
  BY DEF Serial, OneAtATime
<1>3. \A p \in Requests : request'[p].stage = "idle"
  BY DEF Serial, OneAtATime, Typed, TypeOK, IdleRequest
<1>4. OneAtATime' /\ RequestsCurrent'
  BY <1>3 DEF Serial, OneAtATime, RequestsCurrent
<1>5. JobsCurrent'
  BY <1>2 DEF JobsCurrent, Current, Renewing, IdleJob
<1> QED BY <1>1, <1>4, <1>5 DEF Serial

(* Taking a row in hand: nobody else is at work.                           *)
LEMMA RequestHolds ==
  ASSUME Serial, Typed', NoneOpen', NEW q \in Requests, NEW s \in Subs, NEW new \in Row,
         NEW sync \in BOOLEAN,
         Hold(q, s, new, sync), ReadOnly, Sound(new),
         Quiet \/ request[q].stage # "idle"
  PROVE  Serial'
<1>1. /\ sweep.pass = 0 /\ dunning.pass = 0
      /\ \A p \in Requests \ {q} : request[p].stage = "idle"
  BY DEF Serial, OneAtATime, Quiet
<1>2. UNCHANGED <<sub, sweep, dunning>>
  BY DEF ReadOnly, tables
<1>3. \A p \in Requests \ {q} : request'[p] = request[p]
  BY DEF Hold, Serial, Typed, TypeOK
<1>4. request'[q] = [stage |-> "write", id |-> s, read |-> sub[s], new |-> new,
                     sync |-> sync]
  BY DEF Hold, Serial, Typed, TypeOK
<1>5. OneAtATime'
  BY <1>1, <1>2, <1>3 DEF Serial, OneAtATime
<1>6. RequestsCurrent'
  BY <1>1, <1>2, <1>3, <1>4 DEF RequestsCurrent
<1>7. GraceHasDeadline'
  BY <1>2 DEF Serial, GraceHasDeadline
<1>8. JobsCurrent'
  BY <1>1, <1>2 DEF Serial, OneAtATime, JobsCurrent, Current, Renewing, IdleJob
<1> QED BY <1>5, <1>6, <1>7, <1>8 DEF Serial

LEMMA ServeSerial ==
  ASSUME Serial, Typed', NoneOpen', ~Overlap, NEW q \in Requests, Serve(q)
  PROVE  Serial'
<1>0. /\ now \in Int
      /\ \A s \in Subs : sub[s] \in Row /\ Sound(sub[s]) /\ Overdue(s) \in Nat
      /\ request[q] \in Request
  <2>1. TypeOK
    BY DEF Serial, Typed
  <2> QED BY <2>1, ColumnTypes, SoundRows
<1>1. CASE ReadCreate(q)
  <2>1. PICK plan \in Plans, cycle \in Cycles, start \in StartOffsets,
             trial \in TrialDays, grace \in GraceDays, auto \in RenewalModes :
          request' = [request EXCEPT ![q] =
            [stage |-> "write", id |-> 0, read |-> AbsentRow, sync |-> TRUE,
             new |-> NewRow(plan, cycle, now + start, trial, grace, auto)]]
    BY <1>1 DEF ReadCreate
  <2> DEFINE new == NewRow(plan, cycle, now + start, trial, grace, auto)
  <2>2. now + start \in Int /\ trial \in Nat /\ grace \in Nat /\ auto \in BOOLEAN
    BY <1>0
  <2>3. Sound(new)
    BY <2>2, NewRowType DEF Sound
  <2> HIDE DEF new
  <2>4. /\ request'[q] = [stage |-> "write", id |-> 0, read |-> AbsentRow,
                          sync |-> TRUE, new |-> new]
        /\ \A p \in Requests \ {q} : request'[p] = request[p]
    BY <2>1 DEF Serial, Typed, TypeOK, new
  <2>5. Quiet /\ UNCHANGED <<sub, sweep, dunning>>
    BY <1>1 DEF ReadCreate, Accepts, MayStart, ReadOnly, tables
  <2>6. OneAtATime'
    BY <2>4, <2>5 DEF Serial, OneAtATime, Quiet
  <2>7. RequestsCurrent'
    BY <2>3, <2>4, <2>5 DEF RequestsCurrent, Quiet
  <2>8. sweep = IdleJob /\ dunning = IdleJob
    BY <2>5 DEF Serial, OneAtATime, Quiet
  <2>9. GraceHasDeadline' /\ JobsCurrent'
    BY <2>5, <2>8 DEF Serial, GraceHasDeadline, JobsCurrent, Current, Renewing, IdleJob
  <2> QED BY <2>6, <2>7, <2>9 DEF Serial
<1>2. CASE Insert(q)
  <2>1. PICK s \in Subs : sub' = [sub EXCEPT ![s] = request[q].new]
    BY <1>2, AloneWrites
  <2>2. Sound(request[q].new)
    BY <1>2 DEF Insert, Serial, RequestsCurrent
  <2>3. \A t \in Subs : sub'[t] = sub[t] \/ Sound(sub'[t])
    BY <2>1, <2>2 DEF Serial, Typed, TypeOK
  <2> QED BY <1>2, <2>3, RequestWrites DEF Insert
<1>3. CASE Write(q)
  <2> DEFINE s == request[q].id
             new == request[q].new
  <2>1. s \in Subs /\ new \in Row /\ Sound(new) /\ request[q].read = sub[s]
    BY <1>0, <1>3, RequestFields DEF Write, Serial, RequestsCurrent
  <2>2. sub' = [sub EXCEPT ![s] = Saved(@, request[q].read, new)]
    BY <1>3, AloneWrites DEF Wrote
  <2>3. Saved(sub[s], request[q].read, new) = new
    BY <1>0, <2>1, SavedFresh
  <2>4. \A t \in Subs : sub'[t] = sub[t] \/ Sound(sub'[t])
    BY <2>1, <2>2, <2>3 DEF Serial, Typed, TypeOK
  <2> QED BY <1>3, <2>4, RequestWrites DEF Write
<1>4. CASE FollowSettlement(q)
  <2> DEFINE s == request[q].id
             action == IF sub[s].state \in {"pending", "trial"}
                       THEN "activate" ELSE "reactivate"
  <2>1. s \in Subs /\ action \in Actions /\ ReadOnly /\ request[q].stage = "settle"
    BY <1>0, <1>4, RequestFields DEF FollowSettlement, SettleIds, Serial, Typed, Actions
  <2>2. CASE Hold(q, s, Settled(sub[s]), TRUE)
    <3>1. Settled(sub[s]) \in Row /\ Sound(Settled(sub[s]))
      BY <1>0, <2>1, SettledType DEF Sound
    <3> QED BY <2>1, <2>2, <3>1, RequestHolds
  <2>3. CASE Hold(q, s, Transitioned(sub[s], action, now), TRUE)
    <3>1. /\ Transitioned(sub[s], action, now) \in Row
          /\ Sound(Transitioned(sub[s], action, now))
      <4> HIDE DEF s, action
      <4> QED BY <1>0, <2>1, TransitionedType DEF Sound
    <3> QED BY <2>1, <2>3, <3>1, RequestHolds
  <2>4. CASE request' = [request EXCEPT ![q] = IdleRequest]
    <3>1. UNCHANGED <<sub, sweep, dunning>>
      BY <2>1 DEF ReadOnly, tables
    <3>2. \A p \in Requests : request'[p].stage = "idle"
      BY <2>1, <2>4 DEF Serial, OneAtATime, Typed, TypeOK, IdleRequest
    <3>3. OneAtATime' /\ RequestsCurrent'
      BY <3>1, <3>2 DEF Serial, OneAtATime, RequestsCurrent
    <3>4. JobsCurrent'
      BY <2>1, <3>1 DEF Serial, OneAtATime, JobsCurrent, Current, Renewing, IdleJob
    <3> QED BY <3>1, <3>3, <3>4 DEF Serial, GraceHasDeadline
  <2> QED BY <1>4, <2>2, <2>3, <2>4 DEF FollowSettlement
<1>5. ASSUME NEW s \in Subs, ReadUpdate(q, s) PROVE Serial'
  <2>1. ReadOnly /\ Quiet
    BY <1>5 DEF ReadUpdate, Accepts, MayStart
  <2>2. CASE \E days \in TrialDays : Hold(q, s, WithTrialDays(sub[s], days), FALSE)
    <3>1. ASSUME NEW days \in TrialDays
          PROVE  WithTrialDays(sub[s], days) \in Row /\ Sound(WithTrialDays(sub[s], days))
      <4>1. days \in Nat
        OBVIOUS
      <4>2. /\ WithTrialDays(sub[s], days) \in Row
            /\ WithTrialDays(sub[s], days).state = sub[s].state
            /\ WithTrialDays(sub[s], days).grace_period_ends_at = sub[s].grace_period_ends_at
        BY <1>0, <4>1, WithTrialDaysType
      <4> QED BY <1>0, <4>2 DEF Sound
    <3> QED BY <2>1, <2>2, <3>1, RequestHolds
  <2>3. CASE \E days \in GraceDays :
               Hold(q, s, [sub[s] EXCEPT !.grace_period_days = days], FALSE)
    <3>1. \A days \in GraceDays : /\ [sub[s] EXCEPT !.grace_period_days = days] \in Row
                                  /\ Sound([sub[s] EXCEPT !.grace_period_days = days])
      BY <1>0, FieldTypes DEF Sound, Row
    <3> QED BY <2>1, <2>3, <3>1, RequestHolds
  <2>4. CASE \E auto \in RenewalModes :
               Hold(q, s, [sub[s] EXCEPT !.automatic = auto], FALSE)
    <3>1. \A auto \in RenewalModes : /\ [sub[s] EXCEPT !.automatic = auto] \in Row
                                     /\ Sound([sub[s] EXCEPT !.automatic = auto])
      BY <1>0, FieldTypes DEF Sound, Row
    <3> QED BY <2>1, <2>4, <3>1, RequestHolds
  <2> QED BY <1>5, <2>2, <2>3, <2>4 DEF ReadUpdate
<1>6. ASSUME NEW s \in Subs, ReadRenew(q, s) PROVE Serial'
  <2>1. sub[s].state \in RenewableStates
    BY <1>6 DEF ReadRenew, CanRenew
  <2>2. /\ Renewed(sub[s], now, Overdue(s)) \in Row
        /\ Sound(Renewed(sub[s], now, Overdue(s)))
    BY <1>0, <2>1, RenewedType
  <2> QED BY <1>6, <2>2, RequestHolds DEF ReadRenew, Accepts, MayStart
<1>7. ASSUME NEW s \in Subs, Pay(q, s) PROVE Serial'
  <2>1. Quiet /\ UNCHANGED <<sub, sweep, dunning>>
    BY <1>7 DEF Pay, Accepts, MayStart, tables
  <2>2. /\ request'[q].stage = "settle"
        /\ \A p \in Requests \ {q} : request'[p] = request[p]
    BY <1>7 DEF Pay, IdleRequest, Serial, Typed, TypeOK
  <2>3. OneAtATime' /\ RequestsCurrent'
    BY <2>1, <2>2 DEF Serial, OneAtATime, RequestsCurrent, Quiet
  <2>4. JobsCurrent'
    BY <2>1 DEF Serial, OneAtATime, Quiet, JobsCurrent, Current, Renewing, IdleJob
  <2> QED BY <2>1, <2>3, <2>4 DEF Serial, GraceHasDeadline
<1>8. ASSUME NEW s \in Subs, NEW action \in Actions, ReadTransition(q, s, action)
      PROVE  Serial'
  <2>1. /\ Transitioned(sub[s], action, now) \in Row
        /\ Sound(Transitioned(sub[s], action, now))
    BY <1>0, TransitionedType DEF Sound
  <2> QED BY <1>8, <2>1, RequestHolds DEF ReadTransition, Accepts, MayStart
<1>9. ASSUME NEW s \in Subs, NEW plan \in Plans, NEW cycle \in Cycles,
             ReadChangePlan(q, s, plan, cycle)
      PROVE  Serial'
  <2>1. PlanChanged(sub[s], plan, cycle) \in Row /\ Sound(PlanChanged(sub[s], plan, cycle))
    BY <1>0, PlanChangedType DEF Sound
  <2>2. /\ DowngradeScheduled(sub[s], plan, cycle) \in Row
        /\ Sound(DowngradeScheduled(sub[s], plan, cycle))
    BY <1>0, DowngradeScheduledType DEF Sound
  <2> QED BY <1>9, <2>1, <2>2, RequestHolds DEF ReadChangePlan, Accepts, MayStart
<1> QED BY <1>1, <1>2, <1>3, <1>4, <1>5, <1>6, <1>7, <1>8, <1>9, AloneRuns DEF Serve

(* A job writes a row it has in hand, and either has done with it or keeps *)
(* the row it wrote, with its deadline, for the second write.              *)
LEMMA JobWrites ==
  ASSUME Serial, NEW job \in Job, NEW job2, NEW s \in Subs, NEW new \in Row,
         Current(job), s \in job.todo, Wrote(s, job.rows[s], new), Sound(new),
         \/ job2 = Handled(job, s)
         \/ job2 = EnteringGrace(job, s, new) /\ new.grace_period_ends_at # NoDate
  PROVE  /\ GraceHasDeadline'
         /\ \A t \in job2.todo : job2.rows[t] = sub'[t]
         /\ job2.grace # 0 => /\ job2.grace \in job2.todo
                              /\ job2.rows[job2.grace].grace_period_ends_at # NoDate
<1>1. job.rows[s] = sub[s] /\ sub \in [Subs -> Row]
  BY DEF Current, Serial, Typed, TypeOK
<1>2. sub' = [sub EXCEPT ![s] = new]
  <2>1. s \in Subs /\ sub[s] \in Row
    BY <1>1, JobFields
  <2>2. Saved(sub[s], job.rows[s], new) = new
    BY <1>1, <2>1, SavedFresh
  <2> QED BY <2>2 DEF Wrote
<1>3. GraceHasDeadline'
  BY <1>1, <1>2 DEF Serial, GraceHasDeadline, Sound
<1>4. job.todo \subseteq Subs /\ job.rows \in [Subs -> Row]
  BY JobFields
<1>5. CASE job2 = Handled(job, s)
  <2>1. /\ job2.todo = job.todo \ {s} /\ job2.grace = 0
        /\ \A t \in Subs \ {s} : job2.rows[t] = job.rows[t]
    <3>1. /\ Handled(job, s).todo = job.todo \ {s} /\ Handled(job, s).grace = 0
          /\ \A t \in Subs \ {s} : Handled(job, s).rows[t] = job.rows[t]
      BY HandledType
    <3> QED BY <1>5, <3>1
  <2> QED BY <1>1, <1>2, <1>3, <1>4, <2>1 DEF Current
<1>6. CASE job2 = EnteringGrace(job, s, new) /\ new.grace_period_ends_at # NoDate
  <2>1. /\ job2.todo = job.todo /\ job2.grace = s
        /\ job2.rows = [job.rows EXCEPT ![s] = new]
    BY <1>6, EnteringGraceType
  <2> QED BY <1>1, <1>2, <1>3, <1>4, <1>6, <2>1 DEF Current
<1> QED BY <1>5, <1>6

(* renew() writes the row it has computed; passes 4 and 5 mark theirs.     *)
LEMMA SweepRenewsRow ==
  ASSUME Serial, NEW s \in Subs, SweepRenew(s)
  PROVE  /\ s \in sweep.todo /\ sweep.pass = 2 /\ sweep.grace = 0 /\ sweep.rows[s] = sub[s]
         /\ CanRenew(sub[s], sweep.at, Overdue(s))
         /\ Wrote(s, sweep.rows[s], Renewed(sub[s], sweep.at, Overdue(s)))
         /\ dunning' = dunning
<1>1. /\ s \in sweep.todo /\ First(s, sweep.todo) /\ sweep.pass = 2 /\ sweep.grace = 0
      /\ sweep.rows[s] = sub[s] /\ sweep.renewal # AbsentRow
  BY DEF SweepRenew, First, Serial, JobsCurrent, Current
<1>2. sweep.todo \subseteq Subs
  BY JobFields DEF Serial, Typed, TypeOK
<1>3. PICK t \in Subs : /\ First(t, sweep.todo)
                       /\ CanRenew(sub[t], sweep.at, Overdue(t))
                       /\ sweep.renewal = Renewed(sub[t], sweep.at, Overdue(t))
  BY <1>1 DEF Serial, JobsCurrent, Renewing
<1>4. t = s
  BY <1>1, <1>2, <1>3 DEF First
<1>5. SweepRow(s) = sweep.renewal
  BY <1>1, SweepRowCases
<1>6. Wrote(s, sweep.rows[s], SweepRow(s)) /\ dunning' = dunning
  BY AloneWrites DEF SweepRenew
<1> QED BY <1>1, <1>3, <1>4, <1>5, <1>6

LEMMA SweepMarksRow ==
  ASSUME Serial, NEW s \in Subs, SweepMark(s)
  PROVE  /\ s \in sweep.todo /\ sweep.pass \in {4, 5} /\ sweep.grace = 0
         /\ Wrote(s, sweep.rows[s], IF sweep.pass = 4 THEN Expired(sweep.rows[s])
                                    ELSE [sweep.rows[s] EXCEPT !.state = "expiring"])
         /\ dunning' = dunning
<1>1. s \in sweep.todo /\ sweep.pass \in {4, 5} /\ sweep.grace = 0
  BY DEF SweepMark, First, Serial, JobsCurrent
<1>2. SweepRow(s) = IF sweep.pass = 4 THEN Expired(sweep.rows[s])
                    ELSE [sweep.rows[s] EXCEPT !.state = "expiring"]
  BY <1>1, SweepRowCases
<1>3. Wrote(s, sweep.rows[s], SweepRow(s)) /\ dunning' = dunning
  BY AloneWrites DEF SweepMark
<1> QED BY <1>1, <1>2, <1>3

(* renew()'s read leaves the tables alone, and the job's copies as they are *)
(* but for a row it is done with.                                          *)
LEMMA SweepReadsRow ==
  ASSUME Serial, NEW s \in Subs, SweepReadRenewal(s)
  PROVE  /\ sub' = sub /\ UNCHANGED <<dunning, invoices, request>>
         /\ sweep.pass = 2 /\ sweep.grace = 0
         /\ \/ sweep' = Handled(sweep, s)
            \/ /\ sweep'.todo = sweep.todo /\ sweep'.rows = sweep.rows
               /\ sweep'.pass = 2 /\ sweep'.grace = 0
<1>1. /\ sweep.pass = 2 /\ sweep.grace = 0 /\ sweep.rows[s] = sub[s]
      /\ sub' = sub /\ UNCHANGED <<dunning, invoices, request>>
  BY DEF SweepReadRenewal, First, JobStep, tables, Serial, JobsCurrent, Current
<1>2. CASE sweep' = Handled(sweep, s)
  BY <1>1, <1>2
<1>3. CASE sweep' = [sweep EXCEPT !.rows[s] = sub[s],
                                  !.renewal = Renewed(sub[s], sweep.at, Overdue(s))]
  <2>1. sweep \in Job /\ sweep.rows \in [Subs -> Row]
    BY JobFields DEF Serial, Typed, TypeOK
  <2> QED BY <1>1, <1>3, <2>1 DEF Job
<1> QED BY <1>1, <1>2, <1>3 DEF SweepReadRenewal

LEMMA SweepSerial ==
  ASSUME Serial, Typed', NoneOpen', ~Overlap, LifecycleJob
  PROVE  Serial'
<1>0. /\ sweep \in Job /\ Current(sweep)
      /\ \A s \in Subs : sub[s] \in Row /\ Sound(sub[s]) /\ sweep.rows[s] \in Row
                           /\ Overdue(s) \in Nat
      /\ sweep.pass \in 0 .. 5 /\ sweep.at \in Int /\ sweep.todo \in SUBSET Subs
      /\ sub \in [Subs -> Row] /\ request \in [Requests -> Request]
  <2>1. TypeOK /\ sweep \in Job /\ Current(sweep)
    BY DEF Serial, JobsCurrent, Typed, TypeOK
  <2>2. \A s \in Subs : Overdue(s) \in Nat
    BY <2>1 DEF TypeOK, Overdue
  <2>3. \A s \in Subs : sub[s] \in Row /\ Sound(sub[s])
    BY SoundRows
  <2> QED BY <2>1, <2>2, <2>3, JobFields DEF TypeOK
<1>1. ASSUME sweep.pass # 0, UNCHANGED <<request, dunning>>, GraceHasDeadline', Current(sweep)',
             Renewing', sweep'.grace # 0 => sweep'.pass \in {1, 3},
             sweep' = IdleJob \/ sweep'.pass # 0
      PROVE  Serial'
  <2>1. dunning = IdleJob /\ \A q \in Requests : request[q].stage = "idle"
    BY <1>0, <1>1, RequestFields DEF Serial, OneAtATime
  <2>2. OneAtATime' /\ RequestsCurrent' /\ JobsCurrent'
    BY <1>1, <2>1 DEF OneAtATime, RequestsCurrent, JobsCurrent, Current, IdleJob
  <2> QED BY <1>1, <2>2 DEF Serial
<1>2. CASE SweepRead
  <2> DEFINE at == IF sweep.pass = 0 THEN now ELSE sweep.at
             selected == {s \in Subs : SelectedBy(sweep.pass + 1, sub[s], at)}
  <2>1. /\ sweep' = ReadPass(sweep, sweep.pass + 1, at, selected)
        /\ UNCHANGED <<sub, request, dunning>>
    BY <1>2 DEF SweepRead, JobStep, tables
  <2>2. selected \subseteq Subs
    OBVIOUS
  <2> HIDE DEF at, selected
  <2>3. /\ Current(sweep)' /\ sweep'.pass = sweep.pass + 1
        /\ Renewing' /\ sweep'.grace = 0
    BY <2>1, <2>2 DEF Current, Renewing, ReadPass
  <2>4. GraceHasDeadline'
    BY <2>1 DEF Serial, GraceHasDeadline
  <2>5. CASE sweep.pass # 0
    BY <1>0, <1>1, <2>1, <2>3, <2>4, <2>5
  <2>6. CASE sweep.pass = 0
    <3>1. dunning = IdleJob /\ \A q \in Requests : request[q].stage = "idle"
      BY <1>2, <2>6 DEF SweepRead, MayStart, Quiet, Serial, OneAtATime
    <3>2. OneAtATime' /\ RequestsCurrent' /\ JobsCurrent'
      BY <1>0, <2>1, <2>3, <3>1
        DEF OneAtATime, RequestsCurrent, JobsCurrent, Current, IdleJob
    <3> QED BY <2>4, <3>2 DEF Serial
  <2> QED BY <2>5, <2>6
<1>3. CASE SweepEnd
  <2>1. Current(sweep)' /\ Renewing' /\ sweep'.grace = 0
    BY <1>3 DEF SweepEnd, Current, Renewing, IdleJob
  <2>2. GraceHasDeadline'
    BY <1>3 DEF SweepEnd, tables, Serial, GraceHasDeadline
  <2> QED BY <1>1, <1>3, <2>1, <2>2 DEF SweepEnd, JobStep
<1>4. ASSUME NEW s \in Subs, NEW new \in Row, s \in sweep.todo, sweep.pass # 0,
             Wrote(s, sweep.rows[s], new), Sound(new), JobStep, dunning' = dunning,
             \/ sweep' = Handled(sweep, s)
             \/ /\ sweep' = EnteringGrace(sweep, s, new) /\ new.grace_period_ends_at # NoDate
                /\ sweep.pass \in {1, 3}
      PROVE  Serial'
  <2>1. GraceHasDeadline' /\ Current(sweep)'
    BY <1>0, <1>4, JobWrites DEF Current
  <2>2. /\ Handled(sweep, s).pass = sweep.pass /\ Handled(sweep, s).grace = 0
        /\ Handled(sweep, s).renewal = AbsentRow
    BY <1>0, HandledType
  <2>3. /\ EnteringGrace(sweep, s, new).pass = sweep.pass
        /\ EnteringGrace(sweep, s, new).renewal = sweep.renewal
    BY <1>0 DEF EnteringGrace, Job
  <2>4. sweep.pass # 2 => sweep.renewal = AbsentRow
    BY DEF Serial, JobsCurrent, Renewing
  <2>5. /\ sweep'.pass = sweep.pass /\ sweep'.renewal = AbsentRow
        /\ sweep'.grace # 0 => sweep'.pass \in {1, 3}
    BY <1>4, <2>2, <2>3, <2>4
  <2>6. Renewing'
    BY <2>5 DEF Renewing
  <2> QED BY <1>1, <1>4, <2>1, <2>5, <2>6 DEF JobStep
<1>5. ASSUME NEW s \in Subs, SweepPastDue(s) PROVE Serial'
  <2> DEFINE r == sweep.rows[s]
             new == IF sweep.pass = 1 THEN TrialEnded(r, sweep.at) ELSE PastDue(r, sweep.at)
  <2>1. r \in Row /\ s \in sweep.todo /\ sweep.pass \in {1, 3} /\ sweep.grace # s
    BY <1>0, <1>5 DEF SweepPastDue, First
  <2>2. sweep.pass = 1 => r.trial_ends_at # NoDate
    BY <2>1 DEF TrialRows, Serial, Typed
  <2>3. /\ new \in Row /\ Sound(new)
        /\ r.grace_period_days > 0 => new.grace_period_ends_at # NoDate
    <3> HIDE DEF r
    <3> QED BY <1>0, <2>1, <2>2, TrialEndedType, PastDueType DEF Sound
  <2>4. SweepRow(s) = new
    BY <2>1, SweepRowCases
  <2>5. /\ Wrote(s, r, new) /\ JobStep /\ dunning' = dunning
        /\ sweep' = IF r.grace_period_days > 0 THEN EnteringGrace(sweep, s, new)
                    ELSE Handled(sweep, s)
    BY <1>5, <2>4, AloneWrites DEF SweepPastDue
  <2> HIDE DEF new
  <2> QED BY <1>4, <2>1, <2>3, <2>5
<1>6. ASSUME NEW s \in Subs, SweepGrace(s) PROVE Serial'
  <2>1. /\ s \in sweep.todo /\ sweep.rows[s].grace_period_ends_at # NoDate
        /\ sweep.pass # 0
    BY <1>0, <1>6 DEF SweepGrace, Current, Serial, OneAtATime, IdleJob
  <2>2. GraceStarted(sweep.rows[s]) \in Row /\ Sound(GraceStarted(sweep.rows[s]))
    BY <1>0, <2>1, MarkedType, Values DEF GraceStarted, Sound
  <2>3. SweepRow(s) = GraceStarted(sweep.rows[s])
    BY <1>6, SweepRowCases DEF SweepGrace
  <2>4. Wrote(s, sweep.rows[s], GraceStarted(sweep.rows[s])) /\ dunning' = dunning
    BY <1>6, <2>3, AloneWrites DEF SweepGrace
  <2> QED BY <1>4, <1>6, <2>1, <2>2, <2>4 DEF SweepGrace
<1>7. ASSUME NEW s \in Subs, SweepRenew(s) PROVE Serial'
  <2> DEFINE new == Renewed(sub[s], sweep.at, Overdue(s))
  <2>1. /\ s \in sweep.todo /\ sweep.pass # 0 /\ sweep.rows[s] = sub[s]
        /\ CanRenew(sub[s], sweep.at, Overdue(s))
        /\ Wrote(s, sweep.rows[s], new) /\ dunning' = dunning
    BY <1>7, SweepRenewsRow
  <2>2. sub[s].state \in RenewableStates
    BY <2>1 DEF CanRenew
  <2>3. new \in Row /\ Sound(new)
    BY <1>0, <2>2, RenewedType
  <2> HIDE DEF new
  <2> QED BY <1>4, <1>7, <2>1, <2>3 DEF SweepRenew
<1>8. ASSUME NEW s \in Subs, SweepMark(s) PROVE Serial'
  <2> DEFINE new == IF sweep.pass = 4 THEN Expired(sweep.rows[s])
                    ELSE [sweep.rows[s] EXCEPT !.state = "expiring"]
  <2>1. new \in Row /\ Sound(new)
    BY <1>0, MarkedType, Values DEF Expired, Sound
  <2>2. /\ Wrote(s, sweep.rows[s], new) /\ s \in sweep.todo /\ sweep.pass # 0
        /\ dunning' = dunning
    BY <1>8, SweepMarksRow
  <2> HIDE DEF new
  <2> QED BY <1>4, <1>8, <2>1, <2>2 DEF SweepMark
<1>9. ASSUME NEW s \in Subs, SweepReadRenewal(s) PROVE Serial'
  <2>1. /\ s \in sweep.todo /\ First(s, sweep.todo) /\ sweep.rows[s] = sub[s]
        /\ sweep.pass = 2 /\ sweep.grace = 0
        /\ UNCHANGED <<sub, unflagged, flagged, request, dunning>>
    BY <1>0, <1>9 DEF SweepReadRenewal, First, Current, JobStep, tables, invoices, Serial,
                      JobsCurrent
  <2>2. GraceHasDeadline'
    BY <2>1 DEF Serial, GraceHasDeadline
  <2>3. CASE CanRenew(sub[s], sweep.at, Overdue(s))
    <3> DEFINE new == Renewed(sub[s], sweep.at, Overdue(s))
    <3>1. sweep' = [sweep EXCEPT !.rows[s] = sub[s], !.renewal = new]
      BY <1>9, <2>3 DEF SweepReadRenewal
    <3>2. /\ sweep'.rows = sweep.rows /\ sweep'.renewal = new /\ sweep'.pass = 2
          /\ sweep'.at = sweep.at /\ sweep'.todo = sweep.todo /\ sweep'.grace = 0
      <4>1. sweep.rows \in [Subs -> Row] /\ sweep.rows[s] = sub[s]
        BY <1>0, <2>1, JobFields
      <4> HIDE DEF new
      <4> QED BY <1>0, <2>1, <3>1, <4>1 DEF Job
    <3>3. Current(sweep)'
      BY <1>0, <2>1, <3>2 DEF Current
    <3>4. Overdue(s)' = Overdue(s)
      BY <2>1 DEF Overdue
    <3>5. Renewing'
      <4>1. /\ First(s, sweep'.todo) /\ CanRenew(sub'[s], sweep'.at, Overdue(s)')
            /\ sweep'.renewal = Renewed(sub'[s], sweep'.at, Overdue(s)')
        BY <2>1, <2>3, <3>2, <3>4
      <4> QED BY <3>2, <4>1 DEF Renewing
    <3> QED BY <1>1, <2>1, <2>2, <3>2, <3>3, <3>5
  <2>4. CASE ~CanRenew(sub[s], sweep.at, Overdue(s))
    <3>1. sweep' = Handled(sweep, s)
      BY <1>9, <2>4 DEF SweepReadRenewal
    <3>2. /\ sweep'.todo = sweep.todo \ {s} /\ sweep'.grace = 0
          /\ sweep'.pass = sweep.pass /\ sweep'.renewal = AbsentRow
          /\ \A t \in Subs \ {s} : sweep'.rows[t] = sweep.rows[t]
      <4>1. /\ Handled(sweep, s).todo = sweep.todo \ {s} /\ Handled(sweep, s).grace = 0
            /\ Handled(sweep, s).pass = sweep.pass /\ Handled(sweep, s).renewal = AbsentRow
            /\ \A t \in Subs \ {s} : Handled(sweep, s).rows[t] = sweep.rows[t]
        BY <1>0, HandledType
      <4> QED BY <3>1, <4>1
    <3>3. Current(sweep)' /\ Renewing'
      BY <1>0, <2>1, <3>2 DEF Current, Renewing
    <3> QED BY <1>1, <2>1, <2>2, <3>2, <3>3
  <2> QED BY <2>3, <2>4
<1> QED BY <1>2, <1>3, <1>5, <1>6, <1>7, <1>8, <1>9, AloneRuns DEF LifecycleJob

LEMMA DunningSerial ==
  ASSUME Serial, Typed', NoneOpen', ~Overlap, OverdueJob
  PROVE  Serial'
<1>0. /\ dunning \in Job /\ dunning.pass \in 0 .. 5 /\ dunning.at \in Int
      /\ dunning.todo \in SUBSET Subs
      /\ \A s \in Subs : sub[s] \in Row /\ Sound(sub[s]) /\ dunning.rows[s] \in Row
      /\ sub \in [Subs -> Row] /\ request \in [Requests -> Request]
  <2>1. TypeOK /\ dunning \in Job
    BY DEF Serial, Typed, TypeOK
  <2>2. \A s \in Subs : sub[s] \in Row /\ Sound(sub[s])
    BY SoundRows
  <2> QED BY <2>1, <2>2, JobFields DEF TypeOK
<1>1. ASSUME dunning.pass # 0, UNCHANGED <<request, sweep>>, GraceHasDeadline',
             Current(dunning)', dunning' = IdleJob \/ dunning'.pass = 2
      PROVE  Serial'
  <2>1. sweep = IdleJob /\ \A q \in Requests : request[q].stage = "idle"
    BY <1>0, <1>1, RequestFields DEF Serial, OneAtATime
  <2>2. OneAtATime' /\ RequestsCurrent' /\ JobsCurrent'
    BY <1>1, <2>1 DEF OneAtATime, RequestsCurrent, JobsCurrent, Current, Renewing, IdleJob
  <2> QED BY <1>1, <2>2 DEF Serial
<1>2. CASE DunningFlag
  <2>1. sweep = IdleJob /\ \A q \in Requests : request[q].stage = "idle"
    BY <1>2 DEF DunningFlag, MayStart, Quiet, Serial, OneAtATime
  <2>2. dunning'.pass = 1 /\ dunning'.grace = 0 /\ UNCHANGED <<sub, request, sweep>>
    BY <1>2 DEF DunningFlag, IdleJob, tables
  <2>3. OneAtATime' /\ RequestsCurrent' /\ JobsCurrent'
    BY <2>1, <2>2 DEF OneAtATime, RequestsCurrent, JobsCurrent, Current, Renewing, IdleJob
  <2> QED BY <2>2, <2>3 DEF Serial, GraceHasDeadline
<1>3. CASE DunningRead
  <2> DEFINE selected == {s \in dunning.todo : sub[s].state \in {"active", "expiring"}}
  <2>1. /\ dunning' = ReadPass(dunning, 2, dunning.at, selected)
        /\ UNCHANGED <<sub, request, sweep>> /\ dunning.pass # 0
    BY <1>3 DEF DunningRead, JobStep, tables
  <2>2. selected \subseteq Subs
    BY <1>0
  <2> HIDE DEF selected
  <2>3. Current(dunning)' /\ dunning'.pass = 2
    BY <2>1, <2>2 DEF Current, ReadPass
  <2>4. GraceHasDeadline'
    BY <2>1 DEF Serial, GraceHasDeadline
  <2> QED BY <1>1, <2>1, <2>3, <2>4
<1>4. CASE DunningEnd
  <2>1. Current(dunning)'
    BY <1>4 DEF DunningEnd, Current, IdleJob
  <2>2. GraceHasDeadline'
    BY <1>4 DEF DunningEnd, tables, Serial, GraceHasDeadline
  <2> QED BY <1>1, <1>4, <2>1, <2>2 DEF DunningEnd, JobStep
<1>5. ASSUME NEW s \in Subs, NEW new \in Row, s \in dunning.todo, dunning.pass = 2,
             Wrote(s, dunning.rows[s], new), Sound(new), JobStep, sweep' = sweep,
             \/ dunning' = Handled(dunning, s)
             \/ dunning' = EnteringGrace(dunning, s, new) /\ new.grace_period_ends_at # NoDate
      PROVE  Serial'
  <2>1. Current(dunning)
    BY <1>5 DEF Serial, JobsCurrent
  <2>2. GraceHasDeadline' /\ Current(dunning)'
    BY <1>0, <1>5, <2>1, JobWrites DEF Current
  <2>3. dunning'.pass = 2
    <3>1. Handled(dunning, s).pass = dunning.pass
      BY <1>0, HandledType
    <3>2. EnteringGrace(dunning, s, new).pass = dunning.pass
      BY <1>0 DEF EnteringGrace, Job
    <3> QED BY <1>5, <3>1, <3>2
  <2> QED BY <1>1, <1>5, <2>2, <2>3 DEF JobStep
<1>6. ASSUME NEW s \in Subs, DunningPastDue(s) PROVE Serial'
  <2> DEFINE r == dunning.rows[s]
             new == PastDue(r, dunning.at)
  <2>1. r \in Row /\ s \in dunning.todo /\ dunning.pass = 2 /\ DunningRow(s) = new
    BY <1>0, <1>6 DEF DunningPastDue, First, DunningRow
  <2>2. /\ new \in Row /\ Sound(new)
        /\ r.grace_period_days > 0 => new.grace_period_ends_at # NoDate
    <3> HIDE DEF r
    <3> QED BY <1>0, <2>1, PastDueType DEF Sound
  <2>3. /\ Wrote(s, r, new) /\ JobStep /\ sweep' = sweep
        /\ dunning' = IF r.grace_period_days > 0 THEN EnteringGrace(dunning, s, new)
                      ELSE Handled(dunning, s)
    BY <1>6, <2>1, AloneWrites DEF DunningPastDue
  <2> HIDE DEF new
  <2> QED BY <1>5, <2>1, <2>2, <2>3
<1>7. ASSUME NEW s \in Subs, DunningGrace(s) PROVE Serial'
  <2>1. dunning.grace # 0 /\ dunning.grace = s
    BY <1>7 DEF DunningGrace
  <2>2. Current(dunning) /\ dunning.pass # 0 /\ dunning.pass # 1
    BY <2>1 DEF Serial, JobsCurrent, OneAtATime, IdleJob
  <2>3. s \in dunning.todo /\ dunning.rows[s].grace_period_ends_at # NoDate
    BY <2>1, <2>2 DEF Current
  <2>4. GraceStarted(dunning.rows[s]) \in Row /\ Sound(GraceStarted(dunning.rows[s]))
    BY <1>0, <2>3, MarkedType, Values DEF GraceStarted, Sound
  <2>5. dunning.pass = 2
    BY <2>2 DEF Serial, JobsCurrent
  <2>6. Wrote(s, dunning.rows[s], GraceStarted(dunning.rows[s])) /\ sweep' = sweep
    BY <1>7, <2>1, AloneWrites DEF DunningGrace, DunningRow
  <2> QED BY <1>5, <1>7, <2>3, <2>4, <2>5, <2>6 DEF DunningGrace
<1> QED BY <1>2, <1>3, <1>4, <1>6, <1>7, AloneRuns DEF OverdueJob

LEMMA WorldSerial ==
  ASSUME Serial, Typed', NoneOpen', ~Overlap, World
  PROVE  Serial'
<1>1. CASE Tick \/ \E s \in Subs : InvoiceFallsDue(s)
  <2>1. UNCHANGED <<sub, request, sweep, dunning>> /\ Quiet
    BY <1>1 DEF Tick, InvoiceFallsDue, MayStart, tables
  <2>2. JobsCurrent'
    BY <2>1 DEF Serial, OneAtATime, Quiet, JobsCurrent, Current, Renewing, IdleJob
  <2> QED BY <2>1, <2>2 DEF Serial, GraceHasDeadline, OneAtATime, RequestsCurrent
<1>2. CASE ApiCrash
  <2>1. /\ UNCHANGED <<sub, unflagged, flagged, sweep, dunning>>
        /\ \A q \in Requests : request'[q].stage = "idle"
    BY <1>2 DEF ApiCrash, invoices, IdleRequest
  <2>2. OneAtATime' /\ RequestsCurrent'
    BY <2>1 DEF Serial, OneAtATime, RequestsCurrent
  <2>3. JobsCurrent'
    BY <2>1 DEF Serial, JobsCurrent, Current, Renewing, Overdue
  <2> QED BY <2>1, <2>2, <2>3 DEF Serial, GraceHasDeadline
<1>3. CASE WorkerCrash
  <2>1. UNCHANGED <<sub, request>> /\ sweep' = IdleJob /\ dunning' = IdleJob
    BY <1>3 DEF WorkerCrash
  <2>2. OneAtATime' /\ RequestsCurrent'
    BY <2>1 DEF Serial, OneAtATime, RequestsCurrent, IdleJob
  <2>3. JobsCurrent'
    BY <2>1 DEF JobsCurrent, Current, Renewing, IdleJob
  <2> QED BY <2>1, <2>2, <2>3 DEF Serial, GraceHasDeadline
<1> QED BY <1>1, <1>2, <1>3 DEF World

LEMMA SerialNext ==
  ASSUME ~Overlap
  PROVE  Serial /\ [Next]_vars => Serial'
<1> SUFFICES ASSUME Serial, [Next]_vars PROVE Serial'
  OBVIOUS
<1>0. Typed' /\ NoneOpen'
  BY TypedNext, NoneOpenNext DEF Serial
<1>1. CASE UNCHANGED vars
  BY <1>0, <1>1
    DEF vars, Serial, GraceHasDeadline, OneAtATime, RequestsCurrent, JobsCurrent, Current,
        Renewing, Overdue
<1>2. CASE Next
  BY <1>0, <1>2, ServeSerial, SweepSerial, DunningSerial, WorldSerial DEF Next
<1> QED BY <1>1, <1>2

(* One operation at a time, every grace period has a deadline, whatever    *)
(* requests and jobs come in whatever order and wherever a process is lost *)
(* between the two writes of a lapse.  Pass 4 of the sweep relies on it:   *)
(* it looks for a deadline that has been reached.                          *)
THEOREM GraceCorrect == ~Overlap => (Spec => []GraceHasDeadline)
<1> SUFFICES ASSUME ~Overlap PROVE Spec => []GraceHasDeadline
  OBVIOUS
<1>1. Init => Serial
  BY SerialInit
<1>2. Serial /\ [Next]_vars => Serial'
  BY SerialNext
<1>3. Serial => GraceHasDeadline
  BY DEF Serial
<1> QED BY <1>1, <1>2, <1>3, PTL DEF Spec

-----------------------------------------------------------------------------
(* The school's state, with operations and transactions interleaved as     *)
(* they like.  A transaction that has missed nothing has found the state   *)
(* the school is to have: whoever committed beside it left the state       *)
(* columns as they were.  One that has missed something has done so        *)
(* because another row was written, so that there are two.                 *)

Agrees == ~skewed => schoolState = Governing(sub)

Foreseen ==
  \A a \in Actors :
    open[a].row # 0 /\ ~open[a].missed
      => open[a].to = Governing([sub EXCEPT ![open[a].row] = open[a].write])

Present ==
  /\ skewed => \E s, t \in Subs : s # t /\ Exists(s) /\ Exists(t)
  /\ \A a \in Actors :
       open[a].row # 0 =>
         /\ open[a].write.state # "absent"
         /\ open[a].missed => \E t \in Subs : Exists(t) /\ t # open[a].row

TablesAgree == Agrees /\ Foreseen /\ Present

(* What handlers and jobs have in hand are rows that exist, and a write    *)
(* that does not refresh the school's state leaves the state column as it  *)
(* was read, so that Saved() leaves it as the table has it.                *)
RequestsHeld ==
  \A q \in Requests :
    request[q].stage = "write" =>
      /\ request[q].new.state # "absent"
      /\ request[q].id # 0 => Exists(request[q].id)
      /\ request[q].id # 0 /\ ~request[q].sync => request[q].new.state = request[q].read.state

JobsHeld ==
  /\ \A s \in sweep.todo : Exists(s)
  /\ sweep.grace # 0 => Exists(sweep.grace)
  /\ sweep.renewal # AbsentRow => sweep.renewal.state # "absent"
  /\ dunning.pass = 2 => \A s \in dunning.todo : Exists(s)
  /\ dunning.grace # 0 => Exists(dunning.grace)

Synced == Typed /\ TablesAgree /\ RequestsHeld /\ JobsHeld

(* No row vanishes.                                                        *)
Remain == \A s \in Subs : Exists(s) => Exists(s)'

(* Which subscription governs, and its state, follow from the states.      *)
LEMMA GoverningByState ==
  ASSUME NEW a, NEW b, \A s \in Subs : a[s].state = b[s].state
  PROVE  Governing(a) = Governing(b)
<1> DEFINE usable(t) == {s \in Subs : t[s].state \in UsableStates}
           held(t) == {s \in Subs : t[s].state # "absent"}
<1>1. usable(a) = usable(b) /\ held(a) = held(b)
  OBVIOUS
<1>2. usable(a) # {} => NewestOf(usable(a)) \in Subs
  BY NewestIsHeld
<1>3. held(a) # {} => NewestOf(held(a)) \in Subs
  BY NewestIsHeld
<1>4. \A t : Governing(t) = IF usable(t) # {} THEN t[NewestOf(usable(t))].state
                           ELSE IF held(t) # {} THEN t[NewestOf(held(t))].state
                           ELSE "absent"
  BY DEF Governing
<1> HIDE DEF usable, held
<1> QED BY <1>1, <1>2, <1>3, <1>4

LEMMA SyncedInit == Init => Synced
<1> SUFFICES ASSUME Init PROVE Synced
  OBVIOUS
<1>1. Governing(sub) = "absent"
  BY DEF Init, Governing, AbsentRow, UsableStates
<1>2. Agrees
  BY <1>1 DEF Init, Agrees
<1>3. Foreseen /\ Present
  BY DEF Init, Foreseen, Present, NoTransaction
<1>4. RequestsHeld /\ JobsHeld
  BY DEF Init, RequestsHeld, JobsHeld, IdleRequest, IdleJob
<1> QED BY <1>2, <1>3, <1>4, TypedInit DEF Synced, TablesAgree

LEMMA SavedPresent ==
  ASSUME NEW row, NEW read, NEW new, row.state # "absent", new.state # "absent"
  PROVE  Saved(row, read, new).state # "absent"
BY DEF Saved

(* A transaction commits: the others either saw what it did to the state   *)
(* columns or have missed it, and its row exists.                          *)
LEMMA StoreAgrees ==
  ASSUME TypeOK, TablesAgree, NEW a \in Actors, NEW s \in Subs, NEW row \in Row,
         row.state # "absent", Store(a, s, row)
  PROVE  TablesAgree' /\ Remain
<1> DEFINE txn == IF open[a].row = 0 THEN Begun(s, row) ELSE open[a]
<1>1. /\ txn.row \in Subs /\ txn.write \in Row /\ txn.write.state # "absent"
      /\ ~txn.missed => txn.to = Governing([sub EXCEPT ![txn.row] = txn.write])
      /\ txn.missed => \E t \in Subs : Exists(t) /\ t # txn.row
  <2>1. CASE open[a].row = 0
    <3>1. txn = [row |-> s, write |-> row, to |-> Governing([sub EXCEPT ![s] = row]),
                 missed |-> FALSE]
      BY <2>1 DEF Begun
    <3> HIDE DEF txn
    <3> QED BY <3>1
  <2>2. CASE open[a].row # 0
    <3>1. txn = open[a] /\ open[a] \in Transaction
      BY <2>2 DEF TypeOK
    <3> HIDE DEF txn
    <3> QED BY <2>2, <3>1, TransactionFields DEF TablesAgree, Foreseen, Present
  <2> QED BY <2>1, <2>2
<1>2. FinishTransaction(a, txn)
  BY DEF Store
<1> HIDE DEF txn
<1>3. /\ sub' = [sub EXCEPT ![txn.row] = txn.write] /\ sub \in [Subs -> Row]
      /\ schoolState' = txn.to /\ skewed' = txn.missed
      /\ \A b \in Actors \ {a} : open[b].row # txn.row
  BY <1>2 DEF FinishTransaction, RowFree, TypeOK
<1>4. Remain /\ sub'[txn.row].state # "absent"
  BY <1>1, <1>3 DEF Remain, Exists
<1>5. Agrees'
  BY <1>1, <1>3 DEF Agrees
<1>6. ASSUME NEW b \in Actors, open'[b].row # 0
      PROVE  /\ b # a /\ open[b].row # 0 /\ open'[b].row = open[b].row
             /\ open'[b].write = open[b].write /\ open'[b].to = open[b].to
             /\ ~open'[b].missed => ~open[b].missed /\ txn.write.state = sub[txn.row].state
  <2>1. b # a /\ open[b].row # 0
    BY <1>2, <1>6 DEF FinishTransaction, NoTransaction
  <2>2. open[b] \in Transaction
    BY DEF TypeOK
  <2>3. open'[b] = [open[b] EXCEPT !.missed = @ \/ txn.write.state # sub[txn.row].state]
    BY <1>2, <2>1 DEF FinishTransaction
  <2>4. /\ open'[b].row = open[b].row /\ open'[b].write = open[b].write
        /\ open'[b].to = open[b].to
    BY <2>2, <2>3 DEF Transaction
  <2>5. open'[b].missed = (open[b].missed \/ txn.write.state # sub[txn.row].state)
    BY <2>2, <2>3 DEF Transaction
  <2> QED BY <2>1, <2>4, <2>5
<1>7. Foreseen'
  <2> SUFFICES ASSUME NEW b \in Actors, open'[b].row # 0, ~open'[b].missed
               PROVE  open'[b].to = Governing([sub' EXCEPT ![open'[b].row] = open'[b].write])
    BY DEF Foreseen
  <2> DEFINE before == [sub EXCEPT ![open[b].row] = open[b].write]
             after == [sub' EXCEPT ![open'[b].row] = open'[b].write]
  <2>1. open[b].to = Governing(before)
    BY <1>6 DEF TablesAgree, Foreseen
  <2>2. \A t \in Subs : before[t].state = after[t].state
    <3>1. txn.write.state = sub[txn.row].state
      BY <1>6
    <3> QED BY <1>1, <1>3, <1>6, <3>1
  <2> HIDE DEF before, after
  <2>3. Governing(before) = Governing(after)
    BY <2>2, GoverningByState
  <2> QED BY <1>6, <2>1, <2>3 DEF after
<1>8. Present'
  <2>1. \A b \in Actors : open'[b].row # 0 =>
          /\ open'[b].write.state # "absent"
          /\ open'[b].missed => \E t \in Subs : Exists(t)' /\ t # open'[b].row
    <3> SUFFICES ASSUME NEW b \in Actors, open'[b].row # 0
                 PROVE  /\ open'[b].write.state # "absent"
                        /\ open'[b].missed => \E t \in Subs : Exists(t)' /\ t # open'[b].row
      OBVIOUS
    <3>1. open[b].row # 0 /\ open'[b].row = open[b].row /\ open'[b].write = open[b].write
      BY <1>6
    <3>2. CASE open[b].missed
      BY <1>4, <3>1, <3>2 DEF TablesAgree, Present, Remain
    <3>3. CASE ~open[b].missed
      <4>1. b # a /\ txn.row # open[b].row
        BY <1>3, <1>6
      <4> QED BY <1>1, <1>4, <3>1, <4>1 DEF TablesAgree, Present, Exists
    <3> QED BY <3>2, <3>3
  <2>2. skewed' => \E r, t \in Subs : r # t /\ Exists(r)' /\ Exists(t)'
    BY <1>1, <1>3, <1>4 DEF Remain, Exists
  <2> QED BY <2>1, <2>2 DEF Present
<1> QED BY <1>4, <1>5, <1>7, <1>8 DEF TablesAgree

LEMMA BeginAgrees ==
  ASSUME TypeOK, TablesAgree, NEW a \in Actors, NEW s \in Subs, NEW row,
         row.state # "absent", Begin(a, s, row)
  PROVE  TablesAgree' /\ Remain
<1>1. /\ open' = [open EXCEPT ![a] = Begun(s, row)] /\ sub' = sub
      /\ schoolState' = schoolState /\ skewed' = skewed /\ open \in [Actors -> Transaction]
  BY DEF Begin, TypeOK
<1>2. /\ open'[a] = [row |-> s, write |-> row, to |-> Governing([sub EXCEPT ![s] = row]),
                     missed |-> FALSE]
      /\ \A b \in Actors \ {a} : open'[b] = open[b]
  BY <1>1 DEF Begun
<1>3. Foreseen'
  <2> SUFFICES ASSUME NEW b \in Actors, open'[b].row # 0, ~open'[b].missed
               PROVE  open'[b].to = Governing([sub EXCEPT ![open'[b].row] = open'[b].write])
    BY <1>1 DEF Foreseen
  <2>1. CASE b = a
    <3> DEFINE to == Governing([sub EXCEPT ![s] = row])
    <3>1. open'[b] = [row |-> s, write |-> row, to |-> to, missed |-> FALSE]
      BY <1>2, <2>1
    <3>2. open'[b].row = s /\ open'[b].write = row /\ open'[b].to = to
      <4> HIDE DEF to
      <4> QED BY <3>1
    <3> QED BY <3>2
  <2>2. CASE b # a
    BY <1>2, <2>2 DEF TablesAgree, Foreseen
  <2> QED BY <2>1, <2>2
<1>4. Present'
  BY <1>1, <1>2 DEF TablesAgree, Present, Exists
<1> QED BY <1>1, <1>3, <1>4 DEF TablesAgree, Agrees, Remain, Exists

(* Transactions that are rolled back leave the tables as they are.         *)
LEMMA DropAgrees ==
  ASSUME TypeOK, TablesAgree, UNCHANGED <<sub, schoolState, skewed>>,
         \A a \in Actors : open'[a] = open[a] \/ open'[a] = NoTransaction
  PROVE  TablesAgree' /\ Remain
<1>1. NoTransaction.row = 0
  BY DEF NoTransaction
<1>2. Foreseen' /\ Present'
  BY <1>1 DEF TablesAgree, Foreseen, Present, Exists
<1> QED BY <1>2 DEF TablesAgree, Agrees, Remain, Exists

LEMMA RolledBackAgrees ==
  ASSUME TypeOK, TablesAgree, NEW a \in Actors, RolledBack(a)
  PROVE  TablesAgree' /\ Remain
<1>1. \A b \in Actors : open'[b] = open[b] \/ open'[b] = NoTransaction
  BY DEF RolledBack, TypeOK
<1> QED BY <1>1, DropAgrees DEF RolledBack

(* A write that leaves the state columns as they are.                      *)
LEMMA EditAgrees ==
  ASSUME TypeOK, TypeOK', TablesAgree, UNCHANGED <<schoolState, open, skewed>>,
         \A s \in Subs : sub'[s].state = sub[s].state
  PROVE  TablesAgree' /\ Remain
<1>1. Governing(sub') = Governing(sub)
  BY GoverningByState
<1>2. ASSUME NEW a \in Actors, open[a].row # 0
      PROVE  Governing([sub' EXCEPT ![open[a].row] = open[a].write])
               = Governing([sub EXCEPT ![open[a].row] = open[a].write])
  <2> DEFINE before == [sub EXCEPT ![open[a].row] = open[a].write]
             after == [sub' EXCEPT ![open[a].row] = open[a].write]
  <2>1. \A t \in Subs : after[t].state = before[t].state
    BY DEF TypeOK
  <2> HIDE DEF before, after
  <2>2. Governing(after) = Governing(before)
    BY <2>1, GoverningByState
  <2> QED BY <2>2 DEF before, after
<1>3. Foreseen'
  BY <1>2 DEF TablesAgree, Foreseen
<1>4. Present' /\ Remain
  BY DEF TablesAgree, Present, Remain, Exists
<1> QED BY <1>1, <1>3, <1>4 DEF TablesAgree, Agrees

LEMMA RenewedPresent ==
  ASSUME NEW r \in Row, NEW at \in Int, NEW overdue \in Nat, r.state \in RenewableStates
  PROVE  Renewed(r, at, overdue).state # "absent"
BY RenewedType DEF RenewedState, RenewableStates

LEMMA HoldKeepsHeld ==
  ASSUME Synced, NEW q \in Requests, NEW s \in Subs, NEW new, NEW sync \in BOOLEAN,
         Hold(q, s, new, sync), ReadOnly, Exists(s), new.state # "absent",
         sync \/ new.state = sub[s].state
  PROVE  RequestsHeld'
<1>1. request'[q] = [stage |-> "write", id |-> s, read |-> sub[s], new |-> new, sync |-> sync]
  BY DEF Hold, Synced, Typed, TypeOK
<1>2. \A p \in Requests \ {q} : request'[p] = request[p]
  BY DEF Hold, Synced, Typed, TypeOK
<1>3. sub' = sub
  BY DEF ReadOnly, tables
<1> QED BY <1>1, <1>2, <1>3 DEF RequestsHeld, Synced, Exists

LEMMA IdleKeepsHeld ==
  ASSUME Synced, Remain, NEW q \in Requests, NEW held,
         held.stage = "write" => held.id = 0 /\ held.new.state # "absent",
         request' = [request EXCEPT ![q] = held]
  PROVE  RequestsHeld'
<1>1. /\ request'[q] = held
      /\ \A p \in Requests \ {q} : request'[p] = request[p] /\ request[p] \in Request
  BY DEF Synced, Typed, TypeOK
<1>2. \A p \in Requests \ {q} : request[p].id # 0 => request[p].id \in Subs
  BY <1>1, RequestFields
<1> QED BY <1>1, <1>2 DEF RequestsHeld, Synced, Remain

LEMMA ServeSynced ==
  ASSUME Synced, Typed', NEW q \in Requests, Serve(q)
  PROVE  TablesAgree' /\ RequestsHeld' /\ Remain
<1> DEFINE Goal == TablesAgree' /\ RequestsHeld' /\ Remain
<1> HIDE DEF Goal
<1> SUFFICES Goal
  BY DEF Goal
<1>0. /\ now \in Int /\ sub \in [Subs -> Row] /\ request[q] \in Request /\ q \in Actors
      /\ request \in [Requests -> Request] /\ TypeOK /\ TypeOK' /\ TablesAgree
      /\ \A s \in Subs : sub[s] \in Row /\ Overdue(s) \in Nat
  <2>1. TypeOK /\ TypeOK' /\ TablesAgree
    BY DEF Synced, Typed
  <2> QED BY <2>1, ColumnTypes DEF TypeOK
<1>a. ReadOnly \/ UNCHANGED tables => TablesAgree' /\ Remain
  <2>1. ReadOnly \/ UNCHANGED tables => UNCHANGED <<schoolState, open, skewed, sub>>
    BY DEF ReadOnly, tables
  <2> QED BY <1>0, <2>1, EditAgrees
<1>b. IdleRequest.stage # "write"
  BY DEF IdleRequest
<1>c. ASSUME NEW s \in Subs, NEW new, NEW sync \in BOOLEAN, Hold(q, s, new, sync), ReadOnly,
             Exists(s), new.state # "absent", sync \/ new.state = sub[s].state
      PROVE  Goal
  BY <1>a, <1>c, HoldKeepsHeld DEF Goal
<1>1. CASE ReadCreate(q)
  <2>1. PICK plan \in Plans, cycle \in Cycles, start \in StartOffsets,
             trial \in TrialDays, grace \in GraceDays, auto \in RenewalModes :
          request' = [request EXCEPT ![q] =
            [stage |-> "write", id |-> 0, read |-> AbsentRow, sync |-> TRUE,
             new |-> NewRow(plan, cycle, now + start, trial, grace, auto)]]
    BY <1>1 DEF ReadCreate
  <2> DEFINE new == NewRow(plan, cycle, now + start, trial, grace, auto)
  <2>2. now + start \in Int /\ trial \in Nat /\ grace \in Nat /\ auto \in BOOLEAN
    BY <1>0
  <2>3. new.state # "absent"
    BY <2>2, NewRowType
  <2> HIDE DEF new
  <2>4. request' = [request EXCEPT ![q] =
            [stage |-> "write", id |-> 0, read |-> AbsentRow, sync |-> TRUE, new |-> new]]
    BY <2>1 DEF new
  <2>5. ReadOnly
    BY <1>1 DEF ReadCreate
  <2> QED BY <1>a, <2>3, <2>4, <2>5, IdleKeepsHeld DEF Goal
<1>2. CASE Insert(q)
  <2>1. request[q].new \in Row /\ request[q].new.state # "absent"
    BY <1>0, <1>2, RequestFields DEF Insert, Synced, RequestsHeld
  <2>2. TablesAgree' /\ Remain
    BY <1>0, <1>2, <2>1, StoreAgrees DEF Insert
  <2> QED BY <1>2, <1>b, <2>2, IdleKeepsHeld DEF Insert, Goal
<1>3. CASE Write(q)
  <2> DEFINE s == request[q].id
             row == Saved(sub[s], request[q].read, request[q].new)
  <2>1. /\ s \in Subs /\ request[q].new \in Row /\ request[q].read \in Row /\ Exists(s)
        /\ request[q].new.state # "absent"
        /\ ~request[q].sync => request[q].new.state = request[q].read.state
    BY <1>0, <1>3, RequestFields DEF Write, Synced, RequestsHeld
  <2>2. row \in Row /\ row.state # "absent"
    BY <1>0, <2>1, SavedType, SavedPresent DEF Exists
  <2>3. CASE request[q].sync
    <3>1. Store(q, s, row)
      BY <1>3, <2>3 DEF Write
    <3> HIDE DEF row
    <3>2. TablesAgree' /\ Remain
      BY <1>0, <2>1, <2>2, <3>1, StoreAgrees
    <3> QED BY <1>3, <1>b, <3>2, IdleKeepsHeld DEF Write, Goal
  <2>4. CASE ~request[q].sync
    <3>1. row.state = sub[s].state
      BY <2>1, <2>4 DEF Saved
    <3>2. sub' = [sub EXCEPT ![s] = row] /\ UNCHANGED <<schoolState, open, skewed>>
      BY <1>3, <2>4 DEF Write
    <3> HIDE DEF row
    <3>3. \A t \in Subs : sub'[t].state = sub[t].state
      BY <1>0, <2>1, <3>1, <3>2
    <3>4. TablesAgree' /\ Remain
      BY <1>0, <3>2, <3>3, EditAgrees
    <3> QED BY <1>3, <1>b, <3>4, IdleKeepsHeld DEF Write, Goal
  <2> QED BY <2>3, <2>4
<1>4. CASE FollowSettlement(q)
  <2> DEFINE s == request[q].id
             r == sub[s]
             action == IF r.state \in {"pending", "trial"} THEN "activate" ELSE "reactivate"
  <2>1. s \in Subs /\ action \in Actions /\ ReadOnly
    BY <1>0, <1>4, RequestFields DEF FollowSettlement, Synced, Typed, SettleIds, Actions
  <2>2. CASE CanSettle(r, now, Overdue(s))
    <3>1. Hold(q, s, Settled(r), TRUE) /\ Exists(s)
      BY <1>4, <2>2 DEF FollowSettlement, CanSettle, Exists
    <3>2. Settled(r).state # "absent"
      BY <1>0, <2>1, SettledType
    <3> QED BY <1>c, <2>1, <3>1, <3>2
  <2>3. CASE ~CanSettle(r, now, Overdue(s)) /\ r.state \in {"pending", "trial", "expired"}
    <3>1. Hold(q, s, Transitioned(r, action, now), TRUE) /\ Exists(s)
      BY <1>4, <2>3 DEF FollowSettlement, Exists
    <3>2. Transitioned(r, action, now).state # "absent"
      <4> HIDE DEF action
      <4> QED BY <1>0, <2>1, TransitionedType
    <3> HIDE DEF action
    <3> QED BY <1>c, <2>1, <3>1, <3>2
  <2>4. CASE request' = [request EXCEPT ![q] = IdleRequest]
    BY <1>a, <1>b, <2>1, <2>4, IdleKeepsHeld DEF Goal
  <2> QED BY <1>4, <2>2, <2>3, <2>4 DEF FollowSettlement
<1>5. ASSUME NEW s \in Subs, ReadUpdate(q, s) PROVE Goal
  <2>1. PICK new : Hold(q, s, new, FALSE) /\ new.state = sub[s].state
    <3>2. \A days \in TrialDays : WithTrialDays(sub[s], days).state = sub[s].state
      BY <1>0 DEF WithTrialDays, Row
    <3>3. \A days \in GraceDays : [sub[s] EXCEPT !.grace_period_days = days].state = sub[s].state
      BY <1>0 DEF Row
    <3>4. \A auto \in RenewalModes : [sub[s] EXCEPT !.automatic = auto].state = sub[s].state
      BY <1>0 DEF Row
    <3> QED BY <1>5, <3>2, <3>3, <3>4 DEF ReadUpdate
  <2>2. ReadOnly /\ Exists(s) /\ new.state # "absent"
    BY <1>5, <2>1 DEF ReadUpdate, Exists
  <2> QED BY <1>c, <2>1, <2>2
<1>6. ASSUME NEW s \in Subs, ReadRenew(q, s) PROVE Goal
  <2>1. /\ sub[s].state \in RenewableStates /\ ReadOnly
        /\ Hold(q, s, Renewed(sub[s], now, Overdue(s)), TRUE)
    BY <1>6 DEF ReadRenew, CanRenew
  <2>2. Renewed(sub[s], now, Overdue(s)).state # "absent"
    BY <1>0, <2>1, RenewedPresent
  <2>3. Exists(s)
    BY <2>1 DEF RenewableStates, Exists
  <2> QED BY <1>c, <2>1, <2>2, <2>3
<1>7. ASSUME NEW s \in Subs, Pay(q, s) PROVE Goal
  <2>1. [IdleRequest EXCEPT !.stage = "settle", !.id = s].stage # "write"
    BY DEF IdleRequest
  <2> QED BY <1>7, <1>a, <2>1, IdleKeepsHeld DEF Pay, Goal
<1>8. ASSUME NEW s \in Subs, NEW action \in Actions, ReadTransition(q, s, action) PROVE Goal
  <2>1. Exists(s)
    <3>1. "absent" \notin TransitionFrom(action)
      BY DEF Actions, TransitionFrom, OpenStates, UsableStates
    <3> QED BY <1>8, <3>1 DEF ReadTransition, CanTransition, Exists
  <2>2. Transitioned(sub[s], action, now).state # "absent"
    BY <1>0, TransitionedType
  <2> QED BY <1>8, <1>c, <2>1, <2>2 DEF ReadTransition
<1>9. ASSUME NEW s \in Subs, NEW plan \in Plans, NEW cycle \in Cycles,
             ReadChangePlan(q, s, plan, cycle)
      PROVE  Goal
  <2>1. sub[s].state \in UsableStates /\ ReadOnly
    BY <1>9 DEF ReadChangePlan, CanDefer, CanChangePlan
  <2>2. /\ PlanChanged(sub[s], plan, cycle).state = sub[s].state
        /\ DowngradeScheduled(sub[s], plan, cycle).state = sub[s].state
    BY <1>0, PlanChangedType, DowngradeScheduledType
  <2>3. Exists(s)
    BY <2>1 DEF UsableStates, Exists
  <2> QED BY <1>9, <1>c, <2>1, <2>2, <2>3 DEF ReadChangePlan, Exists
<1>10. CASE WriteBegins(q)
  <2>0. PICK s \in Subs :
          \E row : /\ Begin(q, s, row)
                   /\ \/ row = request[q].new
                      \/ /\ s = request[q].id
                         /\ row = Saved(sub[s], request[q].read, request[q].new)
    BY <1>10 DEF WriteBegins
  <2>1. PICK row : /\ Begin(q, s, row)
                   /\ \/ row = request[q].new
                      \/ /\ s = request[q].id
                         /\ row = Saved(sub[s], request[q].read, request[q].new)
    BY <2>0
  <2>2. row.state # "absent"
    <3>1. /\ request[q].new.state # "absent"
          /\ s = request[q].id => sub[s].state # "absent"
      BY <1>10 DEF WriteBegins, Synced, RequestsHeld, Exists
    <3> QED BY <2>1, <3>1, SavedPresent
  <2>3. TablesAgree' /\ Remain
    BY <1>0, <2>1, <2>2, BeginAgrees
  <2> QED BY <1>10, <2>3 DEF WriteBegins, Begin, Synced, RequestsHeld, Exists, Goal
<1>11. CASE RequestRolledBack(q)
  <2>1. TablesAgree' /\ Remain
    BY <1>0, <1>11, RolledBackAgrees DEF RequestRolledBack
  <2> QED BY <1>11, <1>b, <2>1, IdleKeepsHeld DEF RequestRolledBack, Goal
<1> QED BY <1>1, <1>2, <1>3, <1>4, <1>5, <1>6, <1>7, <1>8, <1>9, <1>10, <1>11 DEF Serve

(* What a job holds stays held while others write.                         *)
LEMMA JobsKeepHeld ==
  ASSUME Synced, Remain, UNCHANGED <<sweep, dunning>>
  PROVE  JobsHeld'
<1>1. /\ sweep.todo \in SUBSET Subs /\ (sweep.grace # 0 => sweep.grace \in Subs)
      /\ dunning.todo \in SUBSET Subs /\ (dunning.grace # 0 => dunning.grace \in Subs)
  BY JobFields DEF Synced, Typed, TypeOK
<1> QED BY <1>1 DEF Synced, JobsHeld, Remain, Exists

LEMMA RequestsKeepHeld ==
  ASSUME Synced, Remain, UNCHANGED request
  PROVE  RequestsHeld'
<1>1. \A q \in Requests : request[q].id # 0 => request[q].id \in Subs
  BY RequestFields DEF Synced, Typed, TypeOK
<1> QED BY <1>1 DEF Synced, RequestsHeld, Remain

LEMMA SweepSynced ==
  ASSUME Synced, LifecycleJob
  PROVE  TablesAgree' /\ JobsHeld' /\ Remain
<1>0. /\ sweep \in Job /\ TypeOK /\ Typed /\ TablesAgree /\ "sweep" \in Actors
      /\ sweep.todo \in SUBSET Subs /\ sweep.at \in Int /\ sweep.pass \in 0 .. 5
      /\ sweep.grace # 0 => sweep.grace \in Subs
      /\ dunning.todo \in SUBSET Subs /\ (dunning.grace # 0 => dunning.grace \in Subs)
      /\ \A s \in Subs : sub[s] \in Row /\ sweep.rows[s] \in Row /\ Overdue(s) \in Nat
  <2>1. TypeOK /\ Typed /\ TablesAgree
    BY DEF Synced, Typed
  <2> QED BY <2>1, ColumnTypes, JobFields
<1>a. UNCHANGED tables => TablesAgree' /\ Remain
  <2>1. UNCHANGED tables => \A a \in Actors : open'[a] = open[a] \/ open'[a] = NoTransaction
    BY DEF tables
  <2> QED BY <1>0, <2>1, DropAgrees DEF tables
<1>b. ASSUME NEW s \in Subs, s \in sweep.todo \/ sweep.grace = s,
             sweep.pass = 2 => sweep.renewal # AbsentRow
      PROVE  /\ Saved(sub[s], sweep.rows[s], SweepRow(s)) \in Row
             /\ Saved(sub[s], sweep.rows[s], SweepRow(s)).state # "absent"
  <2>1. SweepRow(s) \in Row /\ Exists(s)
    BY <1>0, <1>b, SweepRowType DEF Synced, JobsHeld
  <2>2. SweepRow(s).state # "absent"
    <3> DEFINE r == sweep.rows[s]
    <3>1. r \in Row
      BY <1>0
    <3>2. sweep.grace # s /\ sweep.pass = 1 => r.trial_ends_at # NoDate
      BY <1>0, <1>b DEF Typed, TrialRows
    <3>3. sweep.pass = 2 => sweep.renewal.state # "absent"
      BY <1>b DEF Synced, JobsHeld
    <3> HIDE DEF r
    <3>4. /\ GraceStarted(r).state # "absent" /\ PastDue(r, sweep.at).state # "absent"
          /\ Expired(r).state # "absent" /\ [r EXCEPT !.state = "expiring"].state # "absent"
      BY <1>0, <3>1, MarkedType, PastDueType, Values DEF GraceStarted, Expired
    <3>5. sweep.grace # s /\ sweep.pass = 1 => TrialEnded(r, sweep.at).state # "absent"
      BY <1>0, <3>1, <3>2, TrialEndedType
    <3>6. sweep.pass \in 0 .. 5
      BY <1>0
    <3>7. CASE sweep.grace = s
      BY <3>4, <3>7, SweepRowCases DEF r
    <3>8. CASE sweep.grace # s /\ sweep.pass = 1
      BY <3>5, <3>8, SweepRowCases DEF r
    <3>9. CASE sweep.grace # s /\ sweep.pass = 2
      BY <3>3, <3>9, SweepRowCases
    <3>10. CASE sweep.grace # s /\ sweep.pass \notin {1, 2}
      <4>1. \/ SweepRow(s) = PastDue(r, sweep.at)
            \/ SweepRow(s) = Expired(r)
            \/ SweepRow(s) = [r EXCEPT !.state = "expiring"]
        BY <3>10 DEF SweepRow, r
      <4> QED BY <3>4, <4>1
    <3> QED BY <3>6, <3>7, <3>8, <3>9, <3>10
  <2> QED BY <1>0, <2>1, <2>2, SavedType, SavedPresent DEF Exists
<1>c. ASSUME NEW s \in Subs, NEW new \in Row, TablesAgree' /\ Remain, dunning' = dunning,
             \/ sweep' = sweep
             \/ sweep' = Handled(sweep, s)
             \/ s \in sweep.todo /\ sweep' = EnteringGrace(sweep, s, new)
      PROVE  TablesAgree' /\ JobsHeld' /\ Remain
  <2>1. CASE sweep' = sweep
    BY <1>c, <2>1, JobsKeepHeld
  <2>2. CASE sweep' = Handled(sweep, s)
    <3>1. sweep'.todo = sweep.todo \ {s} /\ sweep'.grace = 0 /\ sweep'.renewal = AbsentRow
      BY <1>0, <2>2, HandledType
    <3> QED BY <1>0, <1>c, <3>1 DEF Synced, JobsHeld, Remain, Exists
  <2>3. CASE s \in sweep.todo /\ sweep' = EnteringGrace(sweep, s, new)
    <3>0. sweep \in Job /\ sweep' = EnteringGrace(sweep, s, new)
      BY <1>0, <2>3
    <3>1. sweep'.todo = sweep.todo /\ sweep'.grace = s /\ sweep'.renewal = sweep.renewal
      BY <3>0 DEF EnteringGrace, Job
    <3> QED BY <1>0, <1>c, <2>3, <3>1 DEF Synced, JobsHeld, Remain, Exists
  <2> QED BY <1>c, <2>1, <2>2, <2>3
<1>d. ASSUME NEW s \in Subs, SweepStore(s), s \in sweep.todo \/ sweep.grace = s,
             sweep.pass = 2 => sweep.renewal # AbsentRow
      PROVE  TablesAgree' /\ Remain /\ dunning' = dunning
  <2> DEFINE row == Saved(sub[s], sweep.rows[s], SweepRow(s))
  <2>1. row \in Row /\ row.state # "absent" /\ Store("sweep", s, row) /\ dunning' = dunning
    BY <1>b, <1>d DEF SweepStore
  <2> HIDE DEF row
  <2> QED BY <1>0, <2>1, StoreAgrees
<1>1. CASE SweepRead
  <2> DEFINE at == IF sweep.pass = 0 THEN now ELSE sweep.at
             pass == sweep.pass + 1
             selected == {s \in Subs : SelectedBy(pass, sub[s], at)}
  <2>1. sweep' = ReadPass(sweep, pass, at, selected) /\ UNCHANGED tables /\ dunning' = dunning
    BY <1>1 DEF SweepRead
  <2>2. \A s \in selected : Exists(s)
    <3>0. pass \in 1 .. 5
      BY <1>0, <1>1 DEF SweepRead
    <3>1. \A s \in Subs : SelectedBy(pass, sub[s], at) => sub[s].state # "absent"
      <4>1. \A s \in Subs : sub[s].state = "absent" =>
              ~TrialOver(sub[s], at) /\ ~DueForRenewal(sub[s], at) /\ ~PeriodOver(sub[s], at)
              /\ ~GraceOver(sub[s], at) /\ ~Approaching(sub[s], at)
        BY DEF TrialOver, DueForRenewal, PeriodOver, GraceOver, Approaching
      <4>2. pass \in {1, 2, 3, 4, 5}
        BY <3>0
      <4> HIDE DEF pass, at
      <4> QED BY <4>1, <4>2 DEF SelectedBy
    <3> QED BY <3>1 DEF Exists
  <2> HIDE DEF at, pass, selected
  <2>3. sweep'.todo = selected /\ sweep'.grace = 0 /\ sweep'.renewal = AbsentRow
    BY <2>1 DEF ReadPass
  <2>4. selected \subseteq Subs
    BY DEF selected
  <2> QED BY <1>0, <1>a, <2>1, <2>2, <2>3, <2>4 DEF Synced, JobsHeld, Remain, Exists
<1>2. CASE SweepEnd
  <2>1. UNCHANGED tables /\ dunning' = dunning /\ sweep' = IdleJob
    BY <1>2 DEF SweepEnd
  <2> QED BY <1>0, <1>a, <2>1 DEF IdleJob, Synced, JobsHeld, Remain, Exists
<1>3. ASSUME NEW s \in Subs, SweepPastDue(s) PROVE TablesAgree' /\ JobsHeld' /\ Remain
  <2>1. s \in sweep.todo /\ SweepStore(s) /\ sweep.pass # 2
    BY <1>3 DEF SweepPastDue, First
  <2>2. sweep' = EnteringGrace(sweep, s, SweepRow(s)) \/ sweep' = Handled(sweep, s)
    BY <1>3 DEF SweepPastDue
  <2>3. SweepRow(s) \in Row
    BY <1>0, <2>1, SweepRowType
  <2> QED BY <1>c, <1>d, <2>1, <2>2, <2>3
<1>4. ASSUME NEW s \in Subs, SweepRenew(s) \/ SweepMark(s)
      PROVE  TablesAgree' /\ JobsHeld' /\ Remain
  <2>1. /\ s \in sweep.todo /\ SweepStore(s) /\ sweep' = Handled(sweep, s)
        /\ sweep.pass = 2 => sweep.renewal # AbsentRow
    BY <1>4 DEF SweepRenew, SweepMark, First
  <2> QED BY <1>c, <1>d, <2>1, AbsentRowType
<1>5. ASSUME NEW s \in Subs, SweepGrace(s) PROVE TablesAgree' /\ JobsHeld' /\ Remain
  <2>1. sweep.grace = s /\ SweepStore(s) /\ sweep' = Handled(sweep, s)
    BY <1>5 DEF SweepGrace
  <2>2. Exists(s) /\ SweepRow(s) = GraceStarted(sweep.rows[s])
    BY <1>0, <2>1, SweepRowCases DEF Synced, JobsHeld
  <2> DEFINE row == Saved(sub[s], sweep.rows[s], SweepRow(s))
  <2>3. row \in Row /\ row.state # "absent"
    <3>1. SweepRow(s) \in Row /\ SweepRow(s).state # "absent"
      BY <1>0, <2>2, MarkedType, Values DEF GraceStarted
    <3> QED BY <1>0, <2>2, <3>1, SavedType, SavedPresent DEF Exists
  <2>4. Store("sweep", s, row) /\ dunning' = dunning
    BY <2>1 DEF SweepStore
  <2> HIDE DEF row
  <2>5. TablesAgree' /\ Remain
    BY <1>0, <2>3, <2>4, StoreAgrees
  <2> QED BY <1>c, <2>1, <2>4, <2>5, AbsentRowType
<1>6. ASSUME NEW s \in Subs, SweepReadRenewal(s) PROVE TablesAgree' /\ JobsHeld' /\ Remain
  <2>1. TablesAgree' /\ Remain /\ dunning' = dunning
    BY <1>6, <1>a DEF SweepReadRenewal
  <2>2. CASE CanRenew(sub[s], sweep.at, Overdue(s))
    <3> DEFINE new == Renewed(sub[s], sweep.at, Overdue(s))
    <3>1. new.state # "absent"
      BY <1>0, <2>2, RenewedPresent DEF CanRenew
    <3>2. sweep' = [sweep EXCEPT !.rows[s] = sub[s], !.renewal = new]
      BY <1>6, <2>2 DEF SweepReadRenewal
    <3> HIDE DEF new
    <3>3. sweep'.todo = sweep.todo /\ sweep'.grace = sweep.grace /\ sweep'.renewal = new
      BY <1>0, <3>2 DEF Job
    <3> QED BY <1>0, <2>1, <3>1, <3>3 DEF Synced, JobsHeld, Remain, Exists
  <2>3. CASE ~CanRenew(sub[s], sweep.at, Overdue(s))
    BY <1>6, <1>c, <2>1, <2>3, AbsentRowType DEF SweepReadRenewal
  <2> QED BY <2>2, <2>3
<1>7. ASSUME NEW s \in Subs, SweepBegins(s) PROVE TablesAgree' /\ JobsHeld' /\ Remain
  <2> DEFINE row == Saved(sub[s], sweep.rows[s], SweepRow(s))
  <2>1. row.state # "absent" /\ Begin("sweep", s, row) /\ UNCHANGED <<sweep, dunning>>
    BY <1>b, <1>7 DEF SweepBegins, First
  <2> HIDE DEF row
  <2>2. TablesAgree' /\ Remain
    BY <1>0, <2>1, BeginAgrees
  <2> QED BY <1>c, <2>1, <2>2, AbsentRowType
<1>8. ASSUME NEW s \in Subs, SweepRolledBack(s) PROVE TablesAgree' /\ JobsHeld' /\ Remain
  <2>1. RolledBack("sweep") /\ sweep' = Handled(sweep, s) /\ dunning' = dunning
    BY <1>8 DEF SweepRolledBack
  <2>2. TablesAgree' /\ Remain
    BY <1>0, <2>1, RolledBackAgrees
  <2> QED BY <1>c, <2>1, <2>2, AbsentRowType
<1> QED BY <1>1, <1>2, <1>3, <1>4, <1>5, <1>6, <1>7, <1>8 DEF LifecycleJob

LEMMA DunningSynced ==
  ASSUME Synced, OverdueJob
  PROVE  TablesAgree' /\ JobsHeld' /\ Remain
<1>0. /\ dunning \in Job /\ TypeOK /\ TablesAgree /\ "dunning" \in Actors
      /\ dunning.todo \in SUBSET Subs /\ (dunning.grace # 0 => dunning.grace \in Subs)
      /\ sweep.todo \in SUBSET Subs /\ (sweep.grace # 0 => sweep.grace \in Subs)
      /\ dunning.at \in Int
      /\ \A s \in Subs : sub[s] \in Row /\ dunning.rows[s] \in Row
  <2>1. TypeOK /\ TablesAgree
    BY DEF Synced, Typed
  <2> QED BY <2>1, ColumnTypes, JobFields
<1>a. UNCHANGED tables => TablesAgree' /\ Remain
  <2>1. UNCHANGED tables => \A a \in Actors : open'[a] = open[a] \/ open'[a] = NoTransaction
    BY DEF tables
  <2> QED BY <1>0, <2>1, DropAgrees DEF tables
<1>b. ASSUME NEW s \in Subs, (s \in dunning.todo /\ dunning.pass = 2) \/ dunning.grace = s
      PROVE  /\ Saved(sub[s], dunning.rows[s], DunningRow(s)) \in Row
             /\ Saved(sub[s], dunning.rows[s], DunningRow(s)).state # "absent"
  <2>1. DunningRow(s) \in Row /\ Exists(s)
    BY <1>0, <1>b, DunningRowType DEF Synced, JobsHeld
  <2>2. DunningRow(s).state # "absent"
    BY <1>0, MarkedType, PastDueType, Values DEF DunningRow, GraceStarted
  <2> QED BY <1>0, <2>1, <2>2, SavedType, SavedPresent DEF Exists
<1>c. ASSUME NEW s \in Subs, NEW new \in Row, TablesAgree' /\ Remain, sweep' = sweep,
             \/ dunning' = dunning
             \/ dunning' = Handled(dunning, s)
             \/ /\ s \in dunning.todo /\ dunning.pass = 2
                /\ dunning' = EnteringGrace(dunning, s, new)
      PROVE  TablesAgree' /\ JobsHeld' /\ Remain
  <2>1. CASE dunning' = dunning
    BY <1>c, <2>1, JobsKeepHeld
  <2>2. CASE dunning' = Handled(dunning, s)
    <3>1. /\ dunning'.todo = dunning.todo \ {s} /\ dunning'.grace = 0
          /\ dunning'.pass = dunning.pass
      BY <1>0, <2>2, HandledType
    <3> QED BY <1>0, <1>c, <3>1 DEF Synced, JobsHeld, Remain, Exists
  <2>3. CASE /\ s \in dunning.todo /\ dunning.pass = 2
             /\ dunning' = EnteringGrace(dunning, s, new)
    <3>0. dunning \in Job /\ dunning' = EnteringGrace(dunning, s, new)
      BY <1>0, <2>3
    <3>1. dunning'.todo = dunning.todo /\ dunning'.grace = s /\ dunning'.pass = 2
      BY <3>0, <2>3 DEF EnteringGrace, Job
    <3> QED BY <1>0, <1>c, <2>3, <3>1 DEF Synced, JobsHeld, Remain, Exists
  <2> QED BY <1>c, <2>1, <2>2, <2>3
<1>d. ASSUME NEW s \in Subs, DunningStore(s),
             (s \in dunning.todo /\ dunning.pass = 2) \/ dunning.grace = s
      PROVE  TablesAgree' /\ Remain /\ sweep' = sweep
  <2> DEFINE row == Saved(sub[s], dunning.rows[s], DunningRow(s))
  <2>1. row \in Row /\ row.state # "absent" /\ Store("dunning", s, row) /\ sweep' = sweep
    BY <1>b, <1>d DEF DunningStore
  <2> HIDE DEF row
  <2> QED BY <1>0, <2>1, StoreAgrees
<1>1. CASE DunningFlag
  <2>1. /\ dunning'.pass = 1 /\ dunning'.grace = 0 /\ UNCHANGED tables /\ sweep' = sweep
    BY <1>1 DEF DunningFlag, IdleJob
  <2> QED BY <1>0, <1>a, <2>1 DEF Synced, JobsHeld, Remain, Exists
<1>2. CASE DunningRead
  <2> DEFINE selected == {s \in dunning.todo : sub[s].state \in {"active", "expiring"}}
  <2>1. /\ dunning' = ReadPass(dunning, 2, dunning.at, selected)
        /\ UNCHANGED tables /\ sweep' = sweep
    BY <1>2 DEF DunningRead
  <2>2. selected \subseteq Subs /\ \A s \in selected : Exists(s)
    BY <1>0 DEF Exists
  <2> HIDE DEF selected
  <2>3. dunning'.todo = selected /\ dunning'.grace = 0
    BY <2>1 DEF ReadPass
  <2> QED BY <1>0, <1>a, <2>1, <2>2, <2>3 DEF Synced, JobsHeld, Remain, Exists
<1>3. CASE DunningEnd
  <2>1. UNCHANGED tables /\ sweep' = sweep /\ dunning' = IdleJob
    BY <1>3 DEF DunningEnd
  <2> QED BY <1>0, <1>a, <2>1 DEF IdleJob, Synced, JobsHeld, Remain, Exists
<1>4. ASSUME NEW s \in Subs, DunningPastDue(s) PROVE TablesAgree' /\ JobsHeld' /\ Remain
  <2>1. s \in dunning.todo /\ DunningStore(s) /\ dunning.pass = 2
    BY <1>4 DEF DunningPastDue, First
  <2>2. dunning' = EnteringGrace(dunning, s, DunningRow(s)) \/ dunning' = Handled(dunning, s)
    BY <1>4 DEF DunningPastDue
  <2> QED BY <1>0, <1>c, <1>d, <2>1, <2>2, DunningRowType
<1>5. ASSUME NEW s \in Subs, DunningGrace(s) PROVE TablesAgree' /\ JobsHeld' /\ Remain
  <2>1. DunningStore(s) /\ dunning.grace = s /\ dunning' = Handled(dunning, s)
    BY <1>5 DEF DunningGrace
  <2> QED BY <1>c, <1>d, <2>1, AbsentRowType
<1>6. ASSUME NEW s \in Subs, DunningBegins(s) PROVE TablesAgree' /\ JobsHeld' /\ Remain
  <2> DEFINE row == Saved(sub[s], dunning.rows[s], DunningRow(s))
  <2>1. row.state # "absent" /\ Begin("dunning", s, row) /\ UNCHANGED <<sweep, dunning>>
    BY <1>b, <1>6 DEF DunningBegins, First
  <2> HIDE DEF row
  <2>2. TablesAgree' /\ Remain
    BY <1>0, <2>1, BeginAgrees
  <2> QED BY <1>c, <2>1, <2>2, AbsentRowType
<1>7. ASSUME NEW s \in Subs, DunningRolledBack(s) PROVE TablesAgree' /\ JobsHeld' /\ Remain
  <2>1. RolledBack("dunning") /\ dunning' = Handled(dunning, s) /\ sweep' = sweep
    BY <1>7 DEF DunningRolledBack
  <2>2. TablesAgree' /\ Remain
    BY <1>0, <2>1, RolledBackAgrees
  <2> QED BY <1>c, <2>1, <2>2, AbsentRowType
<1> QED BY <1>1, <1>2, <1>3, <1>4, <1>5, <1>6, <1>7 DEF OverdueJob

LEMMA WorldSynced ==
  ASSUME Synced, World
  PROVE  TablesAgree' /\ RequestsHeld' /\ JobsHeld'
<1>0. TypeOK /\ TablesAgree /\ open \in [Actors -> Transaction]
  BY DEF Synced, Typed, TypeOK
<1>1. CASE Tick \/ \E s \in Subs : InvoiceFallsDue(s)
  <2>1. UNCHANGED <<sub, schoolState, open, skewed, request, sweep, dunning>>
    BY <1>1 DEF Tick, InvoiceFallsDue, tables
  <2>2. TablesAgree' /\ Remain
    BY <1>0, <2>1, DropAgrees
  <2> QED BY <2>1, <2>2, JobsKeepHeld, RequestsKeepHeld
<1>2. CASE ApiCrash
  <2>1. /\ UNCHANGED <<sub, schoolState, skewed, sweep, dunning>>
        /\ \A a \in Actors : open'[a] = open[a] \/ open'[a] = NoTransaction
    BY <1>2 DEF ApiCrash
  <2>2. TablesAgree' /\ Remain
    BY <1>0, <2>1, DropAgrees
  <2>3. RequestsHeld'
    BY <1>2 DEF ApiCrash, RequestsHeld, IdleRequest
  <2> QED BY <2>1, <2>2, <2>3, JobsKeepHeld
<1>3. CASE WorkerCrash
  <2>1. /\ UNCHANGED <<sub, schoolState, skewed, request>>
        /\ \A a \in Actors : open'[a] = open[a] \/ open'[a] = NoTransaction
    BY <1>3 DEF WorkerCrash
  <2>2. TablesAgree' /\ Remain
    BY <1>0, <2>1, DropAgrees
  <2>3. JobsHeld'
    BY <1>3 DEF WorkerCrash, JobsHeld, IdleJob
  <2> QED BY <2>1, <2>2, <2>3, RequestsKeepHeld
<1> QED BY <1>1, <1>2, <1>3 DEF World

LEMMA SyncedNext == Synced /\ [Next]_vars => Synced'
<1> SUFFICES ASSUME Synced, [Next]_vars PROVE Synced'
  OBVIOUS
<1>1. Typed'
  BY TypedNext DEF Synced
<1>2. ASSUME NEW q \in Requests, Serve(q) PROVE Synced'
  <2>1. TablesAgree' /\ RequestsHeld' /\ Remain
    BY <1>1, <1>2, ServeSynced
  <2>2. UNCHANGED <<sweep, dunning>>
    BY <1>2
      DEF Serve, ReadCreate, Insert, Write, FollowSettlement, WriteBegins, RequestRolledBack,
          ReadUpdate, ReadRenew, Pay, ReadTransition, ReadChangePlan, ReadOnly
  <2> QED BY <1>1, <2>1, <2>2, JobsKeepHeld DEF Synced
<1>3. CASE LifecycleJob
  <2>1. TablesAgree' /\ JobsHeld' /\ Remain
    BY <1>3, SweepSynced
  <2>2. UNCHANGED request
    BY <1>3
      DEF LifecycleJob, SweepRead, SweepEnd, SweepPastDue, SweepGrace, SweepReadRenewal,
          SweepRenew, SweepMark, SweepBegins, SweepRolledBack, JobStep
  <2> QED BY <1>1, <2>1, <2>2, RequestsKeepHeld DEF Synced
<1>4. CASE OverdueJob
  <2>1. TablesAgree' /\ JobsHeld' /\ Remain
    BY <1>4, DunningSynced
  <2>2. UNCHANGED request
    BY <1>4
      DEF OverdueJob, DunningFlag, DunningRead, DunningEnd, DunningPastDue, DunningGrace,
          DunningBegins, DunningRolledBack, JobStep
  <2> QED BY <1>1, <2>1, <2>2, RequestsKeepHeld DEF Synced
<1>5. CASE World
  BY <1>1, <1>5, WorldSynced DEF Synced
<1>6. CASE UNCHANGED vars
  BY <1>1, <1>6
    DEF vars, tables, Synced, TablesAgree, Agrees, Foreseen, Present, RequestsHeld, JobsHeld,
        Exists
<1> QED BY <1>2, <1>3, <1>4, <1>5, <1>6 DEF Next

(* schools.subscription_state is the state of the subscription that        *)
(* governs the school, for every overlap of requests, passes, crashes and  *)
(* roll-backs, unless the transaction that wrote it last had not seen one  *)
(* that committed beside it; and always, while the school has had no more  *)
(* than one subscription.                                                  *)
THEOREM SchoolStateCorrect == Spec => []SchoolStateAgrees
<1>1. Synced => SchoolStateAgrees
  BY DEF Synced, TablesAgree, Agrees, Present, SchoolStateAgrees
<1> QED BY <1>1, SyncedInit, SyncedNext, PTL DEF Spec

(* One operation at a time, no transaction has anything to miss, and the   *)
(* school's state is that of its governing subscription after every step.  *)
THEOREM SchoolStateExact == ~Overlap => (Spec => [](schoolState = Governing(sub)))
<1> SUFFICES ASSUME ~Overlap PROVE Spec => [](schoolState = Governing(sub))
  OBVIOUS
<1> DEFINE Unskewed == Synced /\ NoneOpen /\ ~skewed
<1>1. Init => Unskewed
  BY SyncedInit DEF Init, NoneOpen
<1>2. Unskewed /\ [Next]_vars => Unskewed'
  BY SyncedNext, NoneOpenNext
<1>3. Unskewed => schoolState = Governing(sub)
  BY DEF Synced, TablesAgree, Agrees
<1> QED BY <1>1, <1>2, <1>3, PTL DEF Spec

-----------------------------------------------------------------------------
(* What jobs may do to access, and what anybody may do to a deadline, when *)
(* no operation begins inside another.  A job writes only rows it selected *)
(* in a usable state (or has itself just made Past Due), and those are     *)
(* still what the table holds.                                             *)

UsableCopies ==
  /\ \A s \in sweep.todo : sweep.rows[s].state \in UsableStates
  /\ dunning.pass # 1 => \A s \in dunning.todo : dunning.rows[s].state \in UsableStates

KeepsDeadline(r, new) ==
  r.state = "grace_period" /\ new.state = "grace_period"
    => new.grace_period_ends_at = r.grace_period_ends_at

RequestsKeep ==
  \A q \in Requests :
    request[q].stage = "write" /\ request[q].id # 0
      => KeepsDeadline(request[q].read, request[q].new)

Heeded == Serial /\ UsableCopies /\ RequestsKeep

LEMMA HeededInit == Init => Heeded
<1> SUFFICES ASSUME Init PROVE Heeded
  OBVIOUS
<1>1. UsableCopies /\ RequestsKeep
  BY DEF Init, UsableCopies, RequestsKeep, IdleJob, IdleRequest
<1> QED BY <1>1, SerialInit DEF Heeded

LEMMA SelectedUsable ==
  ASSUME NEW pass \in 1 .. 5, NEW r, NEW at, SelectedBy(pass, r, at)
  PROVE  r.state \in UsableStates
<1>1. pass \in {1, 2, 3, 4, 5}
  OBVIOUS
<1> QED BY <1>1 DEF SelectedBy, TrialOver, DueForRenewal, PeriodOver, GraceOver, Approaching, UsableStates

(* Reading a pass, having done with a row of it, and keeping a row for its *)
(* second write leave usable copies.                                       *)
LEMMA CopiesStay ==
  ASSUME NEW job \in Job, NEW s \in Subs, NEW new \in Row, NEW job2,
         \A t \in job.todo : job.rows[t].state \in UsableStates,
         \/ job2 = Handled(job, s)
         \/ job2 = EnteringGrace(job, s, new) /\ new.state = "past_due"
  PROVE  \A t \in job2.todo : job2.rows[t].state \in UsableStates
<1>0. job.todo \subseteq Subs /\ job.rows \in [Subs -> Row]
  BY JobFields
<1>1. CASE job2 = Handled(job, s)
  <2>1. /\ Handled(job, s).todo = job.todo \ {s}
        /\ \A t \in Subs \ {s} : Handled(job, s).rows[t] = job.rows[t]
    BY HandledType
  <2> QED BY <1>0, <1>1, <2>1
<1>2. CASE job2 = EnteringGrace(job, s, new) /\ new.state = "past_due"
  <2>1. /\ EnteringGrace(job, s, new).todo = job.todo
        /\ EnteringGrace(job, s, new).rows = [job.rows EXCEPT ![s] = new]
    BY EnteringGraceType
  <2> QED BY <1>0, <1>2, <2>1 DEF UsableStates
<1> QED BY <1>1, <1>2

(* A write of one row that was usable, and that moves no deadline.         *)
Touches ==
  \/ sub' = sub
  \/ \E s \in Subs, new \in Row :
       /\ sub[s].state \in UsableStates /\ KeepsDeadline(sub[s], new)
       /\ sub' = [sub EXCEPT ![s] = new]

LEMMA WroteTouches ==
  ASSUME Serial, NEW job \in Job, NEW s \in Subs, NEW new \in Row, s \in job.todo,
         job.rows[s] = sub[s], \A t \in job.todo : job.rows[t].state \in UsableStates,
         Wrote(s, job.rows[s], new), KeepsDeadline(job.rows[s], new)
  PROVE  Touches
<1>1. sub[s] \in Row
  BY DEF Serial, Typed, TypeOK
<1>2. sub' = [sub EXCEPT ![s] = new]
  BY <1>1, SavedFresh DEF Wrote
<1> QED BY <1>2 DEF Touches

LEMMA SweepTouches ==
  ASSUME Heeded, ~Overlap, LifecycleJob
  PROVE  Touches /\ UsableCopies'
<1>0. /\ sweep \in Job /\ Current(sweep)
      /\ \A s \in Subs : sub[s] \in Row /\ sweep.rows[s] \in Row /\ Overdue(s) \in Nat
      /\ sweep.pass \in 0 .. 5 /\ sweep.at \in Int /\ sweep.todo \in SUBSET Subs
      /\ \A t \in sweep.todo : sweep.rows[t].state \in UsableStates /\ sweep.rows[t] = sub[t]
  <2>1. TypeOK /\ sweep \in Job /\ Current(sweep)
    BY DEF Heeded, Serial, JobsCurrent, Typed, TypeOK
  <2>2. \A s \in Subs : Overdue(s) \in Nat /\ sub[s] \in Row
    BY <2>1 DEF TypeOK, Overdue
  <2> QED BY <2>1, <2>2, JobFields DEF Heeded, UsableCopies, Current
<1>1. dunning' = dunning
  BY DEF LifecycleJob, SweepRead, SweepEnd, SweepPastDue, SweepGrace, SweepReadRenewal,
         SweepRenew, SweepMark, SweepStore, SweepBegins, SweepRolledBack
<1>2. ASSUME NEW s \in Subs, NEW new \in Row, s \in sweep.todo, Wrote(s, sweep.rows[s], new),
             KeepsDeadline(sweep.rows[s], new),
             \/ sweep' = Handled(sweep, s)
             \/ sweep' = EnteringGrace(sweep, s, new) /\ new.state = "past_due"
      PROVE  Touches /\ UsableCopies'
  <2>1. Touches
    BY <1>0, <1>2, WroteTouches DEF Heeded
  <2>2. \A t \in sweep'.todo : sweep'.rows[t].state \in UsableStates
    BY <1>0, <1>2, CopiesStay
  <2> QED BY <1>1, <2>1, <2>2 DEF Heeded, UsableCopies
<1>3. CASE SweepRead
  <2>1. PICK at : sweep' = ReadPass(sweep, sweep.pass + 1, at,
                                    {s \in Subs : SelectedBy(sweep.pass + 1, sub[s], at)})
    BY <1>3 DEF SweepRead
  <2>2. sweep.pass + 1 \in 1 .. 5
    BY <1>0, <1>3 DEF SweepRead
  <2>3. \A s \in sweep'.todo : sweep'.rows[s].state \in UsableStates
    BY <2>1, <2>2, SelectedUsable DEF ReadPass
  <2> QED BY <1>1, <1>3, <2>3 DEF SweepRead, tables, Touches, Heeded, UsableCopies
<1>4. CASE SweepEnd
  BY <1>1, <1>4 DEF SweepEnd, tables, Touches, Heeded, UsableCopies, IdleJob
<1>5. ASSUME NEW s \in Subs, SweepPastDue(s) PROVE Touches /\ UsableCopies'
  <2> DEFINE r == sweep.rows[s]
             new == IF sweep.pass = 1 THEN TrialEnded(r, sweep.at) ELSE PastDue(r, sweep.at)
  <2>1. r \in Row /\ s \in sweep.todo /\ sweep.pass \in {1, 3} /\ sweep.grace # s
    BY <1>0, <1>5 DEF SweepPastDue, First
  <2>2. sweep.pass = 1 => r.trial_ends_at # NoDate
    BY <2>1 DEF TrialRows, Heeded, Serial, Typed
  <2>3. new \in Row /\ new.state = "past_due"
    <3> HIDE DEF r
    <3> QED BY <1>0, <2>1, <2>2, TrialEndedType, PastDueType
  <2>4. SweepRow(s) = new
    BY <2>1, SweepRowCases
  <2>5. /\ Wrote(s, r, new)
        /\ sweep' = Handled(sweep, s) \/ sweep' = EnteringGrace(sweep, s, new)
    BY <1>5, <2>4, AloneWrites DEF SweepPastDue, Heeded
  <2> HIDE DEF new
  <2> QED BY <1>2, <2>1, <2>3, <2>5 DEF KeepsDeadline
<1>6. ASSUME NEW s \in Subs, SweepGrace(s) PROVE Touches /\ UsableCopies'
  <2>1. s \in sweep.todo
    BY <1>0, <1>6 DEF SweepGrace, Current
  <2>2. /\ GraceStarted(sweep.rows[s]) \in Row
        /\ KeepsDeadline(sweep.rows[s], GraceStarted(sweep.rows[s]))
    BY <1>0, MarkedType, Values DEF GraceStarted, KeepsDeadline
  <2>3. SweepRow(s) = GraceStarted(sweep.rows[s])
    BY <1>6, SweepRowCases DEF SweepGrace
  <2>4. Wrote(s, sweep.rows[s], GraceStarted(sweep.rows[s]))
    BY <1>6, <2>3, AloneWrites DEF SweepGrace, Heeded
  <2> QED BY <1>2, <1>6, <2>1, <2>2, <2>4 DEF SweepGrace
<1>7. ASSUME NEW s \in Subs, SweepRenew(s) PROVE Touches /\ UsableCopies'
  <2> DEFINE new == Renewed(sub[s], sweep.at, Overdue(s))
  <2>1. /\ s \in sweep.todo /\ sweep.rows[s] = sub[s] /\ sweep' = Handled(sweep, s)
        /\ CanRenew(sub[s], sweep.at, Overdue(s)) /\ Wrote(s, sweep.rows[s], new)
    BY <1>7, SweepRenewsRow DEF SweepRenew, Heeded
  <2>2. /\ new \in Row /\ new.state = RenewedState(sub[s], Overdue(s))
        /\ new.grace_period_ends_at = RenewedGraceEnd(sub[s], sweep.at, Overdue(s))
    <3>1. sub[s].state \in RenewableStates
      BY <2>1 DEF CanRenew
    <3> QED BY <1>0, <3>1, RenewedType
  <2>3. KeepsDeadline(sub[s], new)
    BY <2>2 DEF KeepsDeadline, RenewedState, RenewedGraceEnd
  <2> HIDE DEF new
  <2> QED BY <1>2, <2>1, <2>2, <2>3
<1>8. ASSUME NEW s \in Subs, SweepMark(s) PROVE Touches /\ UsableCopies'
  <2> DEFINE new == IF sweep.pass = 4 THEN Expired(sweep.rows[s])
                    ELSE [sweep.rows[s] EXCEPT !.state = "expiring"]
  <2>1. new \in Row /\ new.state \in {"expired", "expiring"}
    BY <1>0, MarkedType, Values DEF Expired
  <2>2. Wrote(s, sweep.rows[s], new) /\ s \in sweep.todo /\ sweep' = Handled(sweep, s)
    BY <1>8, SweepMarksRow DEF SweepMark, Heeded
  <2> HIDE DEF new
  <2> QED BY <1>2, <2>1, <2>2 DEF KeepsDeadline
<1>9. ASSUME NEW s \in Subs, SweepReadRenewal(s) PROVE Touches /\ UsableCopies'
  <2>1. /\ sub' = sub
        /\ \/ sweep' = Handled(sweep, s)
           \/ sweep'.todo = sweep.todo /\ sweep'.rows = sweep.rows
    BY <1>9, SweepReadsRow DEF Heeded
  <2>2. \A t \in sweep'.todo : sweep'.rows[t].state \in UsableStates
    BY <1>0, <2>1, CopiesStay, AbsentRowType
  <2> QED BY <1>1, <2>1, <2>2 DEF Touches, Heeded, UsableCopies
<1> QED BY <1>3, <1>4, <1>5, <1>6, <1>7, <1>8, <1>9, AloneRuns DEF LifecycleJob, Heeded

LEMMA DunningTouches ==
  ASSUME Heeded, ~Overlap, OverdueJob
  PROVE  Touches /\ UsableCopies'
<1>0. /\ dunning \in Job /\ dunning.at \in Int /\ dunning.todo \in SUBSET Subs
      /\ \A s \in Subs : sub[s] \in Row /\ dunning.rows[s] \in Row
  <2>1. TypeOK /\ dunning \in Job
    BY DEF Heeded, Serial, Typed, TypeOK
  <2> QED BY <2>1, JobFields DEF TypeOK
<1>1. sweep' = sweep
  BY DEF OverdueJob, DunningFlag, DunningRead, DunningEnd, DunningPastDue, DunningGrace,
         DunningStore, DunningBegins, DunningRolledBack
<1>2. ASSUME NEW s \in Subs, NEW new \in Row, dunning.pass = 2, s \in dunning.todo,
             Wrote(s, dunning.rows[s], new), KeepsDeadline(dunning.rows[s], new),
             \/ dunning' = Handled(dunning, s)
             \/ dunning' = EnteringGrace(dunning, s, new) /\ new.state = "past_due"
      PROVE  Touches /\ UsableCopies'
  <2>1. /\ \A t \in dunning.todo : dunning.rows[t].state \in UsableStates
        /\ dunning.rows[s] = sub[s]
    BY <1>2 DEF Heeded, UsableCopies, Serial, JobsCurrent, Current
  <2>2. Touches
    BY <1>0, <1>2, <2>1, WroteTouches DEF Heeded
  <2>3. \A t \in dunning'.todo : dunning'.rows[t].state \in UsableStates
    BY <1>0, <1>2, <2>1, CopiesStay
  <2> QED BY <1>1, <2>2, <2>3 DEF Heeded, UsableCopies
<1>3. CASE DunningFlag
  <2>1. dunning'.pass = 1 /\ sub' = sub
    BY <1>3 DEF DunningFlag, IdleJob, tables
  <2> QED BY <1>1, <2>1 DEF Touches, Heeded, UsableCopies
<1>4. CASE DunningRead
  <2>1. \A s \in dunning'.todo : dunning'.rows[s].state \in UsableStates
    BY <1>0, <1>4 DEF DunningRead, ReadPass, UsableStates
  <2> QED BY <1>1, <1>4, <2>1 DEF DunningRead, tables, Touches, Heeded, UsableCopies
<1>5. CASE DunningEnd
  BY <1>1, <1>5 DEF DunningEnd, tables, Touches, Heeded, UsableCopies, IdleJob
<1>6. ASSUME NEW s \in Subs, DunningPastDue(s) PROVE Touches /\ UsableCopies'
  <2> DEFINE r == dunning.rows[s]
             new == PastDue(r, dunning.at)
  <2>1. r \in Row /\ s \in dunning.todo /\ dunning.pass = 2 /\ DunningRow(s) = new
    BY <1>0, <1>6 DEF DunningPastDue, First, DunningRow
  <2>2. new \in Row /\ new.state = "past_due"
    <3> HIDE DEF r
    <3> QED BY <1>0, <2>1, PastDueType
  <2>3. /\ Wrote(s, r, new)
        /\ dunning' = Handled(dunning, s) \/ dunning' = EnteringGrace(dunning, s, new)
    BY <1>6, <2>1, AloneWrites DEF DunningPastDue, Heeded
  <2> HIDE DEF new
  <2> QED BY <1>2, <2>1, <2>2, <2>3 DEF KeepsDeadline
<1>7. ASSUME NEW s \in Subs, DunningGrace(s) PROVE Touches /\ UsableCopies'
  <2>1. dunning.grace # 0 /\ dunning.grace = s
    BY <1>7 DEF DunningGrace
  <2>2. dunning.pass = 2
    BY <2>1 DEF Heeded, Serial, JobsCurrent, OneAtATime, IdleJob
  <2>3. s \in dunning.todo
    BY <2>1, <2>2 DEF Heeded, Serial, JobsCurrent, Current
  <2>4. /\ GraceStarted(dunning.rows[s]) \in Row
        /\ KeepsDeadline(dunning.rows[s], GraceStarted(dunning.rows[s]))
    BY <1>0, MarkedType, Values DEF GraceStarted, KeepsDeadline
  <2>5. Wrote(s, dunning.rows[s], GraceStarted(dunning.rows[s]))
    BY <1>7, <2>1, AloneWrites DEF DunningGrace, DunningRow, Heeded
  <2> QED BY <1>2, <1>7, <2>2, <2>3, <2>4, <2>5 DEF DunningGrace
<1> QED BY <1>3, <1>4, <1>5, <1>6, <1>7, AloneRuns DEF OverdueJob, Heeded

(* What a request computes keeps the deadline of the row it has read.      *)
LEMMA HoldKeepsDeadline ==
  ASSUME Heeded, NEW q \in Requests, NEW s \in Subs, NEW new, NEW sync \in BOOLEAN,
         Hold(q, s, new, sync), KeepsDeadline(sub[s], new)
  PROVE  RequestsKeep'
<1>1. /\ request'[q] = [stage |-> "write", id |-> s, read |-> sub[s], new |-> new,
                        sync |-> sync]
      /\ \A p \in Requests \ {q} : request'[p] = request[p]
  BY DEF Hold, Heeded, Serial, Typed, TypeOK
<1> QED BY <1>1 DEF Heeded, RequestsKeep, KeepsDeadline

LEMMA IdleKeepsDeadline ==
  ASSUME Heeded, NEW q \in Requests, NEW held, held.stage # "write" \/ held.id = 0,
         request' = [request EXCEPT ![q] = held]
  PROVE  RequestsKeep'
<1>1. /\ request'[q] = held
      /\ \A p \in Requests \ {q} : request'[p] = request[p]
  BY DEF Heeded, Serial, Typed, TypeOK
<1> QED BY <1>1 DEF Heeded, RequestsKeep, KeepsDeadline

(* The row before and after a request's step.                              *)
DeadlinesKept == \A s \in Subs : KeepsDeadline(sub[s], sub'[s])

LEMMA ServeKeeps ==
  ASSUME Heeded, ~Overlap, NEW q \in Requests, Serve(q)
  PROVE  /\ RequestsKeep' /\ DeadlinesKept
         /\ UNCHANGED <<sweep, dunning>>
<1>0. /\ now \in Int /\ sub \in [Subs -> Row]
      /\ \A s \in Subs : sub[s] \in Row /\ Overdue(s) \in Nat
      /\ request[q] \in Request
  BY DEF Heeded, Serial, Typed, TypeOK, Overdue
<1>a. UNCHANGED <<sweep, dunning>>
  BY DEF Serve, ReadCreate, Insert, Write, FollowSettlement, WriteBegins, RequestRolledBack,
         ReadUpdate, ReadRenew, Pay, ReadTransition, ReadChangePlan, ReadOnly
<1>b. sub' = sub => DeadlinesKept
  BY DEF DeadlinesKept, KeepsDeadline
<1>c. ReadOnly => DeadlinesKept
  BY <1>b DEF ReadOnly, tables
<1>d. IdleRequest.stage # "write"
  BY DEF IdleRequest
<1>1. CASE ReadCreate(q)
  <2>1. PICK new : request' = [request EXCEPT ![q] =
            [stage |-> "write", id |-> 0, read |-> AbsentRow, sync |-> TRUE, new |-> new]]
    BY <1>1 DEF ReadCreate
  <2> QED BY <1>1, <1>a, <1>c, <2>1, IdleKeepsDeadline DEF ReadCreate
<1>2. CASE Insert(q)
  <2>1. PICK s \in Subs : ~Exists(s) /\ sub' = [sub EXCEPT ![s] = request[q].new]
    BY <1>2, AloneWrites DEF Heeded
  <2>2. DeadlinesKept
    BY <1>0, <2>1 DEF DeadlinesKept, KeepsDeadline, Exists
  <2> QED BY <1>2, <1>a, <1>d, <2>2, IdleKeepsDeadline DEF Insert
<1>3. CASE Write(q)
  <2> DEFINE s == request[q].id
  <2>1. s \in Subs /\ request[q].new \in Row /\ request[q].read = sub[s]
    BY <1>0, <1>3, RequestFields DEF Write, Heeded, Serial, RequestsCurrent
  <2>2. sub' = [sub EXCEPT ![s] = Saved(sub[s], request[q].read, request[q].new)]
    BY <1>3, AloneWrites DEF Heeded, Wrote
  <2>3. sub' = [sub EXCEPT ![s] = request[q].new]
    BY <1>0, <2>1, <2>2, SavedFresh
  <2>4. KeepsDeadline(sub[s], request[q].new)
    BY <1>3, <2>1 DEF Write, Heeded, RequestsKeep
  <2>5. DeadlinesKept
    BY <1>0, <2>1, <2>3, <2>4 DEF DeadlinesKept, KeepsDeadline
  <2> QED BY <1>3, <1>a, <1>d, <2>5, IdleKeepsDeadline DEF Write
<1>4. CASE FollowSettlement(q)
  <2> DEFINE s == request[q].id
             r == sub[s]
             action == IF r.state \in {"pending", "trial"} THEN "activate" ELSE "reactivate"
  <2>1. s \in Subs
    BY <1>0, <1>4, RequestFields DEF FollowSettlement, Heeded, Serial, Typed, SettleIds
  <2>2. action \in Actions
    BY DEF Actions
  <2>3. KeepsDeadline(r, Settled(r)) /\ KeepsDeadline(r, Transitioned(r, action, now))
    BY <1>0, <2>1, <2>2, SettledType, TransitionedType DEF KeepsDeadline
  <2>4. \/ Hold(q, s, Settled(r), TRUE)
        \/ Hold(q, s, Transitioned(r, action, now), TRUE)
        \/ request' = [request EXCEPT ![q] = IdleRequest]
    BY <1>4 DEF FollowSettlement
  <2> HIDE DEF s, r, action
  <2>5. RequestsKeep'
    BY <1>d, <2>1, <2>3, <2>4, HoldKeepsDeadline, IdleKeepsDeadline DEF r
  <2> QED BY <1>4, <1>a, <1>c, <2>5 DEF FollowSettlement
<1>5. ASSUME NEW s \in Subs, ReadUpdate(q, s) PROVE RequestsKeep' /\ DeadlinesKept
  <2>1. PICK new : /\ Hold(q, s, new, FALSE)
                   /\ new.grace_period_ends_at = sub[s].grace_period_ends_at
    <3>1. \A days \in TrialDays :
            WithTrialDays(sub[s], days).grace_period_ends_at = sub[s].grace_period_ends_at
      BY <1>0, WithTrialDaysType
    <3>2. \A days \in GraceDays :
            [sub[s] EXCEPT !.grace_period_days = days].grace_period_ends_at
              = sub[s].grace_period_ends_at
      BY <1>0 DEF Row
    <3>3. \A auto \in RenewalModes :
            [sub[s] EXCEPT !.automatic = auto].grace_period_ends_at = sub[s].grace_period_ends_at
      BY <1>0 DEF Row
    <3> QED BY <1>5, <3>1, <3>2, <3>3 DEF ReadUpdate
  <2> QED BY <1>5, <1>c, <2>1, HoldKeepsDeadline DEF ReadUpdate, KeepsDeadline
<1>6. ASSUME NEW s \in Subs, ReadRenew(q, s) PROVE RequestsKeep' /\ DeadlinesKept
  <2> DEFINE new == Renewed(sub[s], now, Overdue(s))
  <2>1. sub[s].state \in RenewableStates /\ Hold(q, s, new, TRUE)
    BY <1>6 DEF ReadRenew, CanRenew
  <2>2. /\ new.state = RenewedState(sub[s], Overdue(s))
        /\ new.grace_period_ends_at = RenewedGraceEnd(sub[s], now, Overdue(s))
    BY <1>0, <2>1, RenewedType
  <2> HIDE DEF new
  <2>3. KeepsDeadline(sub[s], new)
    BY <2>2 DEF KeepsDeadline, RenewedState, RenewedGraceEnd
  <2> QED BY <1>6, <1>c, <2>1, <2>3, HoldKeepsDeadline DEF ReadRenew
<1>7. ASSUME NEW s \in Subs, Pay(q, s) PROVE RequestsKeep' /\ DeadlinesKept
  <2>1. [IdleRequest EXCEPT !.stage = "settle", !.id = s].stage # "write"
    BY DEF IdleRequest
  <2> QED BY <1>7, <1>b, <2>1, IdleKeepsDeadline DEF Pay, tables
<1>8. ASSUME NEW s \in Subs, NEW action \in Actions, ReadTransition(q, s, action)
      PROVE RequestsKeep' /\ DeadlinesKept
  <2>1. KeepsDeadline(sub[s], Transitioned(sub[s], action, now))
    BY <1>0, TransitionedType DEF KeepsDeadline
  <2> QED BY <1>8, <1>c, <2>1, HoldKeepsDeadline DEF ReadTransition
<1>9. ASSUME NEW s \in Subs, NEW plan \in Plans, NEW cycle \in Cycles,
             ReadChangePlan(q, s, plan, cycle)
      PROVE RequestsKeep' /\ DeadlinesKept
  <2>1. /\ KeepsDeadline(sub[s], PlanChanged(sub[s], plan, cycle))
        /\ KeepsDeadline(sub[s], DowngradeScheduled(sub[s], plan, cycle))
    BY <1>0, PlanChangedType, DowngradeScheduledType DEF KeepsDeadline
  <2> QED BY <1>9, <1>c, <2>1, HoldKeepsDeadline DEF ReadChangePlan
<1> QED BY <1>a, <1>1, <1>2, <1>3, <1>4, <1>5, <1>6, <1>7, <1>8, <1>9, AloneRuns
        DEF Serve, Heeded

LEMMA HeededNext ==
  ASSUME ~Overlap, Heeded, [Next]_vars
  PROVE  /\ Heeded'
         /\ sweep' # sweep \/ dunning' # dunning => Touches
         /\ DeadlinesKept
<1>0. Serial'
  BY SerialNext DEF Heeded
<1>1. Touches => DeadlinesKept
  BY DEF Touches, DeadlinesKept, KeepsDeadline, Heeded, Serial, Typed, TypeOK
<1>2. CASE UNCHANGED vars
  BY <1>0, <1>1, <1>2 DEF vars, tables, Touches, Heeded, UsableCopies, RequestsKeep
<1>3. CASE \E q \in Requests : Serve(q)
  BY <1>0, <1>3, ServeKeeps DEF Heeded, UsableCopies
<1>4. CASE LifecycleJob \/ OverdueJob
  <2>1. request' = request
    BY <1>4
       DEF LifecycleJob, OverdueJob, SweepRead, SweepEnd, SweepPastDue, SweepGrace,
           SweepReadRenewal, SweepRenew, SweepMark, SweepBegins, SweepRolledBack, DunningFlag,
           DunningRead, DunningEnd, DunningPastDue, DunningGrace, DunningBegins,
           DunningRolledBack, JobStep
  <2>2. RequestsKeep'
    BY <2>1 DEF Heeded, RequestsKeep
  <2> QED BY <1>0, <1>1, <1>4, <2>2, SweepTouches, DunningTouches DEF Heeded
<1>5. CASE World
  <2>1. sub' = sub
    BY <1>5 DEF World, Tick, InvoiceFallsDue, ApiCrash, WorkerCrash, tables
  <2>2. request' = request \/ \A q \in Requests : request'[q].stage = "idle"
    BY <1>5 DEF World, Tick, InvoiceFallsDue, ApiCrash, WorkerCrash, IdleRequest
  <2>3. RequestsKeep'
    BY <2>2 DEF Heeded, RequestsKeep
  <2>4. UNCHANGED <<sweep, dunning>> \/ (sweep' = IdleJob /\ dunning' = IdleJob)
    BY <1>5 DEF World, Tick, InvoiceFallsDue, ApiCrash, WorkerCrash
  <2>5. UsableCopies'
    BY <2>4 DEF Heeded, UsableCopies, IdleJob
  <2> QED BY <1>0, <1>1, <2>1, <2>3, <2>5 DEF Touches, Heeded
<1> QED BY <1>2, <1>3, <1>4, <1>5 DEF Next

(* One operation at a time, no job hands access back: neither the sweep    *)
(* nor pastDueForOverdueInvoices() makes a row usable that was not.        *)
THEOREM JobsOnlyTakeAway == ~Overlap => (Spec => JobsNeverRevive)
<1> SUFFICES ASSUME ~Overlap PROVE Spec => JobsNeverRevive
  OBVIOUS
<1>1. Heeded /\ [Next]_vars => Heeded'
  BY HeededNext
<1>2. Heeded /\ [Next]_vars =>
        [(sweep' # sweep \/ dunning' # dunning) =>
           \A s \in Subs : sub'[s].state \in UsableStates
                             => sub[s].state \in UsableStates]_vars
  <2> SUFFICES ASSUME Heeded, [Next]_vars, sweep' # sweep \/ dunning' # dunning,
                      NEW s \in Subs, sub'[s].state \in UsableStates
               PROVE  sub[s].state \in UsableStates
    OBVIOUS
  <2>1. Touches /\ sub \in [Subs -> Row]
    BY HeededNext DEF Heeded, Serial, Typed, TypeOK
  <2> QED BY <2>1 DEF Touches
<1> QED BY HeededInit, <1>1, <1>2, PTL DEF Spec, JobsNeverRevive

(* One operation at a time, a grace period ends when it was said to: no    *)
(* renewal, edit or second lapse moves the deadline of a row in Grace.     *)
THEOREM GraceDeadlineFixed == ~Overlap => (Spec => GraceDeadlineStands)
<1> SUFFICES ASSUME ~Overlap PROVE Spec => GraceDeadlineStands
  OBVIOUS
<1>1. Heeded /\ [Next]_vars => Heeded'
  BY HeededNext
<1>2. Heeded /\ [Next]_vars =>
        [\A s \in Subs :
           sub[s].state = "grace_period" /\ sub'[s].state = "grace_period"
             => sub'[s].grace_period_ends_at = sub[s].grace_period_ends_at]_vars
  BY HeededNext DEF DeadlinesKept, KeepsDeadline
<1> QED BY HeededInit, <1>1, <1>2, PTL DEF Spec, GraceDeadlineStands
-----------------------------------------------------------------------------
(* The lifecycle implements the documented machine, when no operation      *)
(* begins inside another: every write is along an edge from the state the  *)
(* row has, and one that money closes is open when it is taken.            *)

Edge(from, to, owed) ==
  \/ from = to
  \/ <<from, to>> \in Machine!Operator \cup Machine!Calendar
  \/ <<from, to>> \in Machine!Cleared /\ owed = 0
  \/ <<from, to>> \in Machine!InArrears /\ owed > 0

MachineStep == [Machine!Next]_(Machine!machine)

States == [s \in Subs |-> sub[s].state]
Debts == [s \in Subs |-> Overdue(s)]

(* The abstract state moves as the row does.                               *)
LEMMA MoveMaps ==
  ASSUME TypeOK, NEW s \in Subs, NEW new \in Row, sub' = [sub EXCEPT ![s] = new],
         UNCHANGED invoices, Edge(sub[s].state, new.state, Overdue(s))
  PROVE  MachineStep
<1>1. States' = [States EXCEPT ![s] = new.state]
  BY DEF TypeOK, States
<1>2. Debts' = Debts
  BY DEF invoices, Debts, Overdue
<1>3. CASE sub[s].state = new.state
  <2>1. States' = States
    BY <1>1, <1>3 DEF States
  <2> QED BY <1>2, <2>1 DEF MachineStep, Machine!machine, States, Debts
<1>4. CASE sub[s].state # new.state
  <2>1. new.state \in {"active", "trial", "expiring", "past_due", "grace_period",
             "expired", "suspended", "paused", "cancelled"}
    BY <1>4 DEF Edge, Machine!Operator, Machine!Calendar, Machine!Cleared, Machine!InArrears
  <2>2. States[s] = sub[s].state /\ Debts[s] = Overdue(s)
    BY DEF States, Debts
  <2>3. Machine!Move(s)
    BY <1>1, <1>2, <1>4, <2>1, <2>2 DEF Machine!Move, Edge, States, Debts
  <2> QED BY <2>3 DEF MachineStep, Machine!Next
<1> QED BY <1>3, <1>4

LEMMA RestMaps ==
  ASSUME sub' = sub, UNCHANGED invoices
  PROVE  MachineStep
<1>1. States' = States /\ Debts' = Debts
  BY DEF States, Debts, invoices, Overdue
<1> QED BY <1>1 DEF MachineStep, Machine!machine, States, Debts

(* An invoice that falls due or is paid bills its subscription.            *)
LEMMA BillMaps ==
  ASSUME TypeOK, TypeOK', NEW s \in Subs, Exists(s), sub' = sub,
         \A t \in Subs \ {s} : unflagged'[t] = unflagged[t] /\ flagged'[t] = flagged[t]
  PROVE  MachineStep
<1>1. States' = States /\ States[s] # "absent"
  BY DEF States, Exists
<1>2. Debts' \in [Subs -> Nat] /\ \A t \in Subs \ {s} : Debts'[t] = Debts[t]
  <2>1. \A t \in Subs : unflagged'[t] \in Nat /\ flagged'[t] \in Nat
    BY DEF TypeOK
  <2>2. \A t \in Subs \ {s} : Overdue(t)' = Overdue(t)
    BY DEF Overdue
  <2>3. Debts' = [t \in Subs |-> unflagged'[t] + flagged'[t]]
    BY DEF Debts, Overdue
  <2> QED BY <2>1, <2>2, <2>3 DEF Debts, Overdue
<1>3. Machine!Bill(s)
  BY <1>1, <1>2 DEF Machine!Bill, States, Debts
<1> QED BY <1>3 DEF MachineStep, Machine!Next

(* Operator transitions are edges, and so are renewals and settlements.    *)
LEMMA TransitionEdge ==
  ASSUME NEW r \in Row, NEW action \in Actions, NEW at \in Int, NEW owed,
         CanTransition(r, action)
  PROVE  Edge(r.state, Transitioned(r, action, at).state, owed)
<1> USE DEF CanTransition, TransitionFrom, TransitionTo, Edge, Machine!Operator, OpenStates,
            UsableStates
<1>1. CASE action = "activate"
  <2>1. Transitioned(r, action, at).state = "active"
    BY <1>1 DEF Transitioned, Activated, Row
  <2> QED BY <1>1, <2>1
<1>2. CASE action = "suspend"
  <2>1. Transitioned(r, action, at).state = "suspended"
    BY <1>2 DEF Transitioned, Row
  <2> QED BY <1>2, <2>1
<1>3. CASE action = "reactivate"
  <2>1. Transitioned(r, action, at).state = "active"
    BY <1>3 DEF Transitioned, Reactivated, Row
  <2> QED BY <1>3, <2>1
<1>4. CASE action = "pause"
  <2>1. Transitioned(r, action, at).state = "paused"
    BY <1>4 DEF Transitioned, Paused, Row
  <2> QED BY <1>4, <2>1
<1>5. CASE action = "resume"
  <2>1. Transitioned(r, action, at).state \in {"trial", "active"}
    BY <1>5, ResumedType DEF Transitioned
  <2> QED BY <1>5, <2>1
<1>6. CASE action = "cancel"
  <2>1. Transitioned(r, action, at).state = "cancelled"
    BY <1>6, UnscheduledType DEF Transitioned, Cancelled, Row
  <2> QED BY <1>6, <2>1
<1> QED BY <1>1, <1>2, <1>3, <1>4, <1>5, <1>6 DEF Actions

LEMMA RenewalEdge ==
  ASSUME NEW r \in Row, NEW at \in Int, NEW owed \in Nat, CanRenew(r, at, owed)
  PROVE  Edge(r.state, Renewed(r, at, owed).state, owed)
<1>1. /\ r.state \in RenewableStates /\ ~(owed > 0 /\ r.state = "expired")
      /\ Renewed(r, at, owed).state = RenewedState(r, owed)
  BY RenewedType DEF CanRenew
<1>2. CASE owed = 0
  BY <1>1, <1>2 DEF RenewedState, RenewableStates, Edge, Machine!Cleared
<1>3. CASE owed > 0
  BY <1>1, <1>3 DEF RenewedState, RenewableStates, Edge, Machine!InArrears
<1> QED BY <1>2, <1>3

LEMMA SettlementEdge ==
  ASSUME NEW r \in Row, NEW at, NEW owed, CanSettle(r, at, owed)
  PROVE  Edge(r.state, Settled(r).state, owed)
BY SettledType DEF CanSettle, Edge, Machine!Cleared

(* What is carried along: a request's write is along an edge open to it,   *)
(* and every row a job has in hand is in a state its pass moves on from.   *)
From(pass) ==
  IF pass = 1 THEN {"trial"}
  ELSE IF pass \in {2, 3} THEN {"active", "expiring"}
  ELSE IF pass = 4 THEN {"past_due", "grace_period"}
  ELSE {"active"}

RequestsFollow ==
  \A q \in Requests :
    request[q].stage = "write" =>
      IF request[q].id = 0 THEN request[q].new.state \in {"trial", "pending"}
      ELSE Edge(request[q].read.state, request[q].new.state, Overdue(request[q].id))

HoldsFrom(job, states) ==
  \A s \in job.todo : job.rows[s].state \in IF s = job.grace THEN {"past_due"} ELSE states

JobsFollow ==
  /\ sweep.pass \in 1 .. 5 => HoldsFrom(sweep, From(sweep.pass))
  /\ dunning.pass = 2 => HoldsFrom(dunning, {"active", "expiring"})

Following == Serial /\ RequestsFollow /\ JobsFollow

LEMMA FollowingInit == Init => Following
<1> SUFFICES ASSUME Init PROVE Following
  OBVIOUS
<1>1. RequestsFollow /\ JobsFollow
  BY DEF Init, RequestsFollow, JobsFollow, IdleJob, IdleRequest
<1> QED BY <1>1, SerialInit DEF Following

LEMMA SelectedFrom ==
  ASSUME NEW pass \in 1 .. 5, NEW r, NEW at, SelectedBy(pass, r, at)
  PROVE  r.state \in From(pass)
<1>1. CASE pass = 1
  BY <1>1 DEF SelectedBy, TrialOver, From
<1>2. CASE pass = 2
  BY <1>2 DEF SelectedBy, DueForRenewal, PeriodOver, From
<1>3. CASE pass = 3
  BY <1>3 DEF SelectedBy, PeriodOver, From
<1>4. CASE pass = 4
  BY <1>4 DEF SelectedBy, GraceOver, From
<1>5. CASE pass = 5
  BY <1>5 DEF SelectedBy, Approaching, From
<1> QED BY <1>1, <1>2, <1>3, <1>4, <1>5

LEMMA FollowOn ==
  ASSUME NEW job \in Job, NEW s \in Subs, NEW new \in Row, NEW job2, NEW states,
         job.grace = 0 \/ job.grace = s, HoldsFrom(job, states),
         \/ job2 = Handled(job, s)
         \/ job2 = EnteringGrace(job, s, new) /\ new.state = "past_due"
  PROVE  HoldsFrom(job2, states) /\ job2.grace \in {0, s} /\ job2.pass = job.pass
         /\ (job2 = Handled(job, s) => job2.grace = 0)
<1>0. job.todo \subseteq Subs /\ job.rows \in [Subs -> Row] /\ 0 \notin Subs
  BY JobFields
<1>1. CASE job2 = Handled(job, s)
  <2>1. /\ Handled(job, s).todo = job.todo \ {s} /\ Handled(job, s).grace = 0
        /\ Handled(job, s).pass = job.pass
        /\ \A t \in Subs \ {s} : Handled(job, s).rows[t] = job.rows[t]
    BY HandledType
  <2> QED BY <1>0, <1>1, <2>1 DEF HoldsFrom
<1>2. CASE job2 = EnteringGrace(job, s, new) /\ new.state = "past_due"
  <2>1. /\ EnteringGrace(job, s, new).todo = job.todo
        /\ EnteringGrace(job, s, new).grace = s
        /\ EnteringGrace(job, s, new).pass = job.pass
        /\ EnteringGrace(job, s, new).rows = [job.rows EXCEPT ![s] = new]
    BY EnteringGraceType
  <2>2. Handled(job, s).grace = 0
    BY HandledType
  <2>3. HoldsFrom(job2, states)
    BY <1>0, <1>2, <2>1 DEF HoldsFrom
  <2> QED BY <1>0, <1>2, <2>1, <2>2, <2>3
<1> QED BY <1>1, <1>2

(* A request takes a row in hand.                                          *)
LEMMA HoldFollows ==
  ASSUME Following, NEW q \in Requests, NEW s \in Subs, NEW new, NEW sync \in BOOLEAN,
         Hold(q, s, new, sync), ReadOnly, Edge(sub[s].state, new.state, Overdue(s))
  PROVE  RequestsFollow' /\ JobsFollow' /\ MachineStep
<1>1. /\ request'[q] = [stage |-> "write", id |-> s, read |-> sub[s], new |-> new,
                        sync |-> sync]
      /\ \A p \in Requests \ {q} : request'[p] = request[p]
  BY DEF Hold, Following, Serial, Typed, TypeOK
<1>2. unflagged' = unflagged /\ flagged' = flagged
  BY DEF ReadOnly, invoices
<1>3. s # 0
  OBVIOUS
<1>5. RequestsFollow'
  <2> DEFINE Follows(r) ==
        IF r.id = 0 THEN r.new.state \in {"trial", "pending"}
        ELSE Edge(r.read.state, r.new.state, unflagged[r.id] + flagged[r.id])
  <2>1. Follows(request'[q])
    BY <1>1, <1>3 DEF Overdue
  <2>2. \A p \in Requests \ {q} : request[p].stage = "write" => Follows(request[p])
    BY DEF Following, RequestsFollow, Overdue
  <2>3. \A p \in Requests : request'[p].stage = "write" => Follows(request'[p])
    BY <1>1, <2>1, <2>2
  <2> QED BY <1>2, <2>3 DEF RequestsFollow, Overdue
<1>6. JobsFollow'
  BY DEF ReadOnly, Following, JobsFollow, HoldsFrom
<1>7. MachineStep
  BY RestMaps DEF ReadOnly, tables
<1> QED BY <1>5, <1>6, <1>7

(* A request is done, or has a payment to follow; nobody else is at work.  *)
LEMMA AloneFollows ==
  ASSUME Following, NEW q \in Requests, NEW held,
         held.stage = "write" => held.id = 0 /\ held.new.state \in {"trial", "pending"},
         request' = [request EXCEPT ![q] = held], UNCHANGED <<sweep, dunning>>,
         Quiet \/ request[q].stage # "idle"
  PROVE  RequestsFollow' /\ JobsFollow'
<1>1. /\ request'[q] = held
      /\ \A p \in Requests \ {q} : request'[p] = request[p] /\ request[p].stage = "idle"
  BY DEF Following, Serial, OneAtATime, Quiet, Typed, TypeOK
<1> QED BY <1>1 DEF Following, RequestsFollow, JobsFollow, HoldsFrom

LEMMA ServeFollows ==
  ASSUME Following, Typed', ~Overlap, NEW q \in Requests, Serve(q)
  PROVE  RequestsFollow' /\ JobsFollow' /\ MachineStep
<1>0. /\ now \in Int /\ sub \in [Subs -> Row] /\ TypeOK /\ TypeOK'
      /\ \A s \in Subs : sub[s] \in Row /\ Overdue(s) \in Nat
      /\ request[q] \in Request
  <2>1. TypeOK /\ TypeOK'
    BY DEF Following, Serial, Typed
  <2> QED BY <2>1, ColumnTypes
<1>d. IdleRequest.stage # "write"
  BY DEF IdleRequest
<1>1. CASE ReadCreate(q)
  <2>1. PICK plan \in Plans, cycle \in Cycles, start \in StartOffsets,
             trial \in TrialDays, grace \in GraceDays, auto \in RenewalModes :
          request' = [request EXCEPT ![q] =
            [stage |-> "write", id |-> 0, read |-> AbsentRow, sync |-> TRUE,
             new |-> NewRow(plan, cycle, now + start, trial, grace, auto)]]
    BY <1>1 DEF ReadCreate
  <2> DEFINE new == NewRow(plan, cycle, now + start, trial, grace, auto)
  <2>2. now + start \in Int /\ trial \in Nat /\ grace \in Nat /\ auto \in BOOLEAN
    BY <1>0
  <2>3. new.state \in {"trial", "pending"}
    BY <2>2, NewRowType
  <2> HIDE DEF new
  <2>4. Quiet /\ ReadOnly
    BY <1>1 DEF ReadCreate, Accepts, MayStart
  <2>5. RequestsFollow' /\ JobsFollow'
    BY <2>1, <2>3, <2>4, AloneFollows DEF ReadOnly, new
  <2> QED BY <2>4, <2>5, RestMaps DEF ReadOnly, tables
<1>2. CASE Insert(q)
  <2>1. PICK s \in Subs : ~Exists(s) /\ sub' = [sub EXCEPT ![s] = request[q].new]
    BY <1>2, AloneWrites DEF Following
  <2>2. request[q].new.state \in {"trial", "pending"} /\ UNCHANGED invoices
    BY <1>2 DEF Insert, Following, RequestsFollow
  <2>3. /\ States' = [States EXCEPT ![s] = request[q].new.state]
        /\ Debts' = Debts /\ States[s] = "absent"
    BY <1>0, <2>1, <2>2 DEF States, Debts, invoices, Overdue, Exists
  <2>4. Machine!Create(s)
    BY <2>2, <2>3 DEF Machine!Create, States, Debts
  <2>5. RequestsFollow' /\ JobsFollow'
    BY <1>2, <1>d, AloneFollows DEF Insert
  <2> QED BY <2>4, <2>5 DEF MachineStep, Machine!Next
<1>3. CASE Write(q)
  <2> DEFINE s == request[q].id
  <2>1. s \in Subs /\ request[q].new \in Row /\ request[q].read = sub[s]
    BY <1>0, <1>3, RequestFields DEF Write, Following, Serial, RequestsCurrent
  <2>2. sub' = [sub EXCEPT ![s] = Saved(sub[s], request[q].read, request[q].new)]
    BY <1>3, AloneWrites DEF Following, Wrote
  <2>3. sub' = [sub EXCEPT ![s] = request[q].new]
    BY <1>0, <2>1, <2>2, SavedFresh
  <2>4. Edge(sub[s].state, request[q].new.state, Overdue(s))
    BY <1>3, <2>1 DEF Write, Following, RequestsFollow
  <2>5. MachineStep
    BY <1>0, <1>3, <2>1, <2>3, <2>4, MoveMaps DEF Write
  <2>6. RequestsFollow' /\ JobsFollow'
    BY <1>3, <1>d, AloneFollows DEF Write
  <2> QED BY <2>5, <2>6
<1>4. CASE FollowSettlement(q)
  <2> DEFINE s == request[q].id
             r == sub[s]
             action == IF r.state \in {"pending", "trial"} THEN "activate" ELSE "reactivate"
  <2>1. s \in Subs
    BY <1>0, <1>4, RequestFields DEF FollowSettlement, Following, Serial, Typed, SettleIds
  <2>2. CASE CanSettle(r, now, Overdue(s))
    <3>1. Hold(q, s, Settled(r), TRUE) /\ Edge(r.state, Settled(r).state, Overdue(s))
      BY <1>0, <1>4, <2>1, <2>2, SettlementEdge DEF FollowSettlement
    <3> QED BY <1>4, <2>1, <3>1, HoldFollows DEF FollowSettlement
  <2>3. CASE ~CanSettle(r, now, Overdue(s)) /\ r.state \in {"pending", "trial", "expired"}
    <3>1. action \in Actions /\ CanTransition(r, action)
      BY <2>3 DEF Actions, CanTransition, TransitionFrom, TransitionTo
    <3>2. Hold(q, s, Transitioned(r, action, now), TRUE)
      BY <1>4, <2>3 DEF FollowSettlement
    <3>3. Edge(r.state, Transitioned(r, action, now).state, Overdue(s))
      BY <1>0, <2>1, <3>1, TransitionEdge
    <3> HIDE DEF action
    <3> QED BY <1>4, <2>1, <3>2, <3>3, HoldFollows DEF FollowSettlement
  <2>4. CASE ~CanSettle(r, now, Overdue(s)) /\ r.state \notin {"pending", "trial", "expired"}
    <3>1. request' = [request EXCEPT ![q] = IdleRequest] /\ ReadOnly /\ request[q].stage # "idle"
      BY <1>4, <2>4 DEF FollowSettlement
    <3>2. RequestsFollow' /\ JobsFollow'
      BY <1>d, <3>1, AloneFollows DEF ReadOnly
    <3> QED BY <3>1, <3>2, RestMaps DEF ReadOnly, tables
  <2> QED BY <2>2, <2>3, <2>4
<1>5. ASSUME NEW s \in Subs, ReadUpdate(q, s)
      PROVE  RequestsFollow' /\ JobsFollow' /\ MachineStep
  <2>1. PICK new : Hold(q, s, new, FALSE) /\ new.state = sub[s].state
    <3>1. \A days \in TrialDays : WithTrialDays(sub[s], days).state = sub[s].state
      BY <1>0, WithTrialDaysType
    <3>2. \A days \in GraceDays : [sub[s] EXCEPT !.grace_period_days = days].state = sub[s].state
      BY <1>0 DEF Row
    <3>3. \A auto \in RenewalModes : [sub[s] EXCEPT !.automatic = auto].state = sub[s].state
      BY <1>0 DEF Row
    <3> QED BY <1>5, <3>1, <3>2, <3>3 DEF ReadUpdate
  <2>2. Edge(sub[s].state, new.state, Overdue(s))
    BY <2>1 DEF Edge
  <2> QED BY <1>5, <2>1, <2>2, HoldFollows DEF ReadUpdate
<1>6. ASSUME NEW s \in Subs, ReadRenew(q, s)
      PROVE  RequestsFollow' /\ JobsFollow' /\ MachineStep
  <2>1. Edge(sub[s].state, Renewed(sub[s], now, Overdue(s)).state, Overdue(s))
    BY <1>0, <1>6, RenewalEdge DEF ReadRenew
  <2> QED BY <1>6, <2>1, HoldFollows DEF ReadRenew
<1>7. ASSUME NEW s \in Subs, Pay(q, s)
      PROVE  RequestsFollow' /\ JobsFollow' /\ MachineStep
  <2>1. [IdleRequest EXCEPT !.stage = "settle", !.id = s].stage # "write"
    BY DEF IdleRequest
  <2>2. Quiet /\ sub' = sub /\ Exists(s)
    BY <1>7 DEF Pay, Accepts, MayStart, tables
  <2>3. RequestsFollow' /\ JobsFollow'
    BY <1>7, <2>1, <2>2, AloneFollows DEF Pay
  <2>4. \A t \in Subs \ {s} : unflagged'[t] = unflagged[t] /\ flagged'[t] = flagged[t]
    BY <1>0, <1>7 DEF Pay, invoices, TypeOK
  <2> QED BY <1>0, <2>2, <2>3, <2>4, BillMaps
<1>8. ASSUME NEW s \in Subs, NEW action \in Actions, ReadTransition(q, s, action)
      PROVE  RequestsFollow' /\ JobsFollow' /\ MachineStep
  <2>1. Edge(sub[s].state, Transitioned(sub[s], action, now).state, Overdue(s))
    BY <1>0, <1>8, TransitionEdge DEF ReadTransition
  <2> QED BY <1>8, <2>1, HoldFollows DEF ReadTransition
<1>9. ASSUME NEW s \in Subs, NEW plan \in Plans, NEW cycle \in Cycles,
             ReadChangePlan(q, s, plan, cycle)
      PROVE  RequestsFollow' /\ JobsFollow' /\ MachineStep
  <2>1. /\ Edge(sub[s].state, PlanChanged(sub[s], plan, cycle).state, Overdue(s))
        /\ Edge(sub[s].state, DowngradeScheduled(sub[s], plan, cycle).state, Overdue(s))
    BY <1>0, PlanChangedType, DowngradeScheduledType DEF Edge
  <2> QED BY <1>9, <2>1, HoldFollows DEF ReadChangePlan
<1> QED BY <1>1, <1>2, <1>3, <1>4, <1>5, <1>6, <1>7, <1>8, <1>9, AloneRuns
        DEF Serve, Following

LEMMA SweepFollows ==
  ASSUME Following, ~Overlap, LifecycleJob
  PROVE  RequestsFollow' /\ JobsFollow' /\ MachineStep
<1>0. /\ sweep \in Job /\ Current(sweep) /\ TypeOK
      /\ \A s \in Subs : sub[s] \in Row /\ sweep.rows[s] \in Row /\ Overdue(s) \in Nat
      /\ sweep.pass \in 0 .. 5 /\ sweep.at \in Int /\ sweep.todo \in SUBSET Subs
      /\ \A t \in sweep.todo : sweep.rows[t] = sub[t]
  <2>1. TypeOK /\ sweep \in Job /\ Current(sweep)
    BY DEF Following, Serial, JobsCurrent, Typed, TypeOK
  <2>2. \A s \in Subs : Overdue(s) \in Nat /\ sub[s] \in Row
    BY <2>1 DEF TypeOK, Overdue
  <2> QED BY <2>1, <2>2, JobFields DEF Current
<1>1. dunning' = dunning /\ UNCHANGED <<invoices, request>>
  BY DEF LifecycleJob, SweepRead, SweepEnd, SweepPastDue, SweepGrace, SweepReadRenewal,
         SweepRenew, SweepMark, SweepStore, SweepBegins, SweepRolledBack, JobStep
<1>a. RequestsFollow'
  BY <1>1 DEF Following, RequestsFollow, invoices, Overdue
<1>2. ASSUME NEW s \in Subs, NEW new \in Row, s \in sweep.todo, Wrote(s, sweep.rows[s], new),
             Edge(sub[s].state, new.state, Overdue(s)), sweep.grace = 0 \/ sweep.grace = s,
             sweep.pass \in 1 .. 5,
             \/ sweep' = Handled(sweep, s)
             \/ /\ sweep' = EnteringGrace(sweep, s, new) /\ new.state = "past_due"
                /\ sweep.pass \in {1, 3}
      PROVE  JobsFollow' /\ MachineStep
  <2>0. sweep.rows[s] = sub[s] /\ sub[s] \in Row
    BY <1>0, <1>2
  <2>1. sub' = [sub EXCEPT ![s] = new]
    <3>1. sub' = [sub EXCEPT ![s] = Saved(sub[s], sub[s], new)]
      BY <1>2, <2>0 DEF Wrote
    <3>2. Saved(sub[s], sub[s], new) = new
      BY <1>2, <2>0, SavedFresh
    <3> QED BY <3>1, <3>2
  <2>2. MachineStep
    BY <1>0, <1>1, <1>2, <2>1, MoveMaps
  <2>3. HoldsFrom(sweep, From(sweep.pass))
    BY <1>2 DEF Following, JobsFollow
  <2>4. /\ HoldsFrom(sweep', From(sweep.pass)) /\ sweep'.pass = sweep.pass
        /\ sweep' = Handled(sweep, s) => sweep'.grace = 0
    BY <1>0, <1>2, <2>3, FollowOn
  <2>5. JobsFollow'
    BY <1>1, <1>2, <2>4 DEF Following, JobsFollow, HoldsFrom
  <2> QED BY <2>2, <2>5
<1>3. CASE SweepRead
  <2>1. PICK at : sweep' = ReadPass(sweep, sweep.pass + 1, at,
                                    {s \in Subs : SelectedBy(sweep.pass + 1, sub[s], at)})
    BY <1>3 DEF SweepRead
  <2>2. sweep.pass + 1 \in 1 .. 5
    BY <1>0, <1>3 DEF SweepRead
  <2>3. /\ \A s \in sweep'.todo : s \in Subs /\ sweep'.rows[s].state \in From(sweep.pass + 1)
        /\ sweep'.grace = 0 /\ sweep'.pass = sweep.pass + 1
    BY <2>1, <2>2, SelectedFrom DEF ReadPass
  <2>4. 0 \notin Subs
    OBVIOUS
  <2>5. HoldsFrom(sweep', From(sweep'.pass))
    BY <2>3, <2>4 DEF HoldsFrom
  <2>6. JobsFollow'
    BY <1>1, <2>3, <2>5 DEF Following, JobsFollow, HoldsFrom
  <2> QED BY <1>1, <1>3, <1>a, <2>6, RestMaps DEF SweepRead, tables
<1>4. CASE SweepEnd
  <2>1. JobsFollow'
    BY <1>1, <1>4 DEF SweepEnd, Following, JobsFollow, HoldsFrom, IdleJob
  <2> QED BY <1>1, <1>4, <1>a, <2>1, RestMaps DEF SweepEnd, tables
<1>5. ASSUME NEW s \in Subs, SweepPastDue(s) PROVE JobsFollow' /\ MachineStep
  <2> DEFINE r == sweep.rows[s]
             new == IF sweep.pass = 1 THEN TrialEnded(r, sweep.at) ELSE PastDue(r, sweep.at)
  <2>1. r \in Row /\ s \in sweep.todo /\ sweep.pass \in {1, 3} /\ sweep.grace = 0
    BY <1>0, <1>5 DEF SweepPastDue, First
  <2>2. sweep.pass = 1 => r.trial_ends_at # NoDate
    BY <2>1 DEF TrialRows, Following, Serial, Typed
  <2>3. new \in Row /\ new.state = "past_due"
    <3> HIDE DEF r
    <3> QED BY <1>0, <2>1, <2>2, TrialEndedType, PastDueType
  <2>4. /\ Wrote(s, r, new)
        /\ sweep' = Handled(sweep, s) \/ sweep' = EnteringGrace(sweep, s, new)
    <3>1. sweep.grace # s
      BY <2>1
    <3>2. SweepRow(s) = new
      BY <2>1, <3>1, SweepRowCases
    <3> QED BY <1>5, <3>2, AloneWrites DEF SweepPastDue, Following
  <2> HIDE DEF new
  <2>5. sub[s].state \in {"trial", "active", "expiring"}
    <3>1. r.state \in From(sweep.pass)
      BY <2>1 DEF Following, JobsFollow, HoldsFrom
    <3> QED BY <1>0, <2>1, <3>1 DEF From
  <2>6. Edge(sub[s].state, new.state, Overdue(s))
    BY <2>3, <2>5 DEF Edge, Machine!Calendar
  <2> QED BY <1>2, <2>1, <2>3, <2>4, <2>6
<1>6. ASSUME NEW s \in Subs, SweepGrace(s) PROVE JobsFollow' /\ MachineStep
  <2>1. s \in sweep.todo /\ sweep.grace = s /\ sweep.pass \in {1, 3}
    BY <1>0, <1>6 DEF SweepGrace, Current, Following, Serial, JobsCurrent
  <2>2. GraceStarted(sweep.rows[s]) \in Row /\ GraceStarted(sweep.rows[s]).state = "grace_period"
    BY <1>0, MarkedType, Values DEF GraceStarted
  <2>3. sub[s].state = "past_due"
    BY <1>0, <2>1 DEF Following, JobsFollow, HoldsFrom
  <2>4. Edge(sub[s].state, GraceStarted(sweep.rows[s]).state, Overdue(s))
    BY <2>2, <2>3 DEF Edge, Machine!Calendar
  <2>5. Wrote(s, sweep.rows[s], GraceStarted(sweep.rows[s]))
    <3>1. SweepRow(s) = GraceStarted(sweep.rows[s])
      BY <2>1, SweepRowCases
    <3> QED BY <1>6, <3>1, AloneWrites DEF SweepGrace, Following
  <2> QED BY <1>2, <1>6, <2>1, <2>2, <2>4, <2>5 DEF SweepGrace
<1>7. ASSUME NEW s \in Subs, SweepRenew(s) PROVE JobsFollow' /\ MachineStep
  <2> DEFINE new == Renewed(sub[s], sweep.at, Overdue(s))
  <2>1. /\ s \in sweep.todo /\ sweep.rows[s] = sub[s] /\ sweep' = Handled(sweep, s)
        /\ sweep.pass = 2 /\ sweep.grace = 0 /\ Wrote(s, sweep.rows[s], new)
        /\ CanRenew(sub[s], sweep.at, Overdue(s))
    BY <1>7, SweepRenewsRow DEF SweepRenew, Following
  <2>2. new \in Row /\ Edge(sub[s].state, new.state, Overdue(s))
    BY <1>0, <2>1, RenewedType, RenewalEdge DEF CanRenew
  <2> HIDE DEF new
  <2> QED BY <1>2, <2>1, <2>2
<1>8. ASSUME NEW s \in Subs, SweepMark(s) PROVE JobsFollow' /\ MachineStep
  <2> DEFINE new == IF sweep.pass = 4 THEN Expired(sweep.rows[s])
                    ELSE [sweep.rows[s] EXCEPT !.state = "expiring"]
  <2>1. new \in Row /\ new.state = IF sweep.pass = 4 THEN "expired" ELSE "expiring"
    BY <1>0, MarkedType, Values DEF Expired
  <2>2. /\ Wrote(s, sweep.rows[s], new) /\ s \in sweep.todo /\ sweep' = Handled(sweep, s)
        /\ sweep.pass \in {4, 5} /\ sweep.grace = 0
    BY <1>8, SweepMarksRow DEF SweepMark, Following
  <2> HIDE DEF new
  <2>3. sub[s].state \in From(sweep.pass)
    BY <1>0, <2>2 DEF Following, JobsFollow, HoldsFrom
  <2>4. Edge(sub[s].state, new.state, Overdue(s))
    BY <2>1, <2>2, <2>3 DEF From, Edge, Machine!Calendar
  <2> QED BY <1>2, <2>1, <2>2, <2>4
<1>9. ASSUME NEW s \in Subs, SweepReadRenewal(s) PROVE JobsFollow' /\ MachineStep
  <2>1. /\ sub' = sub /\ sweep.pass = 2 /\ sweep.grace = 0
        /\ \/ sweep' = Handled(sweep, s)
           \/ /\ sweep'.todo = sweep.todo /\ sweep'.rows = sweep.rows
              /\ sweep'.pass = 2 /\ sweep'.grace = 0
    BY <1>9, SweepReadsRow DEF Following
  <2>2. HoldsFrom(sweep, From(2))
    BY <2>1 DEF Following, JobsFollow
  <2>3. HoldsFrom(sweep', From(2)) /\ sweep'.pass = 2
    <3>1. CASE sweep' = Handled(sweep, s)
      BY <1>0, <2>1, <2>2, <3>1, FollowOn, AbsentRowType
    <3>2. CASE sweep'.todo = sweep.todo /\ sweep'.rows = sweep.rows
               /\ sweep'.pass = 2 /\ sweep'.grace = 0
      BY <2>1, <2>2, <3>2 DEF HoldsFrom
    <3> QED BY <2>1, <3>1, <3>2
  <2>4. JobsFollow'
    BY <1>1, <2>3 DEF Following, JobsFollow, HoldsFrom
  <2> QED BY <1>1, <2>1, <2>4, RestMaps
<1> QED BY <1>a, <1>3, <1>4, <1>5, <1>6, <1>7, <1>8, <1>9, AloneRuns DEF LifecycleJob, Following

LEMMA DunningFollows ==
  ASSUME Following, ~Overlap, OverdueJob
  PROVE  RequestsFollow' /\ JobsFollow' /\ MachineStep
<1>0. /\ dunning \in Job /\ TypeOK /\ dunning.at \in Int /\ dunning.todo \in SUBSET Subs
      /\ \A s \in Subs : sub[s] \in Row /\ dunning.rows[s] \in Row
  <2>1. TypeOK
    BY DEF Following, Serial, Typed
  <2>2. dunning \in Job /\ \A s \in Subs : sub[s] \in Row
    BY <2>1, ColumnTypes
  <2>3. /\ dunning.at \in Nat /\ dunning.todo \in SUBSET Subs
        /\ dunning.rows \in [Subs -> Row]
    BY <2>2, JobFields
  <2> QED BY <2>1, <2>2, <2>3
<1>1. sweep' = sweep /\ request' = request
  BY DEF OverdueJob, DunningFlag, DunningRead, DunningEnd, DunningPastDue, DunningGrace,
         DunningStore, DunningBegins, DunningRolledBack, JobStep
<1>a. UNCHANGED invoices => RequestsFollow'
  BY <1>1 DEF Following, RequestsFollow, invoices, Overdue
<1>2. ASSUME NEW s \in Subs, NEW new \in Row, dunning.pass = 2, s \in dunning.todo,
             Wrote(s, dunning.rows[s], new), JobStep, dunning.grace = 0 \/ dunning.grace = s,
             Edge(dunning.rows[s].state, new.state, Overdue(s)),
             \/ dunning' = Handled(dunning, s)
             \/ dunning' = EnteringGrace(dunning, s, new) /\ new.state = "past_due"
      PROVE  RequestsFollow' /\ JobsFollow' /\ MachineStep
  <2>1. dunning.rows[s] = sub[s] /\ HoldsFrom(dunning, {"active", "expiring"})
    BY <1>2 DEF Following, JobsFollow, Serial, JobsCurrent, Current
  <2>2. sub' = [sub EXCEPT ![s] = new]
    BY <1>0, <1>2, <2>1, SavedFresh DEF Wrote
  <2>3. MachineStep
    BY <1>0, <1>2, <2>1, <2>2, MoveMaps DEF JobStep
  <2>4. HoldsFrom(dunning', {"active", "expiring"})
    BY <1>0, <1>2, <2>1, FollowOn
  <2>5. JobsFollow'
    BY <1>1, <2>4 DEF Following, JobsFollow, HoldsFrom
  <2> QED BY <1>2, <1>a, <2>3, <2>5 DEF JobStep
<1>3. CASE DunningFlag
  <2>1. /\ sub' = sub /\ dunning'.pass = 1
        /\ flagged' = [s \in Subs |-> Overdue(s)] /\ unflagged' = [s \in Subs |-> 0]
        /\ \A q \in Requests : request[q].stage = "idle"
    BY <1>3 DEF DunningFlag, IdleJob, tables, MayStart, Quiet
  <2>2. RequestsFollow' /\ JobsFollow'
    BY <1>1, <2>1 DEF RequestsFollow, Following, JobsFollow, HoldsFrom
  <2>3. States' = States
    BY <2>1 DEF States
  <2>4. Debts' = Debts
    <3>1. \A s \in Subs : Overdue(s) \in Nat
      BY <1>0 DEF TypeOK, Overdue
    <3>2. \A s \in Subs : unflagged'[s] + flagged'[s] = Overdue(s)
      BY <2>1, <3>1
    <3> QED BY <3>2 DEF Debts, Overdue
  <2> QED BY <2>2, <2>3, <2>4 DEF MachineStep, Machine!machine, States, Debts
<1>4. CASE DunningRead
  <2>1. /\ sub' = sub /\ UNCHANGED invoices /\ dunning'.grace = 0
        /\ \A s \in dunning'.todo : s \in Subs /\ dunning'.rows[s].state \in {"active", "expiring"}
    BY <1>0, <1>4 DEF DunningRead, ReadPass, JobStep, tables
  <2>2. 0 \notin Subs
    OBVIOUS
  <2>3. HoldsFrom(dunning', {"active", "expiring"})
    BY <2>1, <2>2 DEF HoldsFrom
  <2>4. JobsFollow'
    BY <1>1, <2>3 DEF Following, JobsFollow, HoldsFrom
  <2> QED BY <1>a, <2>1, <2>4, RestMaps
<1>5. CASE DunningEnd
  <2>1. JobsFollow'
    BY <1>1, <1>5 DEF DunningEnd, Following, JobsFollow, HoldsFrom, IdleJob
  <2> QED BY <1>a, <1>5, <2>1, RestMaps DEF DunningEnd, tables, JobStep
<1>6. ASSUME NEW s \in Subs, DunningPastDue(s)
      PROVE  RequestsFollow' /\ JobsFollow' /\ MachineStep
  <2> DEFINE r == dunning.rows[s]
             new == PastDue(r, dunning.at)
  <2>1. /\ r \in Row /\ s \in dunning.todo /\ dunning.pass = 2 /\ dunning.grace = 0
        /\ DunningRow(s) = new
    BY <1>0, <1>6 DEF DunningPastDue, First, DunningRow
  <2>2. new \in Row /\ new.state = "past_due"
    <3> HIDE DEF r
    <3> QED BY <1>0, <2>1, PastDueType
  <2>3. /\ Wrote(s, r, new) /\ JobStep
        /\ dunning' = Handled(dunning, s) \/ dunning' = EnteringGrace(dunning, s, new)
    BY <1>6, <2>1, AloneWrites DEF DunningPastDue, Following
  <2> HIDE DEF new
  <2>4. r.state \in {"active", "expiring"}
    BY <1>0, <2>1 DEF Following, JobsFollow, HoldsFrom
  <2>5. Edge(r.state, new.state, Overdue(s))
    BY <2>2, <2>4 DEF Edge, Machine!Calendar
  <2> QED BY <1>2, <2>1, <2>2, <2>3, <2>5
<1>7. ASSUME NEW s \in Subs, DunningGrace(s)
      PROVE  RequestsFollow' /\ JobsFollow' /\ MachineStep
  <2>1. dunning.grace # 0 /\ dunning.grace = s
    BY <1>7 DEF DunningGrace
  <2>2. dunning.pass = 2
    BY <2>1 DEF Following, Serial, JobsCurrent, OneAtATime, IdleJob
  <2>3. s \in dunning.todo
    BY <2>1, <2>2 DEF Following, Serial, JobsCurrent, Current
  <2>4. GraceStarted(dunning.rows[s]) \in Row /\ GraceStarted(dunning.rows[s]).state = "grace_period"
    BY <1>0, MarkedType, Values DEF GraceStarted
  <2>5. dunning.rows[s].state = "past_due"
    BY <2>1, <2>2, <2>3 DEF Following, JobsFollow, HoldsFrom
  <2>6. Edge(dunning.rows[s].state, GraceStarted(dunning.rows[s]).state, Overdue(s))
    BY <2>4, <2>5 DEF Edge, Machine!Calendar
  <2>7. Wrote(s, dunning.rows[s], GraceStarted(dunning.rows[s]))
    BY <1>7, <2>1, AloneWrites DEF DunningGrace, DunningRow, Following
  <2> QED BY <1>2, <1>7, <2>1, <2>2, <2>3, <2>4, <2>6, <2>7 DEF DunningGrace
<1> QED BY <1>3, <1>4, <1>5, <1>6, <1>7, AloneRuns DEF OverdueJob, Following

LEMMA WorldFollows ==
  ASSUME Following, TypeOK', ~Overlap, World
  PROVE  RequestsFollow' /\ JobsFollow' /\ MachineStep
<1>1. CASE Tick
  <2>1. UNCHANGED <<sub, invoices, request, sweep, dunning>>
    BY <1>1 DEF Tick, tables
  <2>2. RequestsFollow' /\ JobsFollow'
    BY <2>1 DEF Following, RequestsFollow, JobsFollow, HoldsFrom, invoices, Overdue
  <2> QED BY <2>1, <2>2, RestMaps
<1>2. ASSUME NEW s \in Subs, InvoiceFallsDue(s)
      PROVE  RequestsFollow' /\ JobsFollow' /\ MachineStep
  <2>1. /\ UNCHANGED <<sub, request, sweep, dunning, flagged>> /\ Exists(s)
        /\ unflagged' = [unflagged EXCEPT ![s] = @ + 1]
        /\ \A q \in Requests : request[q].stage = "idle"
    BY <1>2 DEF InvoiceFallsDue, tables, MayStart, Quiet
  <2>2. RequestsFollow' /\ JobsFollow'
    BY <2>1 DEF RequestsFollow, Following, JobsFollow, HoldsFrom
  <2>3. TypeOK /\ \A t \in Subs \ {s} : unflagged'[t] = unflagged[t] /\ flagged'[t] = flagged[t]
    BY <2>1 DEF Following, Serial, Typed, TypeOK
  <2> QED BY <2>1, <2>2, <2>3, BillMaps
<1>3. CASE ApiCrash
  <2>1. /\ UNCHANGED <<sub, invoices, sweep, dunning>>
        /\ \A q \in Requests : request'[q].stage = "idle"
    BY <1>3 DEF ApiCrash, tables, IdleRequest
  <2>2. RequestsFollow' /\ JobsFollow'
    BY <2>1 DEF RequestsFollow, Following, JobsFollow, HoldsFrom
  <2> QED BY <2>1, <2>2, RestMaps
<1>4. CASE WorkerCrash
  <2>1. UNCHANGED <<sub, invoices, request>> /\ sweep' = IdleJob /\ dunning' = IdleJob
    BY <1>4 DEF WorkerCrash, tables
  <2>2. RequestsFollow' /\ JobsFollow'
    BY <2>1 DEF Following, RequestsFollow, JobsFollow, HoldsFrom, IdleJob, invoices, Overdue
  <2> QED BY <2>1, <2>2, RestMaps
<1> QED BY <1>1, <1>2, <1>3, <1>4 DEF World

LEMMA FollowingNext ==
  ASSUME ~Overlap, Following, [Next]_vars
  PROVE  Following' /\ MachineStep
<1>0. Serial' /\ Typed' /\ TypeOK'
  BY SerialNext DEF Following, Serial, Typed
<1>1. CASE UNCHANGED vars
  <2>1. UNCHANGED <<sub, invoices, request, sweep, dunning>>
    BY <1>1 DEF vars, tables, invoices
  <2>2. RequestsFollow' /\ JobsFollow'
    BY <2>1 DEF Following, RequestsFollow, JobsFollow, HoldsFrom, invoices, Overdue
  <2> QED BY <1>0, <2>1, <2>2, RestMaps DEF Following
<1>2. CASE Next
  BY <1>0, <1>2, ServeFollows, SweepFollows, DunningFollows, WorldFollows DEF Next, Following
<1> QED BY <1>1, <1>2

(* One operation at a time, the lifecycle implements SubscriptionMachine:  *)
(* every transaction of every request and job, through crashes, is an edge *)
(* the service documents, and those money closes are taken only when they  *)
(* are open.                                                               *)
THEOREM ImplementsMachine == ~Overlap => (Spec => KeepsToMachine)
<1> SUFFICES ASSUME ~Overlap PROVE Spec => KeepsToMachine
  OBVIOUS
<1>1. Following /\ [Next]_vars => Following'
  BY FollowingNext
<1>2. Following /\ [Next]_vars => [Machine!Next]_(Machine!machine)
  BY FollowingNext DEF MachineStep
<1>3. Init => Machine!Init
  BY DEF Init, Machine!Init, AbsentRow, Overdue
<1> QED BY FollowingInit, <1>1, <1>2, <1>3, PTL DEF Spec, KeepsToMachine, Machine!Spec
=============================================================================

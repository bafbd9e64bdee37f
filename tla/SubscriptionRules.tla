------------------------- MODULE SubscriptionRules -------------------------
(***************************************************************************)
(* The vocabulary and the pure rules of the subscription lifecycle: the    *)
(* columns of a subscriptions row the lifecycle reads and writes, the      *)
(* guard and the new columns of every operation, as functions of the row   *)
(* that was read and of the moment `at` the operation evaluates.  Nothing  *)
(* here has state; SubscriptionLifecycle and the modules that compose it   *)
(* decide when a rule is evaluated and against which copy of the row.      *)
(*                                                                         *)
(* Time is counted in whole units (a day, say); a billing cycle is its     *)
(* length in those units, and 0 is the one-time cycle, which has no end.   *)
(***************************************************************************)
EXTENDS Integers

CONSTANTS
  NoDate,          \* SQL NULL in a date column
  NoPlan,          \* SQL NULL in scheduled_plan_id
  Plans,           \* plan ids; a plan's id is its tier_rank here
  Cycles,          \* billing cycles a price may have
  ExpiringWindow   \* EXPIRING_WINDOW_DAYS

OneTime == 0

ASSUME RulesAssumption ==
  /\ NoDate \notin Int
  /\ NoPlan \notin Plans
  /\ Plans \subseteq Nat \ {0}
  /\ Cycles \subseteq Nat
  /\ ExpiringWindow \in Nat

UsableStates == {"trial", "active", "expiring", "past_due", "grace_period"}
OpenStates == UsableStates \cup {"pending", "paused", "suspended"}
SubscriptionStates == OpenStates \cup {"expired", "cancelled"}

Date == Int \cup {NoDate}

Row ==
  [state: SubscriptionStates \cup {"absent"},
   plan_id: Plans \cup {NoPlan},
   billing_cycle: Cycles \cup {OneTime},
   current_period_start: Date,
   current_period_end: Date,
   trial_starts_at: Date,
   trial_ends_at: Date,
   grace_period_days: Nat,
   grace_period_ends_at: Date,
   automatic: BOOLEAN,                         \* renewal_mode = automatic
   paused_at: Date,
   scheduled_plan_id: Plans \cup {NoPlan},
   scheduled_cycle: Cycles \cup {OneTime},     \* of scheduled_plan_price_id
   scheduled_change_at: Date]

(* An id no INSERT has used yet. *)
AbsentRow ==
  [state |-> "absent", plan_id |-> NoPlan, billing_cycle |-> OneTime,
   current_period_start |-> NoDate, current_period_end |-> NoDate,
   trial_starts_at |-> NoDate, trial_ends_at |-> NoDate,
   grace_period_days |-> 0, grace_period_ends_at |-> NoDate,
   automatic |-> FALSE, paused_at |-> NoDate,
   scheduled_plan_id |-> NoPlan, scheduled_cycle |-> OneTime,
   scheduled_change_at |-> NoDate]

Reached(date, at) == date # NoDate /\ date <= at

AddBillingCycle(from, cycle) == IF cycle = OneTime THEN NoDate ELSE from + cycle

GraceEnd(days, at) == IF days > 0 THEN at + days ELSE NoDate

-----------------------------------------------------------------------------
(* FR-SUB-010 to FR-SUB-012: the row create() inserts, and update(). *)

NewRow(plan, cycle, startsAt, trialDays, graceDays, automatic) ==
  [AbsentRow EXCEPT
     !.state = IF trialDays > 0 THEN "trial" ELSE "pending",
     !.plan_id = plan,
     !.billing_cycle = cycle,
     !.current_period_start = startsAt,
     !.current_period_end = AddBillingCycle(startsAt, cycle),
     !.trial_starts_at = IF trialDays > 0 THEN startsAt ELSE NoDate,
     !.trial_ends_at = IF trialDays > 0 THEN startsAt + trialDays ELSE NoDate,
     !.grace_period_days = graceDays,
     !.automatic = automatic]

WithTrialDays(r, days) ==
  IF r.state = "trial" /\ r.trial_starts_at # NoDate
  THEN [r EXCEPT !.trial_ends_at =
                   IF days > 0 THEN r.trial_starts_at + days ELSE NoDate]
  ELSE r

-----------------------------------------------------------------------------
(* The six operator transitions: their target, their legal sources and the *)
(* columns they write.                                                     *)

Actions == {"activate", "suspend", "reactivate", "pause", "resume", "cancel"}

TransitionTo(action) ==
  CASE action \in {"activate", "reactivate", "resume"} -> "active"
    [] action = "suspend" -> "suspended"
    [] action = "pause" -> "paused"
    [] action = "cancel" -> "cancelled"

TransitionFrom(action) ==
  CASE action = "activate" -> {"pending", "trial"}
    [] action = "suspend" -> OpenStates \ {"suspended"}
    [] action = "reactivate" -> {"suspended", "expired", "cancelled"}
    [] action = "pause" -> {"trial", "active", "expiring"}
    [] action = "resume" -> {"paused"}
    [] action = "cancel" -> OpenStates

CanTransition(r, action) ==
  r.state # TransitionTo(action) /\ r.state \in TransitionFrom(action)

Activated(r, at) ==
  [r EXCEPT
     !.state = "active",
     !.current_period_start = at,
     !.current_period_end = AddBillingCycle(at, r.billing_cycle),
     !.trial_ends_at = IF r.state = "trial" THEN at ELSE @,
     !.grace_period_ends_at = NoDate]

Reactivated(r, at) ==
  [r EXCEPT
     !.state = "active",
     !.current_period_start = at,
     !.current_period_end = AddBillingCycle(at, r.billing_cycle),
     !.grace_period_ends_at = NoDate]

Paused(r, at) == [r EXCEPT !.state = "paused", !.paused_at = at]

(* Every future boundary moves by the length of the pause. *)
Resumed(r, at) ==
  LET pausedAt == IF r.paused_at = NoDate THEN at ELSE r.paused_at
      shift == IF at > pausedAt THEN at - pausedAt ELSE 0
      Shifted(date) == IF date = NoDate THEN NoDate ELSE date + shift
      trialEnd == Shifted(r.trial_ends_at)
      inTrial == trialEnd # NoDate /\ trialEnd > at
  IN  [r EXCEPT
         !.state = IF inTrial THEN "trial" ELSE "active",
         !.paused_at = NoDate,
         !.current_period_end = Shifted(@),
         !.trial_ends_at = trialEnd]

Unscheduled(r) ==
  [r EXCEPT !.scheduled_plan_id = NoPlan, !.scheduled_cycle = OneTime,
            !.scheduled_change_at = NoDate]

Cancelled(r) == [Unscheduled(r) EXCEPT !.state = "cancelled"]

Transitioned(r, action, at) ==
  CASE action = "activate" -> Activated(r, at)
    [] action = "suspend" -> [r EXCEPT !.state = "suspended"]
    [] action = "reactivate" -> Reactivated(r, at)
    [] action = "pause" -> Paused(r, at)
    [] action = "resume" -> Resumed(r, at)
    [] action = "cancel" -> Cancelled(r)

-----------------------------------------------------------------------------
(* FR-SUB-013, FR-SUB-014: plan changes.  A price never changes between    *)
(* one-time and recurring.                                                 *)

CanChangePlan(r, plan, cycle) ==
  /\ r.state \in UsableStates
  /\ plan # r.plan_id
  /\ (cycle = OneTime) = (r.billing_cycle = OneTime)

CanDefer(r, plan, cycle) ==
  /\ CanChangePlan(r, plan, cycle)
  /\ plan < r.plan_id
  /\ r.billing_cycle # OneTime
  /\ r.current_period_end # NoDate

PlanChanged(r, plan, cycle) ==
  [Unscheduled(r) EXCEPT !.plan_id = plan, !.billing_cycle = cycle]

DowngradeScheduled(r, plan, cycle) ==
  [r EXCEPT !.scheduled_plan_id = plan, !.scheduled_cycle = cycle,
            !.scheduled_change_at = r.current_period_end]

-----------------------------------------------------------------------------
(* FR-SUB-015: renewal.  `overdue` is overdueInvoiceCount() at the moment  *)
(* the renewal reads it.                                                   *)

RenewableStates == {"active", "expiring", "past_due", "grace_period", "expired"}

CanRenew(r, at, overdue) ==
  /\ r.state \in RenewableStates
  /\ r.billing_cycle # OneTime
  /\ r.current_period_start <= at
  /\ ~(overdue > 0 /\ r.state = "expired")

ScheduledDue(r, at) ==
  /\ r.scheduled_plan_id # NoPlan
  /\ r.scheduled_change_at = NoDate \/ r.scheduled_change_at <= at

(* Mutants: a renewal that settles what is owed, and one that grants a new *)
(* grace period each time.                                                 *)
RenewedStateUnpaid(r, overdue) == "active"

RenewedGraceEndAnew(r, at, overdue) ==
  IF overdue = 0 THEN NoDate ELSE GraceEnd(r.grace_period_days, at)

(* The state and the grace deadline a renewal leaves the row in (D23). *)
RenewedState(r, overdue) ==
  IF overdue = 0 THEN "active"
  ELSE IF r.state \in {"past_due", "grace_period"} THEN r.state
  ELSE IF r.grace_period_days > 0 THEN "grace_period" ELSE "past_due"

RenewedGraceEnd(r, at, overdue) ==
  IF overdue = 0 THEN NoDate
  ELSE IF r.state \in {"past_due", "grace_period"} THEN r.grace_period_ends_at
  ELSE GraceEnd(r.grace_period_days, at)

Renewed(r, at, overdue) ==
  LET base == IF ScheduledDue(r, at)
              THEN PlanChanged(r, r.scheduled_plan_id, r.scheduled_cycle)
              ELSE r
      start == IF r.current_period_end = NoDate THEN at ELSE r.current_period_end
  IN  [base EXCEPT
         !.state = RenewedState(r, overdue),
         !.current_period_start = start,
         !.current_period_end = AddBillingCycle(start, base.billing_cycle),
         !.grace_period_ends_at = RenewedGraceEnd(r, at, overdue)]

(* Settlement of arrears (D23). *)
CanSettle(r, at, overdue) ==
  /\ r.state \in {"past_due", "grace_period"}
  /\ r.current_period_end # NoDate
  /\ r.current_period_end > at
  /\ overdue = 0

Settled(r) == [r EXCEPT !.state = "active", !.grace_period_ends_at = NoDate]

-----------------------------------------------------------------------------
(* The five passes of runLifecycleSweep(): the WHERE clause of each, and   *)
(* the columns its first write sets.                                       *)

TrialOver(r, at) == r.state = "trial" /\ Reached(r.trial_ends_at, at)

(* Mutant: the pass forgets to ask for a running subscription. *)
PeriodOverAnyState(r, at) == Reached(r.current_period_end, at)

PeriodOver(r, at) ==
  r.state \in {"active", "expiring"} /\ Reached(r.current_period_end, at)

DueForRenewal(r, at) ==
  PeriodOver(r, at) /\ r.automatic /\ r.billing_cycle # OneTime

(* Mutant: a row that never had a grace period is not looked for. *)
GraceOverWithDeadline(r, at) ==
  r.state \in {"grace_period", "past_due"} /\ Reached(r.grace_period_ends_at, at)

GraceOver(r, at) ==
  \/ r.state = "grace_period" /\ Reached(r.grace_period_ends_at, at)
  \/ r.state = "past_due" /\ (\/ r.grace_period_ends_at = NoDate
                              \/ Reached(r.grace_period_ends_at, at))

Approaching(r, at) ==
  /\ ExpiringWindow > 0
  /\ r.state = "active"
  /\ r.current_period_end # NoDate
  /\ r.current_period_end > at
  /\ r.current_period_end <= at + ExpiringWindow

(* Mutant: the deadline is left as it was. *)
PastDueWithoutDeadline(r, at) == [r EXCEPT !.state = "past_due"]

PastDue(r, at) ==
  [r EXCEPT !.state = "past_due",
            !.grace_period_ends_at = GraceEnd(r.grace_period_days, at)]

(* Trial days are not billed: the first period starts where the trial ended. *)
TrialEnded(r, at) ==
  [PastDue(r, at) EXCEPT
     !.current_period_start = r.trial_ends_at,
     !.current_period_end = AddBillingCycle(r.trial_ends_at, r.billing_cycle)]

GraceStarted(r) == [r EXCEPT !.state = "grace_period"]

Expired(r) == [r EXCEPT !.state = "expired"]

SelectedBy(pass, r, at) ==
  CASE pass = 1 -> TrialOver(r, at)
    [] pass = 2 -> DueForRenewal(r, at)
    [] pass = 3 -> PeriodOver(r, at)
    [] pass = 4 -> GraceOver(r, at)
    [] pass = 5 -> Approaching(r, at)

=============================================================================

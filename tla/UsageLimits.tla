---------------------------- MODULE UsageLimits ----------------------------
(***************************************************************************)
(* usageService for one school: the head counts (student_limit, and        *)
(* staff_limit, to which teacher_limit is the same) and the counters of    *)
(* metered limits (ai_limit, sms_limit).                                   *)
(*                                                                         *)
(* A head is counted in its table, under the lock of the school's row for  *)
(* an admission and under none for a reactivation.  A metered unit is      *)
(* taken before the work it pays for, by one conditional UPDATE, and given *)
(* back when the work fails.  Allowances stay what they are; the billing   *)
(* period a counter belongs to moves on.                                   *)
(***************************************************************************)
EXTENDS Integers, FiniteSets

CONSTANTS
  Requests,          \* concurrent request handlers
  NoOne,             \* who holds a lock nobody holds
  Students, Staff,   \* the people there may be
  StudentLimit, StaffLimit,
  Metered,           \* metered limits
  Soft,              \* those of them with allow_overage
  Allowance,         \* of every metered limit
  MaxPeriod, MaxServed     \* bounds: billing periods, units served in one

ASSUME UsageAssumption ==
  /\ NoOne \notin Requests /\ IsFiniteSet(Requests)
  /\ Students \cap Staff = {}
  /\ IsFiniteSet(Students) /\ IsFiniteSet(Staff)
  /\ StudentLimit \in Nat /\ StaffLimit \in Nat
  /\ Soft \subseteq Metered
  /\ Allowance \in Nat /\ MaxPeriod \in Nat \ {0} /\ MaxServed \in Nat

People == Students \cup Staff
Periods == 1 .. MaxPeriod

VARIABLES
  person,      \* the rows of students and staff
  lock,        \* who holds the lock of the schools row
  period,      \* the current billing period
  used,        \* usage_records.used_value of a limit in a period
  overage,     \* usage_records.overage_value
  served,      \* history: units taken for work delivered or under way
  request

vars == <<person, lock, period, used, overage, served, request>>
heads == <<person, lock>>
counters == <<used, overage, served>>

Stages == {"idle", "admit", "reactivate",
           "reserve", "recheck", "increment", "reload", "save", "provider"}

(* delta is what the handler is recording; used and overage are its copy   *)
(* of the row.                                                             *)
Request ==
  [stage: Stages, person: People \cup {NoOne}, limit: Metered \cup {NoOne},
   period: Periods, delta: {-1, 1}, used: Int, overage: Nat]

Idle ==
  [stage |-> "idle", person |-> NoOne, limit |-> NoOne, period |-> 1,
   delta |-> 1, used |-> 0, overage |-> 0]

TypeOK ==
  /\ person \in [People -> {"absent", "active", "inactive"}]
  /\ lock \in Requests \cup {NoOne}
  /\ period \in Periods
  /\ used \in [Metered -> [Periods -> Int]]
  /\ overage \in [Metered -> [Periods -> Nat]]
  /\ served \in [Metered -> [Periods -> Int]]
  /\ request \in [Requests -> Request]

Init ==
  /\ person = [p \in People |-> "absent"]
  /\ lock = NoOne
  /\ period = 1
  /\ used = [l \in Metered |-> [t \in Periods |-> 0]]
  /\ overage = used
  /\ served = used
  /\ request = [q \in Requests |-> Idle]

Become(q, held) == request' = [request EXCEPT ![q] = held]
At(q, stage) == request[q].stage = stage

-----------------------------------------------------------------------------
(* Head counts. *)

Active(group) == {p \in group : person[p] = "active"}

GroupOf(p) == IF p \in Students THEN Students ELSE Staff
LimitOf(p) == IF p \in Students THEN StudentLimit ELSE StaffLimit

(* checkLimit(..., 1): a projection of the count, which is never stored. *)
RoomFor(p) == Cardinality(Active(GroupOf(p))) + 1 <= LimitOf(p)

(* Mutant: the count is made before the lock is waited for. *)
LockedUncontended(q) == TRUE

(* reserveHeadcount(): the lock is granted, and the count comes after it. *)
Locked(q) == lock = NoOne

ReserveHeadcount(q, p) ==
  /\ At(q, "idle") /\ person[p] = "absent"
  /\ Locked(q)
  /\ RoomFor(p)
  /\ lock' = q
  /\ Become(q, [Idle EXCEPT !.stage = "admit", !.person = p])
  /\ UNCHANGED <<person, period, counters>>

(* The insert and the commit. *)
Admit(q) ==
  /\ At(q, "admit")
  /\ person' = [person EXCEPT ![request[q].person] = "active"]
  /\ lock' = NoOne
  /\ Become(q, Idle)
  /\ UNCHANGED <<period, counters>>

(* A member of staff recorded as inactive adds nothing to the count. *)
AdmitInactive(p) ==
  /\ p \in Staff /\ person[p] = "absent"
  /\ person' = [person EXCEPT ![p] = "inactive"]
  /\ UNCHANGED <<lock, period, counters, request>>

(* assertWithinLimit() and the update it allows; the platform is not asked. *)
ReadReactivation(q, p, platform) ==
  /\ At(q, "idle") /\ p \in Staff /\ person[p] = "inactive"
  /\ platform \/ RoomFor(p)
  /\ Become(q, [Idle EXCEPT !.stage = "reactivate", !.person = p])
  /\ UNCHANGED <<heads, period, counters>>

Reactivate(q) ==
  /\ At(q, "reactivate")
  /\ person' = [person EXCEPT ![request[q].person] = "active"]
  /\ Become(q, Idle)
  /\ UNCHANGED <<lock, period, counters>>

(* A student transfers or leaves, a member of staff is deactivated. *)
Leave(p) ==
  /\ person[p] = "active"
  /\ person' = [person EXCEPT ![p] = "inactive"]
  /\ UNCHANGED <<lock, period, counters, request>>

-----------------------------------------------------------------------------
(* Metered limits. *)

(* Mutant: the difference, whichever way it goes. *)
OverageUnclamped(n) == n - Allowance

(* Overage is priced for a soft limit only, but counted for both. *)
Overage(n) == IF n > Allowance THEN n - Allowance ELSE 0

Count(counter, l, t, n) == [counter EXCEPT ![l][t] = @ + n]

(* reserveUsage(): the period is the snapshot's.  A soft limit is recorded *)
(* unconditionally.                                                        *)
Take(q, l) ==
  /\ At(q, "idle") /\ served[l][period] < MaxServed
  /\ Become(q, [Idle EXCEPT !.stage = IF l \in Soft THEN "increment" ELSE "reserve",
                            !.limit = l, !.period = period])
  /\ UNCHANGED <<heads, period, counters>>

(* Mutant: one more than the allowance fits. *)
FitsOneMore(n) == n <= Allowance

Fits(n) == n + 1 <= Allowance

(* UPDATE ... SET used_value = used_value + 1 WHERE used_value + 1 <= allowance; *)
(* where it changed a row, the row is loaded again for its overage.               *)
Reserve(q) ==
  LET r == request[q]
  IN  /\ At(q, "reserve")
      /\ IF Fits(used[r.limit][r.period])
         THEN /\ used' = Count(used, r.limit, r.period, 1)
              /\ served' = Count(served, r.limit, r.period, 1)
              /\ Become(q, [r EXCEPT !.stage = "reload"])
         ELSE /\ Become(q, [r EXCEPT !.stage = "recheck"])
              /\ UNCHANGED <<used, served>>
      /\ UNCHANGED <<heads, period, overage>>

(* No row was changed: assertWithinLimit() reads the counter again, of the *)
(* period that is current by then, and its answer is the caller's.         *)
Recheck(q) ==
  LET r == request[q]
  IN  /\ At(q, "recheck")
      /\ IF Fits(used[r.limit][period])
         THEN /\ served' = Count(served, r.limit, period, 1)
              /\ Become(q, [r EXCEPT !.stage = "provider", !.period = period])
         ELSE Become(q, Idle) /\ UNCHANGED served
      /\ UNCHANGED <<heads, period, used, overage>>

(* The work is done: the reservation is settled. *)
Deliver(q) ==
  /\ At(q, "provider")
  /\ Become(q, Idle)
  /\ UNCHANGED <<heads, period, counters>>

(* Mutant: the reservation of work that failed is not given back. *)
FailUnreleased(q) ==
  LET r == request[q]
  IN  /\ At(q, "provider")
      /\ served' = Count(served, r.limit, r.period, -1)
      /\ Become(q, Idle)
      /\ UNCHANGED <<heads, period, used, overage>>

(* It failed: releaseUsage(), which asks for the period once more. *)
Fail(q) ==
  LET r == request[q]
  IN  /\ At(q, "provider")
      /\ served' = Count(served, r.limit, r.period, -1)
      /\ Become(q, [r EXCEPT !.stage = "increment", !.delta = -1, !.period = period])
      /\ UNCHANGED <<heads, period, used, overage>>

(* recordUsage(): three statements, each of them a transaction of its own; *)
(* reserveUsage() shares the last two.                                     *)
Increment(q) ==
  LET r == request[q]
  IN  /\ At(q, "increment")
      /\ used' = Count(used, r.limit, r.period, r.delta)
      /\ served' = IF r.delta = 1 THEN Count(served, r.limit, r.period, 1) ELSE served
      /\ Become(q, [r EXCEPT !.stage = "reload"])
      /\ UNCHANGED <<heads, period, overage>>

Reload(q) ==
  LET r == request[q]
  IN  /\ At(q, "reload")
      /\ Become(q, [r EXCEPT !.stage = "save", !.used = used[r.limit][r.period],
                             !.overage = overage[r.limit][r.period]])
      /\ UNCHANGED <<heads, period, counters>>

(* recordUsage() sets a negative counter to zero. *)
Floored(r) == r.used < 0 /\ (r.delta = -1 \/ r.limit \in Soft)

(* Only the columns that differ from the copy are written. *)
Save(q) ==
  LET r == request[q]
      over == Overage(r.used)
  IN  /\ At(q, "save")
      /\ used' = IF Floored(r) THEN [used EXCEPT ![r.limit][r.period] = 0] ELSE used
      /\ overage' = IF over = r.overage THEN overage
                    ELSE [overage EXCEPT ![r.limit][r.period] = over]
      /\ Become(q, IF r.delta = 1
                   THEN [r EXCEPT !.stage = "provider", !.used = 0, !.overage = 0]
                   ELSE Idle)
      /\ UNCHANGED <<heads, period, served>>

(* The subscription renews. *)
Renew ==
  /\ period < MaxPeriod
  /\ period' = period + 1
  /\ UNCHANGED <<heads, counters, request>>

-----------------------------------------------------------------------------
HeadcountStep(q) ==
  \/ \E p \in People : ReserveHeadcount(q, p)
  \/ \E p \in People, platform \in BOOLEAN : ReadReactivation(q, p, platform)
  \/ Admit(q) \/ Reactivate(q)

MeteredStep(q) ==
  \/ \E l \in Metered : Take(q, l)
  \/ Reserve(q) \/ Recheck(q) \/ Deliver(q) \/ Fail(q)
  \/ Increment(q) \/ Reload(q) \/ Save(q)

Next ==
  \/ \E q \in Requests : HeadcountStep(q) \/ MeteredStep(q)
  \/ \E p \in People : AdmitInactive(p) \/ Leave(p)
  \/ Renew

Spec == Init /\ [][Next]_vars

-----------------------------------------------------------------------------
(* Properties. *)

(* No number of concurrent admissions takes the active students past       *)
(* student_limit: the check and the insert are one step under the lock.    *)
StudentLimitHolds == Cardinality(Active(Students)) <= StudentLimit

(* The counter of a fixed limit never passes the allowance, whatever is    *)
(* reserved, refused, given back and renewed at once.                      *)
FixedNeverExceeded ==
  \A l \in Metered \ Soft, t \in Periods : used[l][t] <= Allowance

(* A request that failed costs nothing: what the current period has been   *)
(* charged is work served, or still being given back.                      *)
Releasing(l, t) ==
  {q \in Requests : /\ request[q].limit = l /\ request[q].period = t
                    /\ request[q].delta = -1 /\ At(q, "increment")}

FailureCostsNothing ==
  \A l \in Metered :
    used[l][period] <= served[l][period] + Cardinality(Releasing(l, period))

(* What is served under a fixed limit stays within its allowance. *)
ServedWithinAllowance ==
  \A l \in Metered \ Soft, t \in Periods : served[l][t] <= Allowance
=============================================================================
